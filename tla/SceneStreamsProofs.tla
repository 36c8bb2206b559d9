--------------------------- MODULE SceneStreamsProofs ---------------------------
(***************************************************************************)
(* What a prefix stream promises, for any number of objects, streams and   *)
(* events: a blocking one misses only what was published while its client  *)
(* was being handed the replay, and none shows an event of an object       *)
(* twice, closed and resumed anywhere.                                     *)
(***************************************************************************)
EXTENDS SceneStreams, StreamsProofs

-------------------------------------------------------------------------------
\* The invariant.

Positions == [Uris -> Nat]

OnConns ==
    [no : 1..MaxConns, phase : {"called", "replay", "starting", "live"}, mode : Modes, uris : SUBSET Uris,
     next : Positions, start : Positions, cut : Positions, went : Positions, ahead : Nat]
OffConns == [no : 0..MaxConns, phase : {"off"}]

FanItems == [via : Uris, uri : Uris, index : Nat]
Indices == 0..(MaxEvents - 1)

On == conn.phase # "off"

ConnTypes ==
    /\ scope \in Scopes
    /\ created \in SUBSET Uris
    /\ conn \in OffConns \cup OnConns
    /\ token # None => token \in Positions

FanTypes ==
    /\ held \in [Uris -> Payloads \cup {None}]
    /\ fan \in Seq(FanItems)
    /\ scene \in Seq(Positions)
    /\ times \in [Uris -> [Indices -> Nat]]

\* The streams that are open are those of the forwarders that run, and nobody used one
\* that is not open yet.
Forwarders ==
    \A s \in Subs :
        /\ sub[s].phase \in {"new", "open", "closed"}
        /\ sub[s].phase = "open" <=> Live /\ s[2] = conn.no /\ s[1] \in conn.uris
        /\ sub[s].phase = "open" =>
              sub[s].uri = s[1] /\ sub[s].mode = conn.mode /\ sub[s].cutoff = 0
        /\ s[2] > conn.no \/ (s[2] = conn.no /\ conn.phase \in {"called", "replay", "starting"}) =>
              sub[s].phase = "new"

Empty == fan = <<>> /\ \A u \in Uris : held[u] = None

\* The hands of the forwarders are empty unless they run, what is in them is logged.
Handled ==
    /\ ~Live => Empty
    /\ \A u \in Uris : held[u] # None => held[u].index < logged[held[u].uri]
    /\ \A k \in DOMAIN fan : fan[k].index < logged[fan[k].uri]
    /\ kind = "prefix" => scene = <<>>
    /\ kind = "scene" => \A u \in Uris : \A i \in Indices : times[u][i] = 0

\* A publisher that waits has taken up a list.
Started == \A s \in Subs : \A p \in Waiting(s) : p.lists # 0

Bounded == \A u \in Uris : logged[u] <= MaxEvents

SceneWired ==
    Wired /\ Apart /\ (\A s \in Subs : Once(s)) /\ ConnTypes /\ FanTypes /\ Forwarders /\ Handled /\ Started /\ Bounded

\* The cursors: no position is behind its log, and what the client got is before them.
Cursors ==
    /\ token # None /\ kind = "prefix" => \A u \in Uris : token[u] <= logged[u]
    /\ token # None => \A u \in Uris : \A i \in Indices : times[u][i] > 0 => i < token[u]
    /\ On /\ kind = "prefix" => \A u \in Uris :
          /\ conn.next[u] <= logged[u]
          /\ \A i \in Indices : times[u][i] > 0 => i < conn.next[u]

Replayed ==
    kind = "prefix" /\ conn.phase \in {"replay", "starting", "live"} =>
        /\ \A u \in Uris : conn.cut[u] <= logged[u]
        /\ \A u \in conn.uris : \A i \in Indices :
              conn.start[u] <= i /\ i < conn.cut[u] /\ i < conn.next[u] => times[u][i] > 0
        /\ conn.phase # "replay" => \A u \in conn.uris : conn.next[u] >= conn.cut[u]

\* While the forwarders start, the publishers of what the replay could not know are
\* behind them in the loop's queue, and those of what it could know before them.
Behind ==
    kind = "prefix" /\ conn.phase = "starting" =>
        /\ conn.ahead <= Len(ready)
        /\ \A u \in Uris : conn.next[u] <= conn.went[u] /\ conn.went[u] <= logged[u]
        /\ \A u \in Uris : \A i \in conn.went[u]..(logged[u] - 1) :
              \E k \in DOMAIN ready : k > conn.ahead /\ ready[k] = NewPublisher(u, i)
        /\ \A k \in DOMAIN ready :
              ready[k].lists = 0 /\ ready[k].index < conn.went[ready[k].uri] => k <= conn.ahead

\* What comes to the stream of a forwarder is not older than w, and all of it comes.
NotBefore(s, w) ==
    /\ \A i \in Coming(s) \cup OwnIndices(s) : i >= w
    /\ \A k \in OwnQueued(s) : queue[s][k].index >= w

AllFrom(s, w) ==
    \A i \in w..(logged[sub[s].uri] - 1) : i \in OwnIndices(s) \/ InQueue(s, i) \/ i \in Coming(s)

InFan(u) == {k \in DOMAIN fan : fan[k].via = u /\ fan[k].uri = u}
InHand(u) == held[u] # None /\ held[u].uri = u

\* What the forwarder of u got from its stream is in its hand, in fan_in or with the
\* client, and in one of them only.
HandedAll(u, s) ==
    \A i \in OwnIndices(s) :
        \/ times[u][i] > 0
        \/ \E k \in InFan(u) : fan[k].index = i
        \/ InHand(u) /\ held[u].index = i

HandedOnce(u, s, w) ==
    /\ \A k \in InFan(u) : fan[k].index \in OwnIndices(s) /\ times[u][fan[k].index] = 0
    /\ \A k, l \in InFan(u) : k # l => fan[k].index # fan[l].index
    /\ InHand(u) => /\ held[u].index \in OwnIndices(s) /\ times[u][held[u].index] = 0
                    /\ \A k \in InFan(u) : fan[k].index # held[u].index
    /\ \A i \in Indices : times[u][i] > 0 /\ i >= w => i \in OwnIndices(s)

\* The stream s of the forwarder of u, which runs since there were w events.
Carries(u, s, w) ==
    /\ w <= logged[u]
    /\ HandedAll(u, s)
    /\ conn.mode = "block" => AllFrom(s, w)
    /\ ~SelfLinked(u) => NotBefore(s, w) /\ HandedOnce(u, s, w)

Forwarded ==
    kind = "prefix" /\ Live =>
        /\ \A u \in Uris : held[u] # None => u \in conn.uris
        /\ \A k \in DOMAIN fan : fan[k].via \in conn.uris
        /\ \A u \in conn.uris : Carries(u, Mine(u), conn.went[u])

SceneInv == SceneWired /\ Cursors /\ Replayed /\ Behind /\ Forwarded /\ NoRepeat

-------------------------------------------------------------------------------
\* The steps.

Steady == UNCHANGED <<logged, subscribers, sub, queue, putters, ready, running, got>> /\ UNCHANGED graphVars

\* All of them but two are steps of module Streams that open and close no stream.
StreamStep == [StreamNext]_vars /\ UNCHANGED <<subscribers, sub>>

LEMMA MineIsSub ==
    ASSUME ConnTypes, On, NEW u \in Uris
    PROVE  /\ Mine(u) \in Subs /\ Mine(u)[1] = u /\ Mine(u)[2] = conn.no
           /\ conn \in OnConns
<1>1. conn \in OnConns
  BY DEF ConnTypes, On, OffConns
<1>2. conn.no \in 1..MaxConns
  BY <1>1 DEF OnConns
<1> QED BY <1>1, <1>2, SubsAssumption DEF Mine

LEMMA SceneSteps ==
    ASSUME ConnTypes, [SceneNext]_allVars
    PROVE  StreamStep \/ StartForwarders \/ CloseStream
<1>1. Steady => StreamStep
  BY DEF Steady, StreamStep, vars, streamVars
<1>2. UNCHANGED vars => Steady
  BY DEF Steady, vars, streamVars
<1>3. CASE UNCHANGED allVars
  BY <1>1, <1>2, <1>3 DEF allVars
<1>4. ASSUME NEW u \in Uris, Create(u) \/ PatchNode(u) PROVE StreamStep
  BY <1>1, <1>2, <1>4 DEF Create, PatchNode, Patch, StreamStep, StreamNext
<1>5. CASE LinkNodes
  BY <1>5 DEF LinkNodes, AddEntanglement, StreamStep, StreamNext, streamVars
<1>6. ASSUME NEW mode, NEW resume, OpenStream(mode, resume) PROVE StreamStep
  BY <1>1, <1>2, <1>6 DEF OpenStream
<1>7. CASE RunPublisher \/ PublisherStep
  BY <1>7 DEF RunPublisher, PublisherStep, StreamStep, StreamNext, LoopStep, RunNext, NextList, EnqueueNext, PublishDone
<1>8. CASE SceneStart \/ SceneRow \/ SceneForward \/ ClientReads
  BY <1>1, <1>2, <1>8 DEF SceneStart, SceneRow, SceneForward, ClientReads, NextRow, NextLive, NextFrame
<1>9. ASSUME NEW u \in Uris, Forward(u) \/ FanPut(u) PROVE StreamStep
  <2>1. CASE FanPut(u)
    BY <1>1, <1>2, <2>1 DEF FanPut
  <2>2. CASE Forward(u)
    <3>1. Mine(u) \in Subs
      BY <2>2, MineIsSub DEF Forward, Live, On
    <3>2. Take(Mine(u))
      BY <2>2 DEF Forward
    <3>3. UNCHANGED <<subscribers, sub>>
      BY <3>2 DEF Take
    <3> QED BY <3>1, <3>2, <3>3 DEF StreamStep, StreamNext, ClientStep
  <2> QED BY <1>9, <2>1, <2>2
<1> QED BY <1>3, <1>4, <1>5, <1>6, <1>7, <1>8, <1>9 DEF SceneNext, LoopRuns

LEMMA ReadingFields ==
    ASSUME conn \in OnConns, logged \in Positions
    PROVE  /\ Reading \in OnConns
           /\ Reading.no = conn.no /\ Reading.mode = conn.mode /\ Reading.uris = conn.uris
           /\ Reading.next = conn.next /\ Reading.went = conn.went
           /\ conn.phase = "called" => Reading.phase = "replay" /\ Reading.start = conn.next /\ Reading.cut = logged
           /\ conn.phase # "called" => Reading = conn
BY DEF Reading, OnConns

LEMMA GoLiveFields ==
    ASSUME NEW c \in OnConns, logged \in Positions, Len(ready) \in Nat
    PROVE  /\ GoLive(c) \in OnConns
           /\ GoLive(c).no = c.no /\ GoLive(c).mode = c.mode /\ GoLive(c).uris = c.uris
           /\ GoLive(c).next = c.next /\ GoLive(c).start = c.start /\ GoLive(c).cut = c.cut
           /\ GoLive(c).phase = "starting" /\ GoLive(c).went = logged /\ GoLive(c).ahead = Len(ready)
BY DEF GoLive, OnConns

LEMMA MovedFields ==
    ASSUME NEW c \in OnConns, NEW u \in Uris, NEW d, d = [c EXCEPT !.next[u] = @ + 1]
    PROVE  /\ d \in OnConns
           /\ d.no = c.no /\ d.mode = c.mode /\ d.uris = c.uris /\ d.phase = c.phase
           /\ d.start = c.start /\ d.cut = c.cut /\ d.went = c.went /\ d.ahead = c.ahead
<1>1. c.next \in Positions /\ c.next[u] \in Nat
  BY DEF OnConns, Positions
<1>2. PICK n \in Positions : n = [c.next EXCEPT ![u] = @ + 1]
  <2>1. [c.next EXCEPT ![u] = @ + 1] \in Positions
    BY <1>1 DEF Positions
  <2> QED BY <2>1
<1>3. d = [c EXCEPT !.next = n]
  BY <1>2 DEF OnConns
<1> QED BY <1>1, <1>2, <1>3 DEF OnConns

LEMMA PassedFields ==
    ASSUME conn \in OnConns, NEW item \in FanItems
    PROVE  /\ Passed(item) \in Positions
           /\ \A u \in Uris : \/ u = item.uri /\ Passed(item)[u] = item.index + 1 /\ Passed(item)[u] > conn.next[u]
                              \/ Passed(item)[u] = conn.next[u] /\ (u = item.uri => Passed(item)[u] > item.index)
<1>1. conn.next \in Positions /\ item.uri \in Uris /\ item.index \in Nat
  BY DEF OnConns, FanItems
<1>2. conn.next[item.uri] \in Nat
  BY <1>1 DEF Positions
<1> QED BY <1>1, <1>2 DEF Passed, Positions

\* The other steps of the loop: they leave the prefix stream alone.
Elsewhere ==
    /\ UNCHANGED prefixVars
    /\ \/ UNCHANGED vars \/ AddEntanglement \/ NextList \/ EnqueueNext \/ PublishDone
       \/ \E u \in Uris : Patch(u)

LEMMA SceneCases ==
    ASSUME [SceneNext]_allVars
    PROVE  \/ Elsewhere
           \/ \E u \in Uris : Create(u) \/ Forward(u) \/ FanPut(u)
           \/ \E mode \in scope.modes, resume \in BOOLEAN : OpenStream(mode, resume)
           \/ RunPublisher \/ SceneStart \/ SceneRow \/ StartForwarders \/ SceneForward
           \/ NextRow \/ NextLive \/ NextFrame \/ CloseStream
<1>1. UNCHANGED allVars => Elsewhere
  BY DEF allVars, Elsewhere
<1>2. LinkNodes \/ PublisherStep => Elsewhere
  BY DEF LinkNodes, PublisherStep, Elsewhere
<1>3. \A u \in Uris : PatchNode(u) => Elsewhere
  BY DEF PatchNode, Elsewhere
<1> QED BY <1>1, <1>2, <1>3 DEF SceneNext, LoopRuns, ClientReads

\* What an object's log holds is a position in it.
LEMMA LogPositions == StreamTypes => logged \in Positions /\ Len(ready) \in Nat
BY DEF StreamTypes, Positions

LEMMA ScopeFields ==
    ASSUME ConnTypes
    PROVE  scope.kind \in {"prefix", "scene"} /\ scope.modes \subseteq Modes /\ scope.conns \in 1..MaxConns
BY ScopesAssumption DEF ConnTypes

LEMMA Conn ==
    ASSUME ConnTypes, On
    PROVE  conn \in OnConns
BY DEF ConnTypes, On, OffConns

LEMMA NextRowEffect ==
    ASSUME StreamTypes, ConnTypes, NextRow
    PROVE  /\ running = None /\ scope.kind = "prefix" /\ conn.phase \in {"called", "replay"} /\ conn \in OnConns
           /\ UNCHANGED <<vars, created, scope, held, fan, scene, frame>>
           /\ \/ conn' = [no |-> conn.no, phase |-> "off"] /\ UNCHANGED <<times, token>>
              \/ Unreplayed(Reading) = {} /\ conn' = GoLive(Reading) /\ UNCHANGED <<times, token>>
              \/ \E u \in Uris :
                    /\ u \in Reading.uris /\ Reading.next[u] < Reading.cut[u]
                    /\ conn' = [Reading EXCEPT !.next[u] = @ + 1]
                    /\ Got(u, Reading.next[u])
                    /\ token' = conn'.next
<1>1. conn \in OnConns
  BY Conn DEF NextRow, On
<1>2. Reading \in OnConns
  BY <1>1, ReadingFields, LogPositions
<1>3. PICK c : c = Reading
  OBVIOUS
<1>4. \/ conn' = [no |-> c.no, phase |-> "off"] /\ UNCHANGED <<times, token>>
      \/ Unreplayed(c) = {} /\ conn' = GoLive(c) /\ UNCHANGED <<times, token>>
      \/ \E u \in Unreplayed(c) :
            conn' = [c EXCEPT !.next[u] = @ + 1] /\ Got(u, c.next[u]) /\ token' = conn'.next
  BY <1>3 DEF NextRow
<1>5. c.no = conn.no
  BY <1>1, <1>3, ReadingFields, LogPositions
<1>6. c.uris \subseteq Uris
  BY <1>2, <1>3 DEF OnConns
<1>7. \A u \in Unreplayed(c) : u \in Uris /\ u \in c.uris /\ c.next[u] < c.cut[u]
  BY <1>6 DEF Unreplayed
<1> QED BY <1>1, <1>3, <1>4, <1>5, <1>7 DEF NextRow, kind

LEMMA ConnTypesNext ==
    ASSUME StreamTypes, ConnTypes, FanTypes, [SceneNext]_allVars
    PROVE  ConnTypes'
<1>0. logged \in Positions /\ Len(ready) \in Nat
  BY LogPositions
<1>1. CASE Elsewhere
  BY <1>1 DEF Elsewhere, prefixVars, ConnTypes
<1>2. ASSUME NEW u \in Uris, Create(u) \/ Forward(u) \/ FanPut(u) PROVE ConnTypes'
  BY <1>2 DEF Create, Forward, FanPut, ConnTypes
<1>3. ASSUME NEW mode \in scope.modes, NEW resume \in BOOLEAN, OpenStream(mode, resume) PROVE ConnTypes'
  <2>1. PICK n : n = IF resume THEN token ELSE IF kind = "scene" THEN logged ELSE Nothing
    OBVIOUS
  <2>2. n \in Positions /\ Nothing \in Positions
    BY <1>0, <1>3, <2>1 DEF OpenStream, ConnTypes, Nothing, Positions
  <2>3. conn.no \in 0..MaxConns /\ conn.no < scope.conns
    BY <1>3 DEF OpenStream, ConnTypes, OnConns, OffConns
  <2>4. conn.no + 1 \in 1..MaxConns /\ mode \in Modes
    BY <2>3, ScopeFields, SubsAssumption
  <2>5. conn' = [no |-> conn.no + 1, phase |-> "called", mode |-> mode, uris |-> created, next |-> n,
                 start |-> Nothing, cut |-> Nothing, went |-> Nothing, ahead |-> Len(ready)]
    BY <1>3, <2>1 DEF OpenStream
  <2>6. conn' \in OnConns
    BY <1>0, <2>2, <2>4, <2>5 DEF OnConns, ConnTypes
  <2> QED BY <1>3, <2>6 DEF OpenStream, ConnTypes
<1>4. CASE RunPublisher
  <2>1. CASE Queued
    <3>1. conn \in OnConns /\ conn.ahead > 0 /\ conn' = [conn EXCEPT !.ahead = @ - 1]
      BY <1>4, <2>1, Conn DEF RunPublisher, Queued, On
    <3>2. conn' \in OnConns
      BY <3>1 DEF OnConns
    <3> QED BY <1>4, <3>2 DEF RunPublisher, ConnTypes
  <2>2. CASE ~Queued
    BY <1>4, <2>2 DEF RunPublisher, ConnTypes
  <2> QED BY <2>1, <2>2
<1>5. CASE SceneStart
  <2>1. conn \in OnConns
    BY <1>5, Conn DEF SceneStart, On
  <2>2. Reading \in OnConns
    BY <1>0, <2>1, ReadingFields
  <2>3. GoLive(Reading) \in OnConns
    BY <1>0, <2>2, GoLiveFields
  <2> QED BY <1>5, <2>2, <2>3 DEF SceneStart, ConnTypes
<1>6. CASE SceneRow
  <2>1. conn \in OnConns
    BY <1>6, Conn DEF SceneRow, On
  <2>2. PICK u \in Unreplayed(conn) :
            \/ conn' = GoLive([conn EXCEPT !.next[u] = @ + 1])
            \/ conn' = [conn EXCEPT !.next[u] = @ + 1]
    BY <1>6 DEF SceneRow
  <2>3. u \in Uris
    BY <2>1, <2>2 DEF Unreplayed, OnConns
  <2>4. PICK d : d = [conn EXCEPT !.next[u] = @ + 1]
    OBVIOUS
  <2>5. d \in OnConns
    BY <2>1, <2>3, <2>4, MovedFields
  <2>6. GoLive(d) \in OnConns
    BY <1>0, <2>5, GoLiveFields
  <2> QED BY <1>6, <2>2, <2>4, <2>5, <2>6 DEF SceneRow, ConnTypes
<1>7. CASE StartForwarders
  <2>1. conn \in OnConns /\ conn' = [conn EXCEPT !.phase = "live"]
    BY <1>7, Conn DEF StartForwarders, On
  <2>2. conn' \in OnConns
    BY <2>1 DEF OnConns
  <2> QED BY <1>7, <2>2 DEF StartForwarders, ConnTypes
<1>8. CASE SceneForward \/ NextLive
  <2>1. conn \in OnConns /\ fan # <<>>
    BY <1>8, Conn DEF SceneForward, NextLive, Live, On
  <2>2. Head(fan) \in FanItems
    BY <2>1, TailElements DEF FanTypes
  <2>3. Passed(Head(fan)) \in Positions
    BY <2>1, <2>2, PassedFields
  <2>4. conn' = [conn EXCEPT !.next = Passed(Head(fan))] /\ (token' = token \/ token' = Passed(Head(fan)))
    BY <1>8 DEF SceneForward, NextLive
  <2>5. conn' \in OnConns
    BY <2>1, <2>3, <2>4 DEF OnConns
  <2> QED BY <1>8, <2>3, <2>4, <2>5 DEF SceneForward, NextLive, ConnTypes
<1>9. CASE NextRow
  <2>1. conn \in OnConns /\ UNCHANGED <<created, scope>>
    BY <1>9, NextRowEffect
  <2>2. Reading \in OnConns
    BY <1>0, <2>1, ReadingFields
  <2>3. GoLive(Reading) \in OnConns
    BY <1>0, <2>2, GoLiveFields
  <2>4. CASE conn' = [no |-> conn.no, phase |-> "off"] /\ UNCHANGED <<times, token>>
    <3>1. conn' \in OffConns
      BY <2>1, <2>4 DEF OnConns, OffConns
    <3> QED BY <2>1, <2>4, <3>1 DEF ConnTypes
  <2>5. CASE conn' = GoLive(Reading) /\ UNCHANGED <<times, token>>
    BY <2>1, <2>3, <2>5 DEF ConnTypes
  <2>6. ASSUME NEW u \in Uris, conn' = [Reading EXCEPT !.next[u] = @ + 1], token' = conn'.next
        PROVE  ConnTypes'
    <3>1. conn' \in OnConns
      BY <2>2, <2>6, MovedFields
    <3>2. token' \in Positions
      BY <2>6, <3>1 DEF OnConns
    <3> QED BY <2>1, <3>1, <3>2 DEF ConnTypes
  <2> QED BY <1>9, <2>4, <2>5, <2>6, NextRowEffect
<1>10. CASE NextFrame
  <2>1. token' \in Positions
    BY <1>10, TailElements DEF NextFrame, FanTypes
  <2> QED BY <1>10, <2>1 DEF NextFrame, ConnTypes
<1>11. CASE CloseStream
  <2>1. conn' \in OffConns
    BY <1>11 DEF CloseStream, ConnTypes, OnConns, OffConns
  <2> QED BY <1>11, <2>1 DEF CloseStream, ConnTypes
<1> QED BY <1>1, <1>2, <1>3, <1>4, <1>5, <1>6, <1>7, <1>8, <1>9, <1>10, <1>11, SceneCases

LEMMA ForwardEffect ==
    ASSUME StreamTypes, Within, ConnTypes, Forwarders, NEW u \in Uris, Forward(u)
    PROVE  /\ conn \in OnConns /\ u \in conn.uris /\ running = None /\ held[u] = None
           /\ sub[Mine(u)].phase = "open" /\ sub[Mine(u)].uri = u /\ Gets(Mine(u))
           /\ \A s \in Subs : s # Mine(u) => got'[s] = got[s]
           /\ \E e \in Payloads : /\ e.index < logged[e.uri]
                                  /\ got'[Mine(u)] = Append(got[Mine(u)], e)
                                  /\ held' = [held EXCEPT ![u] = e]
           /\ UNCHANGED <<logged, subscribers, sub, graphVars, created, scope, conn, fan, scene, times, frame, token>>
<1>1. /\ conn \in OnConns /\ On /\ conn.phase = "live" /\ u \in conn.uris /\ held[u] = None /\ Take(Mine(u))
      /\ held' = [held EXCEPT ![u] = Last(got'[Mine(u)])]
      /\ UNCHANGED <<created, scope, conn, fan, scene, times, frame, token>>
  BY Conn DEF Forward, Live, On
<1>2. PICK s \in Subs : s = Mine(u)
  BY <1>1, MineIsSub
<1>3. s[1] = u /\ s[2] = conn.no
  BY <1>1, <1>2, MineIsSub
<1>4. sub[s].phase = "open" /\ sub[s].uri = u /\ sub[s].cutoff = 0
  BY <1>1, <1>3 DEF Forwarders, Live
<1>5. Take(s)
  BY <1>1, <1>2
<1>6. PICK gets \in 1..Len(queue[s]), woken \in 0..Len(putters[s]) :
          /\ TakenUpTo(s, gets, woken)
          /\ \A t \in Subs : queue'[t] = IF t = s THEN SubSeq(queue[s], gets + 1, Len(queue[s])) ELSE queue[t]
  BY <1>5, TakeTypes
<1>7. /\ sub[s].next >= sub[s].cutoff /\ running = None
      /\ UNCHANGED <<graphVars, logged, subscribers, sub, running>>
  BY <1>5, TakeTypes DEF Take
<1>8. queue[s] \in Seq(Payloads) /\ Len(queue[s]) \in Nat /\ got[s] \in Seq(Payloads) /\ got \in [Subs -> Seq(Payloads)]
  BY DEF StreamTypes
<1>9. \A k \in 1..Len(queue[s]) : queue[s][k] \in Payloads /\ Passes(s, queue[s][k])
  <2>1. ASSUME NEW k \in 1..Len(queue[s]) PROVE queue[s][k] \in Payloads /\ Passes(s, queue[s][k])
    <3>1. queue[s][k] \in Payloads
      BY <1>8
    <3>2. queue[s][k].index \in Nat
      BY <3>1 DEF Payloads
    <3> QED BY <1>4, <3>1, <3>2 DEF Passes
  <2> QED BY <2>1
<1>10. gets = 1
  <2>1. \A k \in 1..(gets - 1) : ~Passes(s, queue[s][k])
    BY <1>6 DEF TakenUpTo
  <2>2. gets # 1 => 1 \in 1..(gets - 1) /\ 1 \in 1..Len(queue[s])
    BY <1>8
  <2> QED BY <1>9, <2>1, <2>2
<1>11. PICK e \in Payloads : e = queue[s][1]
  BY <1>9, <1>10
<1>12. got' = [got EXCEPT ![s] = Append(@, e)]
  <2>1. Passes(s, queue[s][1])
    BY <1>9, <1>10
  <2> QED BY <1>6, <1>10, <1>11, <2>1 DEF TakenUpTo
<1>13. got'[s] = Append(got[s], e) /\ \A t \in Subs : t # s => got'[t] = got[t]
  BY <1>8, <1>12
<1>14. Last(got'[s]) = e
  BY <1>8, <1>13 DEF Last
<1>15. e.index < logged[e.uri]
  <2>1. 1 \in DOMAIN queue[s]
    BY <1>8, <1>10
  <2> QED BY <1>11, <2>1 DEF Within, Logged
<1>16. Gets(s)
  <2>1. \A k \in 1..(gets - 1) : ~Passes(s, queue[s][k])
    BY <1>6 DEF TakenUpTo
  <2>2. Passes(s, queue[s][gets]) /\ got'[s] = Append(got[s], queue[s][gets])
    BY <1>9, <1>10, <1>11, <1>13
  <2>3. queue'[s] = SubSeq(queue[s], gets + 1, Len(queue[s]))
    BY <1>6
  <2>4. Coming(s)' = Coming(s)
    <3>1. Carrying' = Carrying
      BY <1>5, TakeCarries
    <3>2. sub'[s].uri = sub[s].uri
      BY <1>7
    <3> QED BY <3>1, <3>2, SameComing
  <2> QED BY <1>4, <1>7, <2>1, <2>2, <2>3, <2>4 DEF Gets
<1> QED BY <1>1, <1>2, <1>4, <1>7, <1>13, <1>14, <1>15, <1>16

LEMMA GotTimes ==
    ASSUME times \in [Uris -> [Indices -> Nat]], NEW u \in Uris, NEW i \in Indices, Got(u, i)
    PROVE  /\ times' \in [Uris -> [Indices -> Nat]]
           /\ \A v \in Uris : \A j \in Indices :
                 times'[v][j] = IF v = u /\ j = i THEN times[u][i] + 1 ELSE times[v][j]
<1>1. times[u] \in [Indices -> Nat] /\ times[u][i] \in Nat
  OBVIOUS
<1>2. PICK t \in [Indices -> Nat] : t = [times[u] EXCEPT ![i] = @ + 1]
  <2>1. [times[u] EXCEPT ![i] = @ + 1] \in [Indices -> Nat]
    BY <1>1
  <2> QED BY <2>1
<1>3. times' = [times EXCEPT ![u] = t]
  BY <1>1, <1>2 DEF Got
<1>4. \A v \in Uris : times'[v] = IF v = u THEN t ELSE times[v]
  BY <1>3
<1>5. \A j \in Indices : t[j] = IF j = i THEN times[u][i] + 1 ELSE times[u][j]
  BY <1>1, <1>2
<1>6. times' \in [Uris -> [Indices -> Nat]]
  BY <1>3
<1> QED BY <1>4, <1>5, <1>6

LEMMA ReplayedRow ==
    ASSUME StreamTypes, ConnTypes, Bounded, Replayed, kind = "prefix", conn \in OnConns,
           conn.phase \in {"called", "replay"},
           NEW u \in Uris, Reading.next[u] < Reading.cut[u]
    PROVE  Reading.next[u] \in Indices /\ Reading.next[u] < logged[u]
<1>1. logged \in Positions
  BY LogPositions
<1>2. Reading \in OnConns
  BY <1>1, ReadingFields
<1>3. Reading.next[u] \in Nat /\ Reading.cut[u] \in Nat /\ logged[u] \in Nat
  BY <1>1, <1>2 DEF OnConns, Positions
<1>4. Reading.cut[u] <= logged[u]
  BY <1>1, <1>3, ReadingFields DEF Replayed
<1>5. logged[u] <= MaxEvents
  BY DEF Bounded
<1> QED BY <1>3, <1>4, <1>5, StreamsBounds DEF Indices

LEMMA LoggedIndices ==
    ASSUME StreamTypes, Bounded, NEW u \in Uris, NEW i \in Nat, i < logged[u]
    PROVE  i \in Indices
BY StreamsBounds DEF StreamTypes, Bounded, Indices

LEMMA FanHead ==
    ASSUME fan \in Seq(FanItems), fan # <<>>
    PROVE  /\ Head(fan) \in FanItems /\ Head(fan) = fan[1] /\ Tail(fan) \in Seq(FanItems)
           /\ 1 \in DOMAIN fan /\ Len(fan) \in Nat /\ DOMAIN Tail(fan) = 1..(Len(fan) - 1)
           /\ \A k \in DOMAIN Tail(fan) : k + 1 \in DOMAIN fan /\ k + 1 # 1 /\ Tail(fan)[k] = fan[k + 1]
OBVIOUS

LEMMA FanAppend ==
    ASSUME fan \in Seq(FanItems), NEW item \in FanItems
    PROVE  /\ Append(fan, item) \in Seq(FanItems)
           /\ DOMAIN Append(fan, item) = DOMAIN fan \cup {Len(fan) + 1} /\ Len(fan) + 1 \notin DOMAIN fan
           /\ \A k \in DOMAIN fan : Append(fan, item)[k] = fan[k]
           /\ Append(fan, item)[Len(fan) + 1] = item
OBVIOUS

\* What a forwarder puts into fan_in is what it held.
LEMMA FanPutEffect ==
    ASSUME FanTypes, NEW u \in Uris, FanPut(u)
    PROVE  /\ conn.phase = "live" /\ held[u] \in Payloads /\ held[u] # None
           /\ held' \in [Uris -> Payloads \cup {None}]
           /\ \A v \in Uris : held'[v] = IF v = u THEN None ELSE held[v]
           /\ \E item \in FanItems :
                 /\ item.via = u /\ item.uri = held[u].uri /\ item.index = held[u].index
                 /\ fan' = Append(fan, item)
           /\ UNCHANGED <<vars, created, scope, conn, scene, times, frame, token>>
<1>1. held[u] # None /\ held[u] \in Payloads
  BY DEF FanPut, FanTypes
<1>2. PICK item \in FanItems : item = [via |-> u, uri |-> held[u].uri, index |-> held[u].index]
  <2>1. [via |-> u, uri |-> held[u].uri, index |-> held[u].index] \in FanItems
    BY <1>1 DEF Payloads, FanItems
  <2> QED BY <2>1
<1>3. item.via = u /\ item.uri = held[u].uri /\ item.index = held[u].index
  BY <1>2
<1>4. fan' = Append(fan, item)
  BY <1>2 DEF FanPut
<1>5. held' = [held EXCEPT ![u] = None]
  BY DEF FanPut
<1> QED BY <1>1, <1>3, <1>4, <1>5 DEF FanPut, FanTypes, Live

LEMMA FanTypesNext ==
    ASSUME Wired, ConnTypes, FanTypes, Forwarders, Handled, Bounded, Replayed, [SceneNext]_allVars
    PROVE  FanTypes'
<1>0. StreamTypes /\ Within
  BY DEF Wired
<1>1. CASE Elsewhere \/ RunPublisher \/ StartForwarders \/ SceneStart
  BY <1>1 DEF Elsewhere, prefixVars, RunPublisher, StartForwarders, SceneStart, FanTypes
<1>2. ASSUME NEW u \in Uris, Create(u) PROVE FanTypes'
  BY <1>2 DEF Create, FanTypes
<1>3. ASSUME NEW u \in Uris, Forward(u) PROVE FanTypes'
  <2>1. PICK e \in Payloads : held' = [held EXCEPT ![u] = e]
    BY <1>0, <1>3, ForwardEffect
  <2>2. UNCHANGED <<fan, scene, times>>
    BY <1>3 DEF Forward
  <2> QED BY <2>1, <2>2 DEF FanTypes
<1>4. ASSUME NEW u \in Uris, FanPut(u) PROVE FanTypes'
  <2>1. /\ held' \in [Uris -> Payloads \cup {None}] /\ UNCHANGED <<scene, times>>
        /\ \E item \in FanItems : fan' = Append(fan, item)
    BY <1>4, FanPutEffect
  <2>2. fan' \in Seq(FanItems)
    BY <2>1, FanAppend DEF FanTypes
  <2> QED BY <2>1, <2>2 DEF FanTypes
<1>5. ASSUME NEW mode, NEW resume, OpenStream(mode, resume) PROVE FanTypes'
  <2>1. [u \in Uris |-> [i \in 0..(MaxEvents - 1) |-> 0]] \in [Uris -> [Indices -> Nat]]
    BY DEF Indices
  <2> QED BY <1>5, <2>1 DEF OpenStream, FanTypes
<1>6. CASE SceneRow
  <2>1. conn \in OnConns /\ UNCHANGED <<held, fan, times>>
    BY <1>6, Conn DEF SceneRow, On
  <2>2. PICK u \in Unreplayed(conn) : scene' = Append(scene, [conn EXCEPT !.next[u] = @ + 1].next)
    BY <1>6 DEF SceneRow
  <2>3. u \in Uris
    BY <2>1, <2>2 DEF Unreplayed, OnConns
  <2>4. PICK d \in OnConns : d = [conn EXCEPT !.next[u] = @ + 1]
    BY <2>1, <2>3, MovedFields
  <2>5. d.next \in Positions /\ scene' = Append(scene, d.next)
    BY <2>2, <2>4 DEF OnConns
  <2>6. scene' \in Seq(Positions)
    BY <2>5 DEF FanTypes
  <2> QED BY <2>1, <2>6 DEF FanTypes
<1>7. CASE SceneForward \/ NextLive
  <2>1. conn \in OnConns /\ fan \in Seq(FanItems) /\ fan # <<>> /\ fan' = Tail(fan) /\ UNCHANGED held
    BY <1>7, Conn DEF SceneForward, NextLive, Live, On, FanTypes
  <2>2. PICK item \in FanItems : item = Head(fan)
    BY <2>1, FanHead
  <2>3. fan' \in Seq(FanItems) /\ Passed(item) \in Positions
    BY <2>1, <2>2, FanHead, PassedFields
  <2>4. scene' \in Seq(Positions)
    <3>1. PICK p \in Positions : p = Passed(item)
      BY <2>3
    <3>2. scene' = scene \/ scene' = Append(scene, p)
      BY <1>7, <2>2, <3>1 DEF SceneForward, NextLive
    <3> QED BY <3>2 DEF FanTypes
  <2>5. item.uri \in Uris /\ item.index \in Nat /\ item.index < logged[item.uri]
    BY <2>1, <2>2, FanHead DEF Handled, FanItems
  <2>6. item.index \in Indices
    BY <1>0, <2>5, LoggedIndices
  <2>7. UNCHANGED times \/ Got(item.uri, item.index)
    BY <1>7, <2>2 DEF SceneForward, NextLive
  <2>8. times' \in [Uris -> [Indices -> Nat]]
    BY <2>5, <2>6, <2>7, GotTimes DEF FanTypes
  <2> QED BY <2>1, <2>3, <2>4, <2>8 DEF FanTypes
<1>8. CASE NextRow
  <2>1. /\ conn \in OnConns /\ kind = "prefix" /\ conn.phase \in {"called", "replay"}
        /\ UNCHANGED <<held, fan, scene>>
        /\ \/ UNCHANGED times
           \/ \E u \in Uris : Reading.next[u] < Reading.cut[u] /\ Got(u, Reading.next[u])
    BY <1>0, <1>8, NextRowEffect DEF kind
  <2>2. times' \in [Uris -> [Indices -> Nat]]
    BY <1>0, <2>1, ReplayedRow, GotTimes DEF FanTypes
  <2> QED BY <2>1, <2>2 DEF FanTypes
<1>9. CASE NextFrame
  <2>1. Tail(scene) \in Seq(Positions)
    BY <1>9, TailElements DEF NextFrame, FanTypes
  <2> QED BY <1>9, <2>1 DEF NextFrame, FanTypes
<1>10. CASE CloseStream
  BY <1>10 DEF CloseStream, FanTypes
<1> QED BY <1>1, <1>2, <1>3, <1>4, <1>5, <1>6, <1>7, <1>8, <1>9, <1>10, SceneCases

LEMMA BoundedNext ==
    ASSUME StreamTypes, Bounded, Started, Carried, ConnTypes, [SceneNext]_allVars
    PROVE  Bounded' /\ Started'
<1>1. CASE StartForwarders \/ CloseStream
  BY <1>1 DEF StartForwarders, CloseStream, Bounded, Started, Waiting
<1>2. CASE StreamStep
  <2>1. CASE (Entangle \/ UNCHANGED graphVars) /\ UNCHANGED streamVars
    BY <2>1 DEF streamVars, Bounded, Started, Waiting
  <2>2. ASSUME NEW u \in Uris, Patch(u) PROVE Bounded' /\ Started'
    <3>1. /\ logged[u] < MaxEvents /\ putters' = putters
          /\ \A v \in Uris : logged'[v] = IF v = u THEN logged[v] + 1 ELSE logged[v]
      BY <2>2, PatchTypes DEF Patch
    <3>2. logged[u] + 1 <= MaxEvents
      BY <3>1, StreamsBounds DEF StreamTypes
    <3> QED BY <3>1, <3>2 DEF Bounded, Started, Waiting
  <2>3. CASE LoopStep
    <3>1. logged' = logged
      BY <2>3, LoopKeeps
    <3>2. Started'
      <4>1. CASE RunNext \/ NextList \/ PublishDone
        BY <4>1 DEF RunNext, NextList, PublishDone, Started, Waiting
      <4>2. CASE EnqueueNext
        <5>1. PICK h \in Subs : HandsTo(h) \/ WaitsFor(h)
          BY <4>2, EnqueueEffect
        <5>2. running \in Publishers /\ running # None /\ running.todo # <<>> /\ ready' = ready
          BY <4>2, EnqueueEffect
        <5>3. running \in Carrying
          BY <5>2 DEF Carrying
        <5>4. running.lists # 0
          BY <5>2, <5>3 DEF Carried, Fits
        <5>5. CASE HandsTo(h)
          BY <5>5 DEF HandsTo, Started, Waiting
        <5>6. CASE WaitsFor(h)
          <6>1. \A s \in Subs : Waiting(s)' = IF s = h THEN Waiting(s) \cup {running} ELSE Waiting(s)
            BY <5>2, <5>6, WaitsCarries
          <6> QED BY <5>4, <6>1 DEF Started
        <5> QED BY <5>1, <5>5, <5>6
      <4> QED BY <2>3, <4>1, <4>2 DEF LoopStep
    <3> QED BY <3>1, <3>2 DEF Bounded
  <2>4. ASSUME NEW s \in Subs, Take(s) PROVE Bounded' /\ Started'
    <3>1. logged' = logged /\ Waiting(s)' \subseteq Waiting(s) /\ \A t \in Subs : t # s => Waiting(t)' = Waiting(t)
      BY <2>4, TakeTypes, TakeCarries DEF Waiting
    <3> QED BY <3>1 DEF Bounded, Started
  <2>5. ASSUME NEW s \in Subs, Changes(s) PROVE Bounded' /\ Started'
    BY <2>5, ChangesEffect DEF Bounded, Started, Waiting
  <2> QED BY <1>2, <2>1, <2>2, <2>3, <2>4, <2>5, StepKinds DEF StreamStep
<1> QED BY <1>1, <1>2, SceneSteps

-------------------------------------------------------------------------------
\* The forwarders start and are cancelled: the invariants of the streams.

LEMMA StartEffect ==
    ASSUME StreamTypes, ConnTypes, Forwarders, StartForwarders
    PROVE  /\ conn \in OnConns /\ conn.phase = "starting" /\ conn.ahead = 0 /\ running = None
           /\ \A u \in Uris : subscribers'[u] = IF u \in conn.uris THEN Append(subscribers[u], Mine(u))
                                                                   ELSE subscribers[u]
           /\ \A s \in Subs : sub'[s] = IF s[2] = conn.no /\ s[1] \in conn.uris
                                          THEN Opened(s[1], conn.mode, logged[s[1]], 0) ELSE sub[s]
           /\ \A s \in Subs : s[2] = conn.no => sub[s].phase = "new"
           /\ conn' = [conn EXCEPT !.phase = "live"] /\ Live'
           /\ conn'.no = conn.no /\ conn'.uris = conn.uris /\ conn'.mode = conn.mode
           /\ conn'.next = conn.next /\ conn'.start = conn.start /\ conn'.cut = conn.cut /\ conn'.went = conn.went
           /\ StreamTypes' /\ Grows
           /\ UNCHANGED <<graphVars, logged, queue, putters, ready, running, got>>
           /\ UNCHANGED <<created, scope, held, fan, scene, times, frame, token>>
<1>1. conn \in OnConns /\ On
  BY Conn DEF StartForwarders, On
<1>2. /\ conn' = [conn EXCEPT !.phase = "live"] /\ conn.phase = "starting" /\ conn.ahead = 0 /\ running = None
      /\ UNCHANGED <<graphVars, logged, queue, putters, ready, running, got>>
      /\ UNCHANGED <<created, scope, held, fan, scene, times, frame, token>>
  BY DEF StartForwarders
<1>3. /\ conn'.phase = "live" /\ conn'.no = conn.no /\ conn'.uris = conn.uris /\ conn'.mode = conn.mode
      /\ conn'.next = conn.next /\ conn'.start = conn.start /\ conn'.cut = conn.cut /\ conn'.went = conn.went
  BY <1>1, <1>2 DEF OnConns
<1>4. \A s \in Subs : s[2] = conn.no => sub[s].phase = "new"
  BY <1>2 DEF Forwarders
<1>5. \A u \in Uris : subscribers'[u] = IF u \in conn.uris THEN Append(subscribers[u], Mine(u))
                                                           ELSE subscribers[u]
  BY DEF StartForwarders
<1>6. \A s \in Subs : sub'[s] = IF s[2] = conn.no /\ s[1] \in conn.uris
                                  THEN Opened(s[1], conn.mode, logged[s[1]], 0) ELSE sub[s]
  BY DEF StartForwarders, Opened
<1>7. ASSUME NEW s \in Subs, s[2] = conn.no, s[1] \in conn.uris
      PROVE  Opened(s[1], conn.mode, logged[s[1]], 0) \in StreamStates
  <2>1. s[1] \in Uris /\ conn.mode \in Modes
    BY <1>1, <1>7 DEF OnConns
  <2>2. logged[s[1]] \in Nat
    BY <2>1 DEF StreamTypes
  <2> QED BY <2>1, <2>2 DEF Opened, StreamStates
<1>8. subscribers' \in [Uris -> Seq(Subs)]
  <2>1. \A u \in Uris : Append(subscribers[u], Mine(u)) \in Seq(Subs) /\ subscribers[u] \in Seq(Subs)
    BY <1>1, MineIsSub DEF StreamTypes
  <2> QED BY <2>1 DEF StartForwarders
<1>9. sub' \in [Subs -> StreamStates]
  <2>1. \A s \in Subs : (IF s[2] = conn.no /\ s[1] \in conn.uris
                           THEN Opened(s[1], conn.mode, logged[s[1]], 0) ELSE sub[s]) \in StreamStates
    BY <1>7 DEF StreamTypes
  <2>2. sub' = [s \in Subs |-> IF s[2] = conn.no /\ s[1] \in conn.uris
                           THEN Opened(s[1], conn.mode, logged[s[1]], 0) ELSE sub[s]]
    BY DEF StartForwarders, Opened
  <2> QED BY <2>1, <2>2
<1>10. StreamTypes'
  BY <1>2, <1>8, <1>9 DEF StreamTypes, GraphTypeOK, graphVars
<1>11. Grows
  <2>1. \A u \in Uris : logged[u] <= logged'[u] /\ Targets(u) \subseteq Targets(u)'
    BY <1>2 DEF StreamTypes, Targets, graphVars
  <2>2. \A s \in Subs : sub[s].phase # "new" => sub'[s] = sub[s]
    BY <1>4, <1>6
  <2> QED BY <2>1, <2>2 DEF Grows
<1> QED BY <1>1, <1>2, <1>3, <1>4, <1>5, <1>6, <1>10, <1>11 DEF Live

LEMMA CloseEffect ==
    ASSUME StreamTypes, ConnTypes, Forwarders, CloseStream
    PROVE  /\ conn \in OnConns /\ conn' = [no |-> conn.no, phase |-> "off"]
           /\ \A u \in Uris : subscribers'[u] = RemoveFirst(subscribers[u], Mine(u))
           /\ \A s \in Subs :
                 /\ sub[s].phase = "open" => sub'[s].phase = "closed" /\ got'[s] = <<>>
                 /\ sub[s].phase # "open" => sub'[s] = sub[s] /\ got'[s] = got[s]
           /\ StreamTypes' /\ Grows
           /\ UNCHANGED <<graphVars, logged, queue, putters, ready, running>>
           /\ Empty' /\ scene' = <<>>
           /\ UNCHANGED <<created, scope, times, frame, token>>
<1>1. conn \in OnConns
  BY Conn DEF CloseStream, On
<1>2. PICK mine \in SUBSET Subs :
          /\ mine = {s \in Subs : s[2] = conn.no /\ Open(s)}
          /\ subscribers' = [u \in Uris |-> RemoveFirst(subscribers[u], Mine(u))]
          /\ sub' = [s \in Subs |-> IF s \in mine THEN [sub[s] EXCEPT !.phase = "closed"] ELSE sub[s]]
          /\ got' = [s \in Subs |-> IF s \in mine THEN <<>> ELSE got[s]]
  BY DEF CloseStream
<1>3. \A s \in Subs : s \in mine <=> sub[s].phase = "open"
  BY <1>2 DEF Forwarders, Open
<1>4. /\ conn' = [no |-> conn.no, phase |-> "off"]
      /\ held' = [u \in Uris |-> None] /\ fan' = <<>> /\ scene' = <<>>
      /\ UNCHANGED <<graphVars, logged, queue, putters, ready, running>>
      /\ UNCHANGED <<created, scope, times, frame, token>>
  BY DEF CloseStream
<1>5. ASSUME NEW s \in Subs, sub[s].phase = "open"
      PROVE  /\ [sub[s] EXCEPT !.phase = "closed"] \in StreamStates
             /\ sub'[s].phase = "closed" /\ sub'[s].uri = sub[s].uri /\ sub'[s].mode = sub[s].mode
  <2>1. sub[s] \in OpenStates
    BY <1>5, PhasesOfStreams DEF StreamTypes, OpenStates
  <2>2. PICK x \in StreamStates : x = [sub[s] EXCEPT !.phase = "closed"]
    <3>1. [sub[s] EXCEPT !.phase = "closed"] \in OpenStates
      BY <2>1 DEF OpenStates
    <3> QED BY <3>1 DEF OpenStates, StreamStates
  <2>3. x.phase = "closed" /\ x.uri = sub[s].uri /\ x.mode = sub[s].mode
    BY <2>1, <2>2 DEF OpenStates
  <2> QED BY <1>2, <1>3, <1>5, <2>2, <2>3
<1>6. \A s \in Subs : sub[s].phase # "open" => sub'[s] = sub[s] /\ got'[s] = got[s]
  BY <1>2, <1>3
<1>7. \A s \in Subs : sub[s].phase = "open" => got'[s] = <<>>
  BY <1>2, <1>3
<1>8. subscribers' \in [Uris -> Seq(Subs)]
  BY <1>2, RemovedElements DEF StreamTypes
<1>9. sub' \in [Subs -> StreamStates]
  BY <1>2, <1>3, <1>5 DEF StreamTypes
<1>10. got' \in [Subs -> Seq(Payloads)]
  BY <1>2 DEF StreamTypes
<1>11. StreamTypes'
  BY <1>4, <1>8, <1>9, <1>10 DEF StreamTypes, GraphTypeOK, graphVars
<1>12. Grows
  <2>1. \A u \in Uris : logged[u] <= logged'[u] /\ Targets(u) \subseteq Targets(u)'
    BY <1>4 DEF StreamTypes, Targets, graphVars
  <2> QED BY <1>5, <1>6, <2>1 DEF Grows
<1> QED BY <1>1, <1>2, <1>4, <1>5, <1>6, <1>7, <1>11, <1>12 DEF Empty

LEMMA OpenedFields ==
    ASSUME NEW u, NEW mode, NEW start, NEW cutoff
    PROVE  /\ Opened(u, mode, start, cutoff).phase = "open" /\ Opened(u, mode, start, cutoff).uri = u
           /\ Opened(u, mode, start, cutoff).mode = mode /\ Opened(u, mode, start, cutoff).start = start
           /\ Opened(u, mode, start, cutoff).next = start /\ Opened(u, mode, start, cutoff).cutoff = cutoff
BY DEF Opened

\* Neither changes what the publishers carry.
LEMMA SameCarried ==
    ASSUME StreamTypes, StreamTypes', Grows, Carried, Carrying' = Carrying
    PROVE  Carried'
<1>1. Carrying \subseteq Publishers
  BY CarryingParts
<1> QED BY <1>1, FitsStill DEF Carried

LEMMA StartWired ==
    ASSUME Wired, ConnTypes, Forwarders, StartForwarders
    PROVE  Wired'
<1>0. StreamTypes /\ Registered /\ Quiet /\ Within /\ Carried
  BY DEF Wired
<1>1. /\ conn \in OnConns /\ StreamTypes' /\ Grows /\ On
      /\ \A u \in Uris : subscribers'[u] = IF u \in conn.uris THEN Append(subscribers[u], Mine(u))
                                                              ELSE subscribers[u]
      /\ \A s \in Subs : sub'[s] = IF s[2] = conn.no /\ s[1] \in conn.uris
                                     THEN Opened(s[1], conn.mode, logged[s[1]], 0) ELSE sub[s]
      /\ \A s \in Subs : s[2] = conn.no => sub[s].phase = "new"
      /\ UNCHANGED <<graphVars, logged, queue, putters, ready, running, got>>
  BY <1>0, StartEffect DEF On
<1>2. Registered'
  <2>1. ASSUME NEW u \in Uris
        PROVE  /\ Distinct(subscribers'[u])
               /\ \A s \in ToSet(subscribers'[u]) : sub'[s].phase # "new" /\ sub'[s].uri = u
    <3>1. subscribers[u] \in Seq(Subs) /\ ToSet(subscribers[u]) \subseteq Subs
      BY <1>0 DEF StreamTypes, ToSet
    <3>2. PICK n \in Subs : n = Mine(u) /\ n[1] = u /\ n[2] = conn.no
      BY <1>0, <1>1, MineIsSub DEF Wired
    <3>3. n \notin ToSet(subscribers[u])
      BY <1>0, <1>1, <3>2 DEF Registered
    <3>4. \A s \in ToSet(subscribers[u]) : sub'[s].phase # "new" /\ sub'[s].uri = u
      BY <1>0, <1>1, <3>1 DEF Registered
    <3>5. CASE u \in conn.uris
      <4>1. /\ ToSet(Append(subscribers[u], n)) = ToSet(subscribers[u]) \cup {n}
            /\ Distinct(Append(subscribers[u], n))
        BY <1>0, <3>1, <3>2, <3>3, AppendedElements DEF Registered
      <4>2. sub'[n].phase = "open" /\ sub'[n].uri = u
        BY <1>1, <3>2, <3>5, OpenedFields
      <4> QED BY <1>1, <3>2, <3>4, <3>5, <4>1, <4>2
    <3>6. CASE u \notin conn.uris
      BY <1>0, <1>1, <3>4, <3>6 DEF Registered
    <3> QED BY <3>5, <3>6
  <2>2. ASSUME NEW s \in Subs, sub'[s].phase \in {"early", "open"}
        PROVE  s \in ToSet(subscribers'[sub'[s].uri])
    <3>1. CASE s[2] = conn.no /\ s[1] \in conn.uris
      <4>1. PICK u \in Uris : u = s[1]
        BY <1>1, <3>1 DEF OnConns
      <4>2. sub'[s].uri = u
        BY <1>1, <3>1, <4>1, OpenedFields
      <4>3. s = Mine(u)
        BY <3>1, <4>1, SubsAssumption DEF Mine
      <4>4. subscribers'[u] = Append(subscribers[u], s) /\ subscribers[u] \in Seq(Subs)
        BY <1>0, <1>1, <3>1, <4>1, <4>3 DEF StreamTypes
      <4> QED BY <4>2, <4>4, AppendedElements
    <3>2. CASE ~(s[2] = conn.no /\ s[1] \in conn.uris)
      <4>1. sub'[s] = sub[s]
        BY <1>1, <3>2
      <4>2. PICK u \in Uris : u = sub[s].uri
        BY <1>0, <2>2, <4>1, PhasesOfStreams DEF StreamTypes
      <4>3. s \in ToSet(subscribers[u]) /\ subscribers[u] \in Seq(Subs) /\ Mine(u) \in Subs
        BY <1>0, <1>1, <2>2, <4>1, <4>2, MineIsSub DEF Registered, StreamTypes
      <4>4. ToSet(subscribers[u]) \subseteq ToSet(subscribers'[u])
        BY <1>1, <4>3, AppendedElements
      <4> QED BY <4>1, <4>2, <4>3, <4>4
    <3> QED BY <3>1, <3>2
  <2> QED BY <2>1, <2>2 DEF Registered
<1>3. Quiet'
  <2>1. \A s \in Subs : sub'[s].phase \in {"new", "early"} => sub'[s] = sub[s]
    BY <1>1, OpenedFields
  <2> QED BY <1>0, <1>1, <2>1 DEF Quiet
<1>4. Within'
  <2>1. ASSUME NEW s \in Subs, sub'[s].phase = "open"
        PROVE  sub'[s].cutoff <= logged'[sub'[s].uri] /\ sub'[s].start <= sub'[s].next
    <3>1. CASE s[2] = conn.no /\ s[1] \in conn.uris
      <4>1. PICK u \in Uris : u = s[1]
        BY <1>1, <3>1 DEF OnConns
      <4>2. logged[u] \in Nat
        BY <1>0 DEF StreamTypes
      <4>3. sub'[s].cutoff = 0 /\ sub'[s].start = logged[u] /\ sub'[s].next = logged[u] /\ sub'[s].uri = u
        BY <1>1, <3>1, <4>1, OpenedFields
      <4> QED BY <1>1, <4>2, <4>3
    <3>2. CASE ~(s[2] = conn.no /\ s[1] \in conn.uris)
      BY <1>0, <1>1, <2>1, <3>2 DEF Within
    <3> QED BY <3>1, <3>2
  <2> QED BY <1>0, <1>1, <2>1 DEF Within, Logged
<1>5. Carried'
  BY <1>0, <1>1, SameCarried DEF Carrying, Waiting
<1> QED BY <1>1, <1>2, <1>3, <1>4, <1>5 DEF Wired

LEMMA CloseWired ==
    ASSUME Wired, ConnTypes, Forwarders, CloseStream
    PROVE  Wired'
<1>0. StreamTypes /\ Registered /\ Quiet /\ Within /\ Carried
  BY DEF Wired
<1>1. /\ StreamTypes' /\ Grows
      /\ \A u \in Uris : subscribers'[u] = RemoveFirst(subscribers[u], Mine(u))
      /\ \A s \in Subs :
            /\ sub[s].phase = "open" => sub'[s].phase = "closed" /\ got'[s] = <<>>
            /\ sub[s].phase # "open" => sub'[s] = sub[s] /\ got'[s] = got[s]
      /\ UNCHANGED <<graphVars, logged, queue, putters, ready, running>>
  BY <1>0, CloseEffect
<1>2. \A s \in Subs : sub'[s].phase \notin {"early", "open"}
  BY <1>1 DEF Forwarders
<1>3. Registered'
  <2>1. ASSUME NEW u \in Uris
        PROVE  /\ Distinct(subscribers'[u])
               /\ \A s \in ToSet(subscribers'[u]) : sub'[s].phase # "new" /\ sub'[s].uri = u
    <3>1. subscribers[u] \in Seq(Subs) /\ ToSet(subscribers[u]) \subseteq Subs
      BY <1>0 DEF StreamTypes, ToSet
    <3>2. ToSet(subscribers'[u]) \subseteq ToSet(subscribers[u]) /\ Distinct(subscribers'[u])
      BY <1>0, <1>1, <3>1, RemovedElements DEF Registered
    <3>3. \A s \in ToSet(subscribers[u]) : sub'[s].phase # "new" /\ sub'[s].uri = u
      BY <1>0, <1>1, <3>1 DEF Registered, Grows
    <3> QED BY <3>2, <3>3
  <2> QED BY <1>2, <2>1 DEF Registered
<1>4. Quiet'
  <2>1. \A s \in Subs : sub'[s].phase = "new" => sub'[s] = sub[s] /\ got'[s] = got[s]
    BY <1>1
  <2> QED BY <1>0, <1>1, <1>2, <2>1 DEF Quiet
<1>5. Within'
  <2>1. \A s \in Subs : Logged(got[s])' /\ Logged(queue[s])'
    BY <1>0, <1>1 DEF Within, Logged
  <2> QED BY <1>2, <2>1 DEF Within
<1>6. Carried'
  BY <1>0, <1>1, SameCarried DEF Carrying, Waiting
<1> QED BY <1>1, <1>3, <1>4, <1>5, <1>6 DEF Wired

LEMMA SceneWiredNext ==
    ASSUME Wired, ConnTypes, Forwarders, [SceneNext]_allVars
    PROVE  Wired'
BY SceneSteps, WiredNext, StartWired, CloseWired DEF StreamStep

LEMMA SceneApartNext ==
    ASSUME Wired, Apart, ConnTypes, [SceneNext]_allVars
    PROVE  Apart'
<1>1. CASE StreamStep
  BY <1>1, ApartNext DEF StreamStep
<1>2. CASE StartForwarders \/ CloseStream
  <2>1. UNCHANGED <<putters, ready, running>>
    BY <1>2 DEF StartForwarders, CloseStream
  <2>2. Carrying' = Carrying /\ Resting' = Resting /\ \A s \in Subs : Waiting(s)' = Waiting(s)
    BY <2>1 DEF Carrying, Resting, Waiting
  <2> QED BY <2>1, <2>2 DEF Apart
<1> QED BY <1>1, <1>2, SceneSteps

LEMMA SceneOnceNext ==
    ASSUME Wired, Apart, ConnTypes, Forwarders, [SceneNext]_allVars, NEW s \in Subs, Once(s)
    PROVE  Once(s)'
<1>0. StreamTypes /\ Quiet
  BY DEF Wired
<1>1. CASE StreamStep
  BY <1>1, OnceNext DEF StreamStep
<1>2. CASE CloseStream
  <2>1. sub'[s].phase \notin {"early", "open"}
    BY <1>0, <1>2, CloseEffect DEF Forwarders
  <2> QED BY <2>1 DEF Once, Active
<1>3. CASE StartForwarders
  <2>1. /\ sub'[s] = IF s[2] = conn.no /\ s[1] \in conn.uris
                       THEN Opened(s[1], conn.mode, logged[s[1]], 0) ELSE sub[s]
        /\ s[2] = conn.no => sub[s].phase = "new"
        /\ UNCHANGED <<graphVars, logged, queue, putters, ready, running, got>>
    BY <1>0, <1>3, StartEffect
  <2>2. CASE s[2] = conn.no /\ s[1] \in conn.uris
    <3>1. queue'[s] = <<>> /\ got'[s] = <<>>
      BY <1>0, <2>1, <2>2 DEF Quiet
    <3>2. OwnQueued(s)' = {} /\ Own(s)' = {} /\ OwnIndices(s)' = {}
      BY <3>1 DEF OwnQueued, Own, OwnIndices
    <3>3. QueuedOnce(s)' /\ ReceivedOnce(s)'
      BY <3>2 DEF QueuedOnce, ReceivedOnce
    <3> QED BY <3>3 DEF Once
  <2>3. CASE ~(s[2] = conn.no /\ s[1] \in conn.uris)
    <3>1. sub'[s] = sub[s] /\ queue'[s] = queue[s] /\ got'[s] = got[s] /\ Carrying' = Carrying
      BY <2>1, <2>3 DEF Carrying, Waiting
    <3>2. Coming(s)' = Coming(s) /\ Own(s)' = Own(s) /\ OwnIndices(s)' = OwnIndices(s)
      BY <3>1, SameComing, OwnSame
    <3>3. OwnQueued(s)' = OwnQueued(s) /\ (Active(s)' <=> Active(s)) /\ (SelfLinked(sub[s].uri)' <=> SelfLinked(sub[s].uri))
      BY <2>1, <3>1 DEF OwnQueued, Active, SelfLinked, Targets, graphVars
    <3>4. QueuedOnce(s) <=> QueuedOnce(s)'
      BY <3>1, <3>2, <3>3 DEF QueuedOnce
    <3>5. ReceivedOnce(s) <=> ReceivedOnce(s)'
      BY <3>1, <3>2, <3>3 DEF ReceivedOnce
    <3> QED BY <3>1, <3>3, <3>4, <3>5 DEF Once
  <2> QED BY <2>2, <2>3
<1> QED BY <1>1, <1>2, <1>3, SceneSteps

LEMMA ForwardersNext ==
    ASSUME Wired, ConnTypes, Forwarders, [SceneNext]_allVars
    PROVE  Forwarders'
<1>0. StreamTypes /\ logged \in Positions /\ Len(ready) \in Nat
  BY LogPositions DEF Wired
\* A step that keeps the streams and the stream's number, objects and mode.
<1>1. ASSUME sub' = sub, conn'.no = conn.no, conn'.uris = conn.uris, conn'.mode = conn.mode,
             Live' <=> Live,
             conn'.phase \in {"called", "replay", "starting"} => conn.phase \in {"called", "replay", "starting"}
      PROVE  Forwarders'
  BY <1>1 DEF Forwarders
<1>2. ASSUME sub' = sub, conn' = conn PROVE Forwarders'
  BY <1>2 DEF Forwarders, Live
<1>3. ASSUME sub' = sub, ~Live, ~Live', conn'.no = conn.no,
             conn'.phase \in {"called", "replay", "starting"} => conn.phase \in {"called", "replay", "starting"}
      PROVE  Forwarders'
  BY <1>3 DEF Forwarders
<1>4. CASE Elsewhere
  <2>1. conn' = conn
    BY <1>4 DEF Elsewhere, prefixVars
  <2>2. sub' = sub
    BY <1>4 DEF Elsewhere, vars, streamVars, AddEntanglement, NextList, EnqueueNext, PublishDone, Patch
  <2> QED BY <1>2, <2>1, <2>2
<1>5. ASSUME NEW u \in Uris, Create(u) \/ Forward(u) \/ FanPut(u) PROVE Forwarders'
  BY <1>2, <1>5 DEF Create, Forward, FanPut, Take, vars, streamVars
<1>6. ASSUME NEW mode, NEW resume, OpenStream(mode, resume) PROVE Forwarders'
  <2>1. sub' = sub /\ conn'.no = conn.no + 1 /\ conn'.phase = "called" /\ conn.phase = "off"
    BY <1>6 DEF OpenStream, vars, streamVars
  <2>2. conn.no \in Nat
    BY SubsAssumption DEF ConnTypes, OnConns, OffConns
  <2>3. \A s \in Subs : s[2] \in Nat
    BY SubsAssumption
  <2>4. \A s \in Subs : s[2] >= conn.no + 1 => s[2] > conn.no
    BY <2>2, <2>3
  <2>5. \A s \in Subs : s[2] > conn'.no \/ s[2] = conn'.no => s[2] > conn.no
    BY <2>1, <2>2, <2>3
  <2> QED BY <2>1, <2>5 DEF Forwarders, Live
<1>7. CASE RunPublisher
  <2>1. sub' = sub
    BY <1>7 DEF RunPublisher, RunNext
  <2>2. CASE Queued
    <3>1. conn \in OnConns /\ conn' = [conn EXCEPT !.ahead = @ - 1]
      BY <1>7, <2>2, Conn DEF RunPublisher, Queued, On
    <3>2. conn'.no = conn.no /\ conn'.phase = conn.phase /\ conn'.uris = conn.uris /\ conn'.mode = conn.mode
      BY <3>1 DEF OnConns
    <3> QED BY <1>1, <2>1, <3>2 DEF Live
  <2>3. CASE ~Queued
    BY <1>2, <1>7, <2>1, <2>3 DEF RunPublisher
  <2> QED BY <2>2, <2>3
<1>8. CASE SceneStart
  <2>1. conn \in OnConns /\ conn.phase = "called" /\ sub' = sub /\ (conn' = Reading \/ conn' = GoLive(Reading))
    BY <1>8, Conn DEF SceneStart, On, vars, streamVars
  <2>2. conn'.no = conn.no /\ conn'.phase \in {"replay", "starting"}
    BY <1>0, <2>1, ReadingFields, GoLiveFields
  <2> QED BY <1>3, <2>1, <2>2 DEF Live
<1>9. CASE SceneRow
  <2>1. conn \in OnConns /\ conn.phase = "replay" /\ sub' = sub
    BY <1>9, Conn DEF SceneRow, On, vars, streamVars
  <2>2. PICK u \in Unreplayed(conn) :
            \/ conn' = GoLive([conn EXCEPT !.next[u] = @ + 1])
            \/ conn' = [conn EXCEPT !.next[u] = @ + 1]
    BY <1>9 DEF SceneRow
  <2>3. u \in Uris
    BY <2>1, <2>2 DEF Unreplayed, OnConns
  <2>4. PICK d : d = [conn EXCEPT !.next[u] = @ + 1]
    OBVIOUS
  <2>5. d \in OnConns /\ d.no = conn.no /\ d.phase = "replay"
    BY <2>1, <2>3, <2>4, MovedFields
  <2>6. conn'.no = conn.no /\ conn'.phase \in {"replay", "starting"}
    BY <1>0, <2>2, <2>4, <2>5, GoLiveFields
  <2> QED BY <1>3, <2>1, <2>6 DEF Live
<1>10. CASE SceneForward \/ NextLive
  <2>1. conn \in OnConns /\ sub' = sub
    BY <1>10, Conn DEF SceneForward, NextLive, Live, On, vars, streamVars
  <2>2. conn' = [conn EXCEPT !.next = Passed(Head(fan))]
    BY <1>10 DEF SceneForward, NextLive
  <2>3. conn'.no = conn.no /\ conn'.phase = conn.phase /\ conn'.uris = conn.uris /\ conn'.mode = conn.mode
    BY <2>1, <2>2 DEF OnConns
  <2> QED BY <1>1, <2>1, <2>3 DEF Live
<1>11. CASE NextRow
  <2>1. /\ conn \in OnConns /\ conn.phase \in {"called", "replay"} /\ sub' = sub
        /\ \/ conn' = [no |-> conn.no, phase |-> "off"]
           \/ conn' = GoLive(Reading)
           \/ \E u \in Uris : conn' = [Reading EXCEPT !.next[u] = @ + 1]
    BY <1>0, <1>11, NextRowEffect DEF vars, streamVars
  <2>2. Reading \in OnConns /\ Reading.no = conn.no /\ Reading.phase = "replay"
    BY <1>0, <2>1, ReadingFields
  <2>3. conn'.no = conn.no /\ conn'.phase \in {"off", "starting", "replay"}
    BY <1>0, <2>1, <2>2, GoLiveFields, MovedFields
  <2> QED BY <1>3, <2>1, <2>3 DEF Live
<1>12. CASE NextFrame
  BY <1>2, <1>12 DEF NextFrame, vars, streamVars
<1>13. CASE StartForwarders
  <2>1. /\ \A s \in Subs : sub'[s] = IF s[2] = conn.no /\ s[1] \in conn.uris
                                       THEN Opened(s[1], conn.mode, logged[s[1]], 0) ELSE sub[s]
        /\ conn.phase = "starting" /\ conn'.phase = "live" /\ conn'.no = conn.no /\ conn'.uris = conn.uris
        /\ conn'.mode = conn.mode
    BY <1>0, <1>13, StartEffect DEF Live
  <2>2. conn.no \in Nat /\ \A s \in Subs : s[2] \in Nat
    BY SubsAssumption DEF ConnTypes, OnConns, OffConns
  <2>3. \A s \in Subs : s[2] > conn.no => s[2] # conn.no
    BY <2>2
  <2>4. ASSUME NEW s \in Subs
        PROVE  /\ sub'[s].phase \in {"new", "open", "closed"}
               /\ sub'[s].phase = "open" <=> s[2] = conn.no /\ s[1] \in conn.uris
               /\ sub'[s].phase = "open" =>
                     sub'[s].uri = s[1] /\ sub'[s].mode = conn.mode /\ sub'[s].cutoff = 0
               /\ s[2] > conn.no => sub'[s].phase = "new"
    <3>1. CASE s[2] = conn.no /\ s[1] \in conn.uris
      BY <2>1, <2>3, <3>1, OpenedFields
    <3>2. CASE ~(s[2] = conn.no /\ s[1] \in conn.uris)
      BY <2>1, <3>2 DEF Forwarders, Live
    <3> QED BY <3>1, <3>2
  <2> QED BY <2>1, <2>4 DEF Forwarders, Live
<1>14. CASE CloseStream
  <2>1. /\ conn'.phase = "off" /\ conn'.no = conn.no
        /\ \A s \in Subs : /\ sub[s].phase = "open" => sub'[s].phase = "closed"
                           /\ sub[s].phase # "open" => sub'[s] = sub[s]
    BY <1>0, <1>14, CloseEffect
  <2>2. \A s \in Subs : sub[s].phase = "open" => ~(s[2] > conn.no)
    BY DEF Forwarders
  <2>3. \A s \in Subs : sub'[s].phase \in {"new", "closed"} /\ (s[2] > conn.no => sub'[s].phase = "new")
    BY <2>1, <2>2 DEF Forwarders
  <2> QED BY <2>1, <2>3 DEF Forwarders, Live
<1> QED BY <1>4, <1>5, <1>6, <1>7, <1>8, <1>9, <1>10, <1>11, <1>12, <1>13, <1>14, SceneCases

LEMMA SceneGrows ==
    ASSUME Wired, ConnTypes, Forwarders, [SceneNext]_allVars
    PROVE  StreamTypes' /\ Grows /\ scope' = scope
<1>1. StreamTypes
  BY DEF Wired
<1>2. StreamTypes' /\ Grows
  BY <1>1, SceneSteps, TypesNext, StartEffect, CloseEffect DEF StreamStep
<1>3. scope' = scope
  BY SceneCases DEF Elsewhere, prefixVars, Create, Forward, FanPut, OpenStream, RunPublisher, SceneStart, SceneRow,
     StartForwarders, SceneForward, NextRow, NextLive, NextFrame, CloseStream
<1> QED BY <1>2, <1>3

LEMMA HandledNext ==
    ASSUME Wired, ConnTypes, FanTypes, Forwarders, Handled, Bounded, [SceneNext]_allVars
    PROVE  Handled'
<1>0. StreamTypes /\ StreamTypes' /\ Within /\ Grows /\ scope' = scope
  BY SceneGrows DEF Wired
<1>1. \A u \in Uris : logged[u] \in Nat /\ logged'[u] \in Nat /\ logged[u] <= logged'[u]
  BY <1>0 DEF StreamTypes, Grows
<1>2. \A n \in Nat : \A u \in Uris : n < logged[u] => n < logged'[u]
  BY <1>1
\* What stays in the hands and in fan_in is logged still.
<1>3. ASSUME NEW u \in Uris, held[u] # None PROVE held[u].index < logged'[held[u].uri]
  <2>1. held[u] \in Payloads /\ held[u].index < logged[held[u].uri]
    BY <1>3 DEF FanTypes, Handled
  <2> QED BY <1>2, <2>1 DEF Payloads
<1>4. ASSUME NEW k \in DOMAIN fan PROVE fan[k].index < logged'[fan[k].uri]
  <2>1. fan[k] \in FanItems /\ fan[k].index < logged[fan[k].uri]
    BY DEF FanTypes, Handled
  <2> QED BY <1>2, <2>1 DEF FanItems
<1>5. ASSUME UNCHANGED <<held, fan, scene>>, UNCHANGED times \/ kind = "prefix", Live' <=> Live PROVE Handled'
  BY <1>0, <1>3, <1>4, <1>5 DEF Handled, Empty, kind
\* Outside of live, nothing is in them.
<1>6. ASSUME UNCHANGED <<held, fan>>, kind = "prefix" => scene' = <<>>,
             UNCHANGED times \/ kind = "prefix" \/ \A u \in Uris : \A i \in Indices : times'[u][i] = 0,
             Live' => Live, ~Live
      PROVE  Handled'
  BY <1>0, <1>3, <1>4, <1>6 DEF Handled, Empty, kind
<1>7. CASE Elsewhere
  BY <1>5, <1>7 DEF Elsewhere, prefixVars, Live
<1>8. ASSUME NEW u \in Uris, Create(u) PROVE Handled'
  BY <1>5, <1>8 DEF Create, Live
<1>9. ASSUME NEW u \in Uris, Forward(u) PROVE Handled'
  <2>1. PICK e \in Payloads : held' = [held EXCEPT ![u] = e] /\ e.index < logged[e.uri]
    BY <1>0, <1>9, ForwardEffect
  <2>2. \A v \in Uris : held'[v] = IF v = u THEN e ELSE held[v]
    BY <2>1 DEF FanTypes
  <2>3. e.index < logged'[e.uri]
    BY <1>2, <2>1 DEF Payloads
  <2>4. UNCHANGED <<fan, scene, times, conn>> /\ conn.phase = "live"
    BY <1>9 DEF Forward, Live
  <2>5. \A v \in Uris : held'[v] # None => held'[v].index < logged'[held'[v].uri]
    BY <1>3, <2>2, <2>3
  <2> QED BY <1>0, <1>4, <2>4, <2>5 DEF Handled, Live, kind
<1>10. ASSUME NEW u \in Uris, FanPut(u) PROVE Handled'
  <2>1. /\ conn.phase = "live" /\ held[u] \in Payloads /\ held[u] # None
        /\ \A v \in Uris : held'[v] = IF v = u THEN None ELSE held[v]
        /\ UNCHANGED <<scene, times, conn>>
    BY <1>10, FanPutEffect
  <2>2. PICK item \in FanItems :
            item.via = u /\ item.uri = held[u].uri /\ item.index = held[u].index /\ fan' = Append(fan, item)
    BY <1>10, FanPutEffect
  <2>3. item.index < logged'[item.uri]
    BY <1>3, <2>1, <2>2
  <2>4. \A v \in Uris : held'[v] # None => held'[v].index < logged'[held'[v].uri]
    BY <1>3, <2>1
  <2>5. \A k \in DOMAIN fan' : fan'[k].index < logged'[fan'[k].uri]
    BY <1>4, <2>2, <2>3, FanAppend DEF FanTypes
  <2> QED BY <1>0, <2>1, <2>4, <2>5 DEF Handled, Live, kind
<1>11. ASSUME NEW mode, NEW resume, OpenStream(mode, resume) PROVE Handled'
  <2>1. conn.phase = "off" /\ conn'.phase = "called" /\ UNCHANGED <<held, fan, scene>>
    BY <1>11 DEF OpenStream
  <2>2. UNCHANGED times \/ times' = [u \in Uris |-> [i \in 0..(MaxEvents - 1) |-> 0]]
    BY <1>11 DEF OpenStream
  <2>3. UNCHANGED times \/ \A u \in Uris : \A i \in Indices : times'[u][i] = 0
    BY <2>2 DEF Indices
  <2> QED BY <1>6, <2>1, <2>3 DEF Live, Handled
<1>12. CASE RunPublisher
  <2>1. UNCHANGED <<held, fan, scene, times>> /\ (conn' = conn \/ conn' = [conn EXCEPT !.ahead = @ - 1])
    BY <1>12 DEF RunPublisher
  <2>2. CASE On
    <3>1. conn \in OnConns
      BY <2>2, Conn
    <3> QED BY <1>5, <2>1, <3>1 DEF Live, OnConns
  <2>3. CASE ~On
    <3>1. conn' = conn
      BY <1>12, <2>3 DEF RunPublisher, Queued, On
    <3> QED BY <1>5, <2>1, <3>1 DEF Live
  <2> QED BY <2>2, <2>3
<1>13. CASE SceneStart \/ SceneRow
  <2>1. UNCHANGED <<held, fan, times>> /\ kind = "scene" /\ ~Live /\ conn.phase \in {"called", "replay"}
    BY <1>13 DEF SceneStart, SceneRow, Live
  <2>2. ~Live'
    <3>1. sub' = sub
      BY <1>13 DEF SceneStart, SceneRow, vars, streamVars
    <3>2. conn \in OnConns /\ logged \in Positions /\ Len(ready) \in Nat
      BY <1>0, <2>1, Conn, LogPositions DEF On
    <3>3. Reading \in OnConns /\ Reading.phase = "replay"
      BY <2>1, <3>2, ReadingFields
    <3>4. CASE SceneStart
      BY <3>2, <3>3, <3>4, GoLiveFields DEF SceneStart, Live
    <3>5. CASE SceneRow
      <4>1. PICK u \in Unreplayed(conn) :
                \/ conn' = GoLive([conn EXCEPT !.next[u] = @ + 1])
                \/ conn' = [conn EXCEPT !.next[u] = @ + 1]
        BY <3>5 DEF SceneRow
      <4>2. u \in Uris /\ conn.phase = "replay"
        BY <3>2, <3>5, <4>1 DEF Unreplayed, OnConns, SceneRow
      <4>3. PICK d : d = [conn EXCEPT !.next[u] = @ + 1]
        OBVIOUS
      <4>4. d \in OnConns /\ d.phase = "replay"
        BY <3>2, <4>2, <4>3, MovedFields
      <4> QED BY <3>2, <4>1, <4>3, <4>4, GoLiveFields DEF Live
    <3> QED BY <1>13, <3>4, <3>5
  <2> QED BY <1>6, <2>1, <2>2
<1>14. CASE StartForwarders
  <2>1. UNCHANGED <<held, fan, scene, times>> /\ ~Live /\ conn'.phase = "live"
    BY <1>0, <1>14, StartEffect DEF Live
  <2> QED BY <1>0, <1>3, <1>4, <2>1 DEF Handled, Live, kind
<1>15. CASE SceneForward \/ NextLive
  <2>1. conn \in OnConns /\ fan \in Seq(FanItems) /\ fan # <<>> /\ fan' = Tail(fan) /\ UNCHANGED held /\ Live
    BY <1>15, Conn DEF SceneForward, NextLive, Live, On, FanTypes
  <2>2. conn' = [conn EXCEPT !.next = Passed(Head(fan))]
    BY <1>15 DEF SceneForward, NextLive
  <2>3. Live'
    BY <2>1, <2>2 DEF OnConns, Live
  <2>4. \A k \in DOMAIN fan' : fan'[k].index < logged'[fan'[k].uri]
    BY <1>4, <2>1, FanHead
  <2>5. (kind = "scene" => times' = times) /\ (kind = "prefix" => scene' = scene)
    BY <1>15 DEF SceneForward, NextLive
  <2> QED BY <1>0, <1>3, <2>1, <2>3, <2>4, <2>5 DEF Handled, kind
<1>16. CASE NextRow
  <2>1. /\ kind = "prefix" /\ UNCHANGED <<held, fan, scene>> /\ conn.phase \in {"called", "replay"}
        /\ conn \in OnConns
        /\ \/ conn' = [no |-> conn.no, phase |-> "off"]
           \/ conn' = GoLive(Reading)
           \/ \E u \in Uris : conn' = [Reading EXCEPT !.next[u] = @ + 1]
    BY <1>0, <1>16, NextRowEffect DEF kind
  <2>2. logged \in Positions /\ Len(ready) \in Nat
    BY <1>0, LogPositions
  <2>3. Reading \in OnConns /\ Reading.phase = "replay"
    BY <2>1, <2>2, ReadingFields
  <2>4. conn'.phase \in {"off", "starting", "replay"}
    BY <2>1, <2>2, <2>3, GoLiveFields, MovedFields
  <2> QED BY <1>6, <2>1, <2>4 DEF Live, Handled
<1>17. CASE NextFrame
  <2>1. scene # <<>> /\ UNCHANGED <<vars, conn, held, fan, times>>
    BY <1>17 DEF NextFrame
  <2>2. kind # "prefix"
    BY <2>1 DEF Handled
  <2> QED BY <1>0, <1>3, <1>4, <2>1, <2>2 DEF Handled, Live, Empty, kind
<1>18. CASE CloseStream
  <2>1. Empty' /\ fan' = <<>> /\ scene' = <<>> /\ UNCHANGED times
    BY <1>0, <1>18, CloseEffect DEF Empty
  <2> QED BY <1>0, <2>1 DEF Handled, Empty, kind
<1> QED BY <1>7, <1>8, <1>9, <1>10, <1>11, <1>12, <1>13, <1>14, <1>15, <1>16, <1>17, <1>18, SceneCases

-------------------------------------------------------------------------------
\* What the client of a prefix stream got, and its cursor.

LEMMA PrefixCases ==
    ASSUME kind = "prefix", Handled, [SceneNext]_allVars
    PROVE  \/ Elsewhere
           \/ \E u \in Uris : Create(u) \/ Forward(u) \/ FanPut(u)
           \/ \E mode \in scope.modes, resume \in BOOLEAN : OpenStream(mode, resume)
           \/ RunPublisher \/ StartForwarders \/ NextRow \/ NextLive \/ CloseStream
<1>1. ~SceneStart /\ ~SceneRow /\ ~SceneForward
  BY DEF SceneStart, SceneRow, SceneForward
<1>2. ~NextFrame
  BY DEF NextFrame, Handled
<1> QED BY <1>1, <1>2, SceneCases

LEMMA RunPublisherEffect ==
    ASSUME ConnTypes, RunPublisher
    PROVE  /\ RunNext /\ UNCHANGED <<created, scope, held, fan, scene, times, frame, token>>
           /\ conn.phase = "starting" => conn.ahead > 0 /\ conn' = [conn EXCEPT !.ahead = @ - 1]
           /\ \/ conn' = conn
              \/ /\ conn \in OnConns /\ conn' \in OnConns /\ conn'.ahead = conn.ahead - 1
                 /\ conn'.no = conn.no /\ conn'.phase = conn.phase /\ conn'.mode = conn.mode
                 /\ conn'.uris = conn.uris /\ conn'.next = conn.next /\ conn'.start = conn.start
                 /\ conn'.cut = conn.cut /\ conn'.went = conn.went
<1>1. CASE Queued
  <2>1. conn \in OnConns /\ conn.ahead > 0 /\ conn' = [conn EXCEPT !.ahead = @ - 1]
    BY <1>1, Conn DEF RunPublisher, Queued, On
  <2>2. conn.ahead \in Nat \ {0}
    BY <2>1 DEF OnConns
  <2>3. /\ conn' \in OnConns /\ conn'.ahead = conn.ahead - 1
        /\ conn'.no = conn.no /\ conn'.phase = conn.phase /\ conn'.mode = conn.mode
        /\ conn'.uris = conn.uris /\ conn'.next = conn.next /\ conn'.start = conn.start
        /\ conn'.cut = conn.cut /\ conn'.went = conn.went
    BY <2>1, <2>2 DEF OnConns
  <2> QED BY <2>1, <2>3 DEF RunPublisher
<1>2. CASE ~Queued
  BY <1>2 DEF RunPublisher, Queued
<1> QED BY <1>1, <1>2

\* A row of the replay.
RowOf(u) ==
    /\ conn.phase \in {"called", "replay"}
    /\ Reading.next[u] \in Indices /\ Reading.next[u] = conn.next[u] /\ conn.next[u] < logged[u]
    /\ conn.next[u] < Reading.cut[u]
    /\ conn' \in OnConns /\ conn'.phase = "replay" /\ conn'.uris = conn.uris /\ conn'.mode = conn.mode
    /\ conn'.start = Reading.start /\ conn'.cut = Reading.cut
    /\ \A v \in Uris : conn'.next[v] = IF v = u THEN conn.next[u] + 1 ELSE conn.next[v]
    /\ times' \in [Uris -> [Indices -> Nat]]
    /\ \A v \in Uris : \A j \in Indices :
          times'[v][j] = IF v = u /\ j = conn.next[u] THEN times[u][conn.next[u]] + 1 ELSE times[v][j]
    /\ token' = conn'.next

\* The replay is over.
GoesLive ==
    /\ Unreplayed(Reading) = {}
    /\ conn' \in OnConns /\ conn'.phase = "starting" /\ conn'.uris = conn.uris /\ conn'.next = conn.next
    /\ conn'.mode = conn.mode /\ conn'.start = Reading.start /\ conn'.cut = Reading.cut
    /\ conn'.went = logged /\ conn'.ahead = Len(ready)
    /\ UNCHANGED <<times, token>>

LEMMA RowSteps ==
    ASSUME StreamTypes, ConnTypes, FanTypes, Bounded, Replayed, NextRow
    PROVE  /\ kind = "prefix" /\ conn.phase \in {"called", "replay"} /\ conn \in OnConns /\ Reading \in OnConns
           /\ running = None
           /\ UNCHANGED <<vars, created, scope, held, fan, scene, frame>>
           /\ \/ conn' = [no |-> conn.no, phase |-> "off"] /\ UNCHANGED <<times, token>>
              \/ GoesLive
              \/ \E u \in Uris : u \in conn.uris /\ RowOf(u)
<1>1. /\ kind = "prefix" /\ conn.phase \in {"called", "replay"} /\ conn \in OnConns
      /\ running = None
      /\ UNCHANGED <<vars, created, scope, held, fan, scene, frame>>
      /\ \/ conn' = [no |-> conn.no, phase |-> "off"] /\ UNCHANGED <<times, token>>
         \/ Unreplayed(Reading) = {} /\ conn' = GoLive(Reading) /\ UNCHANGED <<times, token>>
         \/ \E u \in Uris :
               /\ u \in Reading.uris /\ Reading.next[u] < Reading.cut[u]
               /\ conn' = [Reading EXCEPT !.next[u] = @ + 1]
               /\ Got(u, Reading.next[u])
               /\ token' = conn'.next
  BY NextRowEffect DEF kind
<1>2. logged \in Positions /\ Len(ready) \in Nat
  BY LogPositions
<1>3. Reading \in OnConns /\ Reading.next = conn.next /\ Reading.uris = conn.uris /\ Reading.phase = "replay"
      /\ Reading.mode = conn.mode
  BY <1>1, <1>2, ReadingFields
<1>4. Unreplayed(Reading) = {} /\ conn' = GoLive(Reading) /\ UNCHANGED <<times, token>> => GoesLive
  BY <1>2, <1>3, GoLiveFields DEF GoesLive
<1>5. ASSUME NEW u \in Uris, u \in Reading.uris, Reading.next[u] < Reading.cut[u],
             conn' = [Reading EXCEPT !.next[u] = @ + 1], Got(u, Reading.next[u]), token' = conn'.next
      PROVE  u \in conn.uris /\ RowOf(u)
  <2>1. Reading.next[u] \in Indices /\ Reading.next[u] < logged[u]
    BY <1>1, <1>5, ReplayedRow
  <2>2. /\ times' \in [Uris -> [Indices -> Nat]]
        /\ \A v \in Uris : \A j \in Indices :
              times'[v][j] = IF v = u /\ j = Reading.next[u] THEN times[u][Reading.next[u]] + 1 ELSE times[v][j]
    BY <1>5, <2>1, GotTimes DEF FanTypes
  <2>3. /\ conn' \in OnConns /\ conn'.phase = "replay" /\ conn'.uris = conn.uris /\ conn'.mode = conn.mode
        /\ conn'.start = Reading.start /\ conn'.cut = Reading.cut
        /\ \A v \in Uris : conn'.next[v] = IF v = u THEN Reading.next[u] + 1 ELSE Reading.next[v]
    <3>1. PICK c \in OnConns : c = Reading
      BY <1>3
    <3>2. PICK d : d = conn'
      OBVIOUS
    <3>3. d = [c EXCEPT !.next[u] = @ + 1]
      BY <1>5, <3>1, <3>2
    <3>4. /\ d \in OnConns
          /\ d.no = c.no /\ d.mode = c.mode /\ d.uris = c.uris /\ d.phase = c.phase
          /\ d.start = c.start /\ d.cut = c.cut
      BY <3>3, MovedFields
    <3>5. \A v \in Uris : d.next[v] = IF v = u THEN c.next[u] + 1 ELSE c.next[v]
      <4>1. c.next \in Positions
        BY DEF OnConns
      <4>2. d.next = [c.next EXCEPT ![u] = @ + 1]
        BY <3>3 DEF OnConns
      <4> QED BY <4>1, <4>2 DEF Positions
    <3> QED BY <1>3, <3>1, <3>2, <3>4, <3>5
  <2> QED BY <1>1, <1>3, <1>5, <2>1, <2>2, <2>3 DEF RowOf
<1> QED BY <1>1, <1>3, <1>4, <1>5

\* A live event.
Hears(item) ==
    /\ fan # <<>> /\ item = Head(fan) /\ fan' = Tail(fan)
    /\ conn' \in OnConns /\ conn'.next = Passed(item) /\ token' = Passed(item)
    /\ conn'.no = conn.no /\ conn'.phase = "live" /\ conn'.uris = conn.uris /\ conn'.mode = conn.mode
    /\ conn'.start = conn.start /\ conn'.cut = conn.cut /\ conn'.went = conn.went
    /\ item.index \in Indices /\ item.index < logged[item.uri]
    /\ times' \in [Uris -> [Indices -> Nat]]
    /\ \A v \in Uris : \A j \in Indices :
          times'[v][j] = IF item.via = item.uri /\ v = item.uri /\ j = item.index THEN times[v][j] + 1
                                                                                  ELSE times[v][j]

LEMMA HearsStep ==
    ASSUME StreamTypes, ConnTypes, FanTypes, Handled, Bounded, NextLive
    PROVE  /\ kind = "prefix" /\ Live /\ conn \in OnConns
           /\ UNCHANGED <<vars, created, scope, held, scene, frame>>
           /\ \E item \in FanItems : Hears(item)
<1>1. conn \in OnConns /\ conn.phase = "live" /\ fan \in Seq(FanItems) /\ fan # <<>> /\ fan' = Tail(fan)
  BY Conn DEF NextLive, Live, On, FanTypes
<1>2. PICK item \in FanItems : item = Head(fan)
  BY <1>1, FanHead
<1>3. item.uri \in Uris /\ item.index \in Nat /\ item.index < logged[item.uri]
  BY <1>1, <1>2, FanHead DEF Handled, FanItems
<1>4. item.index \in Indices
  BY <1>3, LoggedIndices
<1>5. PICK n \in Positions : n = Passed(item)
  BY <1>1, <1>2, PassedFields
<1>6. conn' = [conn EXCEPT !.next = n] /\ token' = n
  BY <1>2, <1>5 DEF NextLive
<1>7. /\ conn' \in OnConns /\ conn'.next = n
      /\ conn'.no = conn.no /\ conn'.phase = "live" /\ conn'.uris = conn.uris /\ conn'.mode = conn.mode
      /\ conn'.start = conn.start /\ conn'.cut = conn.cut /\ conn'.went = conn.went
  BY <1>1, <1>6 DEF OnConns
<1>8. IF item.via = item.uri THEN Got(item.uri, item.index) ELSE UNCHANGED times
  BY <1>2 DEF NextLive
<1>9. /\ times' \in [Uris -> [Indices -> Nat]]
      /\ \A v \in Uris : \A j \in Indices :
            times'[v][j] = IF item.via = item.uri /\ v = item.uri /\ j = item.index THEN times[v][j] + 1
                                                                                    ELSE times[v][j]
  <2>1. CASE item.via = item.uri
    BY <1>3, <1>4, <1>8, <2>1, GotTimes DEF FanTypes
  <2>2. CASE item.via # item.uri
    BY <1>8, <2>2 DEF FanTypes
  <2> QED BY <2>1, <2>2
<1>10. Hears(item)
  BY <1>1, <1>2, <1>3, <1>4, <1>5, <1>6, <1>7, <1>9 DEF Hears
<1> QED BY <1>1, <1>2, <1>10 DEF NextLive, Live

LEMMA CursorsNext ==
    ASSUME Wired, ConnTypes, FanTypes, Forwarders, Handled, Handled', FanTypes', Bounded, Cursors, Replayed,
           [SceneNext]_allVars
    PROVE  Cursors'
<1>0. StreamTypes /\ Within /\ Grows /\ scope' = scope
  BY SceneGrows DEF Wired
<1>1. \A u \in Uris : logged[u] \in Nat /\ logged'[u] \in Nat /\ logged[u] <= logged'[u]
  BY <1>0, SceneGrows DEF StreamTypes, Grows
<1>2. CASE kind = "scene"
  <2>1. \A u \in Uris : \A i \in Indices : times'[u][i] = 0
    BY <1>0, <1>2 DEF Handled, kind
  <2> QED BY <1>0, <1>2, <2>1 DEF Cursors, kind
<1>3. CASE kind = "prefix"
  <2>1. token # None => \A u \in Uris : token[u] \in Nat /\ token[u] <= logged[u]
    BY <1>3 DEF Cursors, ConnTypes, Positions
  <2>2. ASSUME times' = times, token' = token, On' => On /\ conn'.next = conn.next
        PROVE  Cursors'
    <3>1. token # None => \A u \in Uris : token[u] <= logged'[u]
      BY <1>1, <2>1
    <3>2. On => \A u \in Uris : conn.next[u] \in Nat /\ conn.next[u] <= logged[u]
      BY <1>3, Conn DEF Cursors, OnConns, Positions
    <3>3. On => \A u \in Uris : conn.next[u] <= logged'[u]
      BY <1>1, <3>2
    <3> QED BY <1>3, <2>2, <3>1, <3>3 DEF Cursors
  <2>3. CASE Elsewhere
    BY <2>2, <2>3 DEF Elsewhere, prefixVars, On
  <2>4. ASSUME NEW u \in Uris, Create(u) \/ Forward(u) \/ FanPut(u) PROVE Cursors'
    BY <2>2, <2>4 DEF Create, Forward, FanPut, On
  <2>5. ASSUME NEW mode, NEW resume \in BOOLEAN, OpenStream(mode, resume) PROVE Cursors'
    <3>1. /\ conn'.next = IF resume THEN token ELSE Nothing
          /\ resume => token # None
          /\ times' = IF resume THEN times ELSE [u \in Uris |-> [i \in 0..(MaxEvents - 1) |-> 0]]
          /\ token' = token /\ logged' = logged
      BY <1>3, <2>5 DEF OpenStream, vars, streamVars
    <3>2. CASE resume
      BY <1>3, <2>1, <3>1, <3>2 DEF Cursors
    <3>3. CASE ~resume
      <4>1. \A u \in Uris : \A i \in Indices : times'[u][i] = 0
        BY <3>1, <3>3 DEF Indices
      <4>2. \A u \in Uris : conn'.next[u] = 0
        BY <3>1, <3>3 DEF Nothing
      <4>3. token' = token /\ logged' = logged
        BY <3>1
      <4>4. \A u \in Uris : \A i \in Indices : ~(times'[u][i] > 0)
        BY <4>1
      <4>5. \A u \in Uris : conn'.next[u] <= logged'[u]
        BY <1>1, <4>2
      <4> QED BY <2>1, <4>3, <4>4, <4>5 DEF Cursors
    <3> QED BY <3>2, <3>3
  <2>6. CASE RunPublisher
    BY <2>2, <2>6, RunPublisherEffect DEF On
  <2>7. CASE StartForwarders
    BY <1>0, <2>2, <2>7, StartEffect DEF On
  <2>8. CASE CloseStream
    BY <1>0, <2>2, <2>8, CloseEffect DEF On
  <2>9. CASE NextRow
    <3>1. On /\ conn \in OnConns /\ logged' = logged
      BY <1>0, <2>9, RowSteps DEF On, vars, streamVars
    <3>2. CASE conn' = [no |-> conn.no, phase |-> "off"] /\ UNCHANGED <<times, token>>
      BY <2>2, <3>2 DEF On
    <3>3. CASE GoesLive
      BY <2>2, <3>1, <3>3 DEF GoesLive
    <3>4. ASSUME NEW u \in Uris, RowOf(u) PROVE Cursors'
      <4>1. conn.next \in Positions /\ conn.next[u] \in Nat /\ \A v \in Uris : conn.next[v] \in Nat
        BY <3>1 DEF OnConns, Positions
      <4>2. /\ conn.next[u] < logged[u] /\ token' = conn'.next /\ conn'.next \in Positions
            /\ \A v \in Uris : conn'.next[v] = IF v = u THEN conn.next[u] + 1 ELSE conn.next[v]
            /\ \A v \in Uris : \A j \in Indices :
                  times'[v][j] = IF v = u /\ j = conn.next[u] THEN times[u][conn.next[u]] + 1 ELSE times[v][j]
        BY <3>4 DEF RowOf, OnConns
      <4>3. \A v \in Uris : conn'.next[v] <= logged'[v]
        BY <1>1, <1>3, <3>1, <4>1, <4>2 DEF Cursors
      <4>4. ASSUME NEW v \in Uris, NEW j \in Indices, times'[v][j] > 0
            PROVE  j < conn'.next[v]
        <5>1. CASE v = u /\ j = conn.next[u]
          BY <4>1, <4>2, <5>1
        <5>2. CASE ~(v = u /\ j = conn.next[u])
          <6>1. j < conn.next[v]
            BY <1>3, <3>1, <4>2, <4>4, <5>2 DEF Cursors
          <6> QED BY <4>1, <4>2, <6>1 DEF Indices
        <5> QED BY <5>1, <5>2
      <4>5. \A v \in Uris : token'[v] <= logged'[v]
        BY <4>2, <4>3
      <4>6. \A v \in Uris : \A j \in Indices : times'[v][j] > 0 => j < conn'.next[v] /\ j < token'[v]
        BY <4>2, <4>4
      <4> HIDE <4>2
      <4> QED BY <4>3, <4>5, <4>6 DEF Cursors
    <3> QED BY <1>0, <2>9, <3>2, <3>3, <3>4, RowSteps
  <2>10. CASE NextLive
    <3>1. conn \in OnConns /\ On /\ logged' = logged
      BY <1>0, <2>10, HearsStep DEF Live, On, vars, streamVars
    <3>2. PICK item \in FanItems : Hears(item)
      BY <1>0, <2>10, HearsStep
    <3>3. /\ token' = Passed(item) /\ conn'.next = Passed(item)
          /\ \A v \in Uris : \A j \in Indices :
                times'[v][j] = times[v][j] \/ (v = item.uri /\ j = item.index)
      BY <3>2 DEF Hears
    <3>4. \A u \in Uris : \/ u = item.uri /\ Passed(item)[u] = item.index + 1 /\ Passed(item)[u] > conn.next[u]
                          \/ Passed(item)[u] = conn.next[u] /\ (u = item.uri => Passed(item)[u] > item.index)
      BY <3>1, PassedFields
    <3>5. item.index \in Nat /\ item.index < logged[item.uri] /\ \A u \in Uris : conn.next[u] \in Nat
      BY <3>1, <3>2 DEF FanItems, Hears, OnConns, Positions
    <3>6. \A v \in Uris : Passed(item)[v] <= logged'[v]
      BY <1>1, <1>3, <3>1, <3>4, <3>5 DEF Cursors
    <3>7. ASSUME NEW v \in Uris, NEW j \in Indices, times'[v][j] > 0
          PROVE  j < Passed(item)[v]
      <4>1. (v = item.uri /\ j = item.index) \/ j < conn.next[v]
        BY <1>3, <3>1, <3>3, <3>7 DEF Cursors
      <4>2. j \in Nat
        BY DEF Indices
      <4> QED BY <3>4, <3>5, <4>1, <4>2
    <3>8. \A v \in Uris : token'[v] <= logged'[v] /\ conn'.next[v] <= logged'[v]
      BY <3>3, <3>6
    <3>9. \A v \in Uris : \A j \in Indices : times'[v][j] > 0 => j < token'[v] /\ j < conn'.next[v]
      BY <3>3, <3>7
    <3> QED BY <3>8, <3>9 DEF Cursors
  <2> QED BY <1>3, <2>3, <2>4, <2>5, <2>6, <2>7, <2>8, <2>9, <2>10, PrefixCases
<1> QED BY <1>2, <1>3, ScopeFields DEF kind

LEMMA ConnNumbers ==
    ASSUME conn \in OnConns
    PROVE  /\ \A u \in Uris : conn.next[u] \in Nat /\ conn.start[u] \in Nat /\ conn.cut[u] \in Nat /\ conn.went[u] \in Nat
           /\ conn.uris \subseteq Uris /\ conn.ahead \in Nat
BY DEF OnConns, Positions

LEMMA ReadingNumbers ==
    ASSUME StreamTypes, conn \in OnConns, conn.phase \in {"called", "replay"}, kind = "prefix", Replayed
    PROVE  /\ \A u \in Uris : Reading.start[u] \in Nat /\ Reading.cut[u] \in Nat /\ Reading.cut[u] <= logged[u]
           /\ Reading.next = conn.next /\ Reading.uris = conn.uris
           /\ \A u \in conn.uris : \A i \in Indices :
                 Reading.start[u] <= i /\ i < Reading.cut[u] /\ i < conn.next[u] => times[u][i] > 0
<1>1. logged \in Positions /\ \A u \in Uris : logged[u] \in Nat
  BY LogPositions DEF Positions
<1>2. Reading.next = conn.next /\ Reading.uris = conn.uris
  BY <1>1, ReadingFields
<1>3. CASE conn.phase = "called"
  <2>1. Reading.start = conn.next /\ Reading.cut = logged
    BY <1>1, <1>3, ReadingFields
  <2>2. \A u \in conn.uris : \A i \in Indices : ~(conn.next[u] <= i /\ i < conn.next[u])
    BY ConnNumbers DEF Indices
  <2> QED BY <1>1, <1>2, <2>1, <2>2, ConnNumbers
<1>4. CASE conn.phase = "replay"
  <2>1. Reading = conn
    BY <1>1, <1>4, ReadingFields
  <2> QED BY <1>2, <1>4, <2>1, ConnNumbers DEF Replayed
<1> QED BY <1>3, <1>4

LEMMA TimesNumbers ==
    ASSUME FanTypes
    PROVE  \A u \in Uris : \A i \in Indices : i \in Nat /\ times[u][i] \in Nat
<1>1. \A i \in Indices : i \in Nat
  BY StreamsBounds DEF Indices
<1>2. \A u \in Uris : times[u] \in [Indices -> Nat]
  BY DEF FanTypes
<1> QED BY <1>1, <1>2

LEMMA ReplayedNext ==
    ASSUME Wired, ConnTypes, ConnTypes', FanTypes, Forwarders, Handled, Bounded, Cursors, Replayed, [SceneNext]_allVars
    PROVE  Replayed'
<1>0. StreamTypes /\ Within /\ Grows /\ scope' = scope
  BY SceneGrows DEF Wired
<1>1. \A u \in Uris : logged[u] \in Nat /\ logged'[u] \in Nat /\ logged[u] <= logged'[u]
  BY <1>0, SceneGrows DEF StreamTypes, Grows
<1> SUFFICES ASSUME kind = "prefix" PROVE Replayed'
  BY <1>0 DEF Replayed, kind
<1>2. \A u \in Uris : \A n \in Nat : n <= logged[u] => n <= logged'[u]
  BY <1>1
\* A step that changes no position.
<1>3. ASSUME times' = times,
             conn'.phase \in {"replay", "starting", "live"} =>
                /\ conn.phase \in {"replay", "starting", "live"} /\ (conn.phase = "replay" <=> conn'.phase = "replay")
                /\ conn'.uris = conn.uris /\ conn'.next = conn.next /\ conn'.start = conn.start /\ conn'.cut = conn.cut
      PROVE  Replayed'
  <2>1. SUFFICES ASSUME conn'.phase \in {"replay", "starting", "live"} PROVE Replayed'
    BY DEF Replayed
  <2>2. conn \in OnConns
    BY <1>3, <2>1, Conn DEF On
  <2>3. \A u \in Uris : conn.cut[u] <= logged'[u]
    BY <1>2, <1>3, <2>1, <2>2, ConnNumbers DEF Replayed
  <2> QED BY <1>3, <2>1, <2>3 DEF Replayed
<1>4. CASE Elsewhere
  BY <1>3, <1>4 DEF Elsewhere, prefixVars
<1>5. ASSUME NEW u \in Uris, Create(u) \/ Forward(u) \/ FanPut(u) PROVE Replayed'
  BY <1>3, <1>5 DEF Create, Forward, FanPut
<1>6. ASSUME NEW mode, NEW resume, OpenStream(mode, resume) PROVE Replayed'
  BY <1>6 DEF OpenStream, Replayed
<1>7. CASE RunPublisher
  BY <1>3, <1>7, RunPublisherEffect
<1>8. CASE StartForwarders
  BY <1>0, <1>3, <1>8, StartEffect DEF Live
<1>9. CASE CloseStream
  BY <1>0, <1>9, CloseEffect DEF Replayed
<1>10. CASE NextRow
  <2>1. conn \in OnConns /\ conn.phase \in {"called", "replay"} /\ UNCHANGED vars
    BY <1>0, <1>10, RowSteps
  <2>2. logged' = logged
    BY <2>1 DEF vars, streamVars
  <2>3. /\ \A u \in Uris : Reading.start[u] \in Nat /\ Reading.cut[u] \in Nat /\ Reading.cut[u] <= logged[u]
        /\ Reading.next = conn.next /\ Reading.uris = conn.uris
        /\ \A u \in conn.uris : \A i \in Indices :
              Reading.start[u] <= i /\ i < Reading.cut[u] /\ i < conn.next[u] => times[u][i] > 0
    BY <1>0, <2>1, ReadingNumbers
  <2>4. CASE conn' = [no |-> conn.no, phase |-> "off"] /\ UNCHANGED <<times, token>>
    BY <2>4 DEF Replayed
  <2>5. CASE GoesLive
    <3>1. \A u \in conn.uris : conn.next[u] >= Reading.cut[u]
      <4>1. \A u \in conn.uris : ~(conn.next[u] < Reading.cut[u])
        BY <2>3, <2>5 DEF GoesLive, Unreplayed
      <4> QED BY <2>1, <2>3, <4>1, ConnNumbers
    <3> QED BY <2>2, <2>3, <2>5, <3>1 DEF GoesLive, Replayed
  <2>6. ASSUME NEW u \in Uris, RowOf(u) PROVE Replayed'
    <3>1. /\ conn'.phase = "replay" /\ conn'.uris = conn.uris /\ conn'.start = Reading.start /\ conn'.cut = Reading.cut
          /\ \A v \in Uris : conn'.next[v] = IF v = u THEN conn.next[u] + 1 ELSE conn.next[v]
          /\ \A v \in Uris : \A j \in Indices :
                times'[v][j] = IF v = u /\ j = conn.next[u] THEN times[u][conn.next[u]] + 1 ELSE times[v][j]
          /\ conn.next[u] \in Indices
      BY <2>6 DEF RowOf
    <3>2. ASSUME NEW v \in conn.uris, NEW i \in Indices,
                 Reading.start[v] <= i, i < Reading.cut[v], i < conn'.next[v]
          PROVE  times'[v][i] > 0
      <4>1. v \in Uris /\ i \in Nat /\ times[v][i] \in Nat
        BY <2>1, ConnNumbers, TimesNumbers
      <4>2. CASE v = u /\ i = conn.next[u]
        BY <3>1, <4>1, <4>2
      <4>3. CASE ~(v = u /\ i = conn.next[u])
        <5>1. i < conn.next[v]
          BY <2>1, <3>1, <3>2, <4>1, <4>3, ConnNumbers
        <5> QED BY <2>3, <3>1, <3>2, <4>1, <4>3, <5>1
      <4> QED BY <4>2, <4>3
    <3>3. \A v \in Uris : Reading.cut[v] <= logged'[v]
      BY <2>2, <2>3
    <3> QED BY <3>1, <3>2, <3>3 DEF Replayed
  <2> QED BY <1>0, <1>10, <2>4, <2>5, <2>6, RowSteps
<1>11. CASE NextLive
  <2>1. conn \in OnConns /\ conn.phase = "live" /\ UNCHANGED vars
    BY <1>0, <1>11, HearsStep DEF Live
  <2>2. logged' = logged
    BY <2>1 DEF vars, streamVars
  <2>3. PICK item \in FanItems : Hears(item)
    BY <1>0, <1>11, HearsStep
  <2>4. /\ conn'.phase = "live" /\ conn'.uris = conn.uris /\ conn'.start = conn.start /\ conn'.cut = conn.cut
        /\ conn'.next = Passed(item)
        /\ \A v \in Uris : \A j \in Indices :
              times'[v][j] = times[v][j] + 1 \/ times'[v][j] = times[v][j]
    BY <2>3 DEF Hears
  <2>5. \A u \in Uris : Passed(item)[u] >= conn.next[u] /\ Passed(item)[u] \in Nat
    <3>1. Passed(item) \in Positions /\ \A u \in Uris : Passed(item)[u] > conn.next[u] \/ Passed(item)[u] = conn.next[u]
      BY <2>1, PassedFields
    <3> QED BY <2>1, <3>1, ConnNumbers DEF Positions
  <2>6. \A u \in conn.uris : u \in Uris /\ Passed(item)[u] >= conn.cut[u]
    BY <2>1, <2>5, ConnNumbers DEF Replayed
  <2>7. ASSUME NEW v \in conn.uris, NEW i \in Indices, conn.start[v] <= i, i < conn.cut[v]
        PROVE  times'[v][i] > 0
    <3>1. v \in Uris /\ i \in Nat /\ times[v][i] \in Nat /\ conn.next[v] >= conn.cut[v]
      BY <2>1, ConnNumbers, TimesNumbers DEF Replayed
    <3>2. i < conn.next[v]
      BY <2>1, <2>7, <3>1, ConnNumbers
    <3>3. times[v][i] > 0
      BY <2>1, <2>7, <3>2 DEF Replayed
    <3> QED BY <2>4, <3>1, <3>3
  <2>8. \A u \in Uris : conn.cut[u] <= logged'[u]
    BY <2>1, <2>2 DEF Replayed
  <2> QED BY <2>4, <2>6, <2>7, <2>8 DEF Replayed
<1> QED BY <1>4, <1>5, <1>6, <1>7, <1>8, <1>9, <1>10, <1>11, PrefixCases

-------------------------------------------------------------------------------
\* The publishers that are on their way when the forwarders start.

LEMMA ReadyAppend ==
    ASSUME ready \in Seq(Publishers), NEW p \in Publishers
    PROVE  /\ Len(Append(ready, p)) = Len(ready) + 1 /\ Len(ready) \in Nat
           /\ DOMAIN Append(ready, p) = DOMAIN ready \cup {Len(ready) + 1} /\ DOMAIN ready = 1..Len(ready)
           /\ \A k \in DOMAIN ready : Append(ready, p)[k] = ready[k]
           /\ Append(ready, p)[Len(ready) + 1] = p
OBVIOUS

LEMMA ReadyTail ==
    ASSUME ready \in Seq(Publishers), ready # <<>>
    PROVE  /\ Len(Tail(ready)) = Len(ready) - 1 /\ Len(ready) \in Nat \ {0}
           /\ DOMAIN Tail(ready) = 1..(Len(ready) - 1) /\ DOMAIN ready = 1..Len(ready)
           /\ \A k \in 1..(Len(ready) - 1) : k + 1 \in 1..Len(ready) /\ Tail(ready)[k] = ready[k + 1]
OBVIOUS

LEMMA BehindNext ==
    ASSUME Wired, ConnTypes, ConnTypes', FanTypes, Forwarders, Handled, Bounded, Started, Cursors, Replayed, Behind,
           [SceneNext]_allVars
    PROVE  Behind'
<1>0. StreamTypes /\ Within /\ Grows /\ scope' = scope /\ ready \in Seq(Publishers)
  BY SceneGrows DEF Wired, StreamTypes
<1>1. \A u \in Uris : logged[u] \in Nat
  BY <1>0 DEF StreamTypes
<1> SUFFICES ASSUME kind = "prefix", conn'.phase = "starting" PROVE Behind'
  BY <1>0 DEF Behind, kind
\* A step that leaves alone what the invariant is about.
<1>2. ASSUME conn' = conn, UNCHANGED <<ready, logged>> PROVE Behind'
  BY <1>0, <1>2 DEF Behind, kind
<1>3. ASSUME NEW u \in Uris, Patch(u), conn' = conn PROVE Behind'
  <2>1. PICK p \in Publishers : p = NewPublisher(u, logged[u])
    BY <1>0, <1>3, PatchTypes
  <2>2. /\ ready' = Append(ready, p)
        /\ \A v \in Uris : logged'[v] = IF v = u THEN logged[v] + 1 ELSE logged[v]
    BY <1>0, <1>3, <2>1, PatchTypes DEF Patch
  <2>3. p.lists = 0 /\ p.uri = u /\ p.index = logged[u]
    BY <2>1 DEF NewPublisher
  <2>4. conn \in OnConns /\ conn.phase = "starting"
    BY <1>3, Conn DEF On
  <2>5. /\ \A v \in Uris : conn.went[v] \in Nat /\ conn.next[v] \in Nat
        /\ conn.ahead \in Nat /\ conn.ahead <= Len(ready) /\ Len(ready) \in Nat
        /\ \A v \in Uris : conn.next[v] <= conn.went[v] /\ conn.went[v] <= logged[v]
    BY <1>0, <2>4, ConnNumbers DEF Behind
  <2>6. ready' \in Seq(Publishers) /\ Len(ready') = Len(ready) + 1 /\ DOMAIN ready' = DOMAIN ready \cup {Len(ready) + 1}
        /\ (\A k \in DOMAIN ready : ready'[k] = ready[k]) /\ ready'[Len(ready) + 1] = p
    BY <1>0, <2>2, ReadyAppend
  <2>7. conn.ahead <= Len(ready') /\ Len(ready) + 1 > conn.ahead
    BY <2>5, <2>6
  <2>8. \A v \in Uris : conn.went[v] <= logged'[v]
    BY <1>1, <2>2, <2>5
  <2>9. ASSUME NEW v \in Uris, NEW i \in conn.went[v]..(logged'[v] - 1)
        PROVE  \E k \in DOMAIN ready' : k > conn.ahead /\ ready'[k] = NewPublisher(v, i)
    <3>1. CASE v = u /\ i = logged[u]
      BY <2>1, <2>6, <2>7, <3>1
    <3>2. CASE ~(v = u /\ i = logged[u])
      <4>1. i \in conn.went[v]..(logged[v] - 1)
        BY <1>1, <2>2, <2>5, <3>2
      <4> QED BY <1>0, <2>4, <2>6, <4>1 DEF Behind
    <3> QED BY <3>1, <3>2
  <2>10. ASSUME NEW k \in DOMAIN ready', ready'[k].lists = 0, ready'[k].index < conn.went[ready'[k].uri]
         PROVE  k <= conn.ahead
    <3>1. CASE k = Len(ready) + 1
      <4>1. logged[u] < conn.went[u] /\ conn.went[u] <= logged[u]
        BY <2>3, <2>5, <2>6, <2>10, <3>1
      <4> QED BY <1>1, <2>5, <4>1
    <3>2. CASE k \in DOMAIN ready
      BY <2>4, <2>6, <2>10, <3>2 DEF Behind
    <3> QED BY <2>6, <3>1, <3>2
  <2> QED BY <1>3, <2>5, <2>7, <2>8, <2>9, <2>10 DEF Behind
<1>4. CASE Elsewhere
  <2>1. conn' = conn
    BY <1>4 DEF Elsewhere, prefixVars
  <2>2. (\E u \in Uris : Patch(u)) \/ UNCHANGED <<ready, logged>>
    BY <1>4 DEF Elsewhere, vars, streamVars, AddEntanglement, NextList, EnqueueNext, PublishDone
  <2> QED BY <1>2, <1>3, <2>1, <2>2
<1>5. ASSUME NEW u \in Uris, Create(u) PROVE Behind'
  BY <1>2, <1>5 DEF Create, vars, streamVars
<1>6. \A u \in Uris : ~Forward(u) /\ ~FanPut(u)
  BY DEF Forward, FanPut, Live
<1>7. \A mode, resume : ~OpenStream(mode, resume)
  BY DEF OpenStream
<1>8. CASE RunPublisher
  <2>1. RunNext /\ conn'.phase = conn.phase
    BY <1>8, RunPublisherEffect
  <2>2. conn \in OnConns /\ conn.phase = "starting" /\ conn.ahead > 0 /\ conn' = [conn EXCEPT !.ahead = @ - 1]
    BY <1>8, <2>1, Conn, RunPublisherEffect DEF On
  <2>3. conn'.ahead = conn.ahead - 1 /\ conn'.next = conn.next /\ conn'.went = conn.went
    BY <2>2 DEF OnConns
  <2>4. ready # <<>> /\ ready' = Tail(ready) /\ logged' = logged
    BY <2>1 DEF RunNext
  <2>5. /\ Len(ready') = Len(ready) - 1 /\ Len(ready) \in Nat \ {0}
        /\ DOMAIN ready' = 1..(Len(ready) - 1) /\ DOMAIN ready = 1..Len(ready)
        /\ \A k \in 1..(Len(ready) - 1) : k + 1 \in 1..Len(ready) /\ ready'[k] = ready[k + 1]
    BY <1>0, <2>4, ReadyTail
  <2>6. conn.ahead \in Nat /\ conn.ahead <= Len(ready) /\ conn.ahead # 0
    BY <2>2, ConnNumbers DEF Behind
  <2>7. conn'.ahead <= Len(ready')
    BY <2>3, <2>5, <2>6
  <2>8. ASSUME NEW v \in Uris, NEW i \in conn.went[v]..(logged[v] - 1)
        PROVE  \E k \in DOMAIN ready' : k > conn.ahead - 1 /\ ready'[k] = NewPublisher(v, i)
    <3>1. PICK k \in DOMAIN ready : k > conn.ahead /\ ready[k] = NewPublisher(v, i)
      BY <2>2 DEF Behind
    <3>2. PICK l \in 1..(Len(ready) - 1) : l = k - 1
      BY <2>5, <2>6, <3>1
    <3>3. l > conn.ahead - 1 /\ k = l + 1
      BY <2>5, <2>6, <3>1, <3>2
    <3> QED BY <2>5, <3>1, <3>3
  <2>9. ASSUME NEW k \in DOMAIN ready', ready'[k].lists = 0, ready'[k].index < conn.went[ready'[k].uri]
        PROVE  k <= conn.ahead - 1
    <3>1. k + 1 \in DOMAIN ready /\ ready'[k] = ready[k + 1]
      BY <2>5
    <3>2. k + 1 <= conn.ahead
      BY <2>2, <2>9, <3>1 DEF Behind
    <3> QED BY <2>5, <2>6, <3>2
  <2>10. \A u \in Uris : conn.next[u] <= conn.went[u] /\ conn.went[u] <= logged[u]
    BY <2>2 DEF Behind
  <2> QED BY <2>3, <2>4, <2>7, <2>8, <2>9, <2>10 DEF Behind
<1>9. ~StartForwarders
  BY <1>0, StartEffect DEF Live
<1>10. ~CloseStream
  BY <1>0, CloseEffect
<1>11. CASE NextRow
  <2>1. conn \in OnConns /\ conn.phase \in {"called", "replay"} /\ UNCHANGED vars
    BY <1>0, <1>11, RowSteps
  <2>2. GoesLive
    <3>1. conn' # [no |-> conn.no, phase |-> "off"]
      OBVIOUS
    <3>2. \A u \in Uris : ~RowOf(u)
      BY DEF RowOf
    <3> QED BY <1>0, <1>11, <3>1, <3>2, RowSteps
  <2>3. conn'.next = conn.next /\ conn'.went = logged /\ conn'.ahead = Len(ready) /\ logged' = logged /\ ready' = ready
    BY <2>1, <2>2 DEF GoesLive, vars, streamVars
  <2>4. \A u \in Uris : conn.next[u] <= logged[u]
    BY <2>1 DEF Cursors, On
  <2>5. Len(ready) \in Nat /\ DOMAIN ready = 1..Len(ready)
    BY <1>0
  <2>6. \A u \in Uris : logged[u]..(logged[u] - 1) = {}
    BY <1>1
  <2> QED BY <1>1, <2>3, <2>4, <2>5, <2>6 DEF Behind
<1>12. ~NextLive
  <2>1. NextLive => conn'.phase = "live"
    BY <1>0, HearsStep DEF Hears
  <2> QED BY <2>1
<1> QED BY <1>4, <1>5, <1>6, <1>7, <1>8, <1>9, <1>10, <1>11, <1>12, PrefixCases

-------------------------------------------------------------------------------
\* What comes to the stream of a forwarder while it runs.

LEMMA OpenViews ==
    ASSUME Wired, [StreamNext]_vars, sub' = sub, NEW s \in Subs, sub[s].phase = "open"
    PROVE  /\ sub[s] \in OpenStates /\ logged[sub[s].uri] \in Nat
           /\ Same(s) \/ Learns(s) \/ Receives(s) \/ Gets(s)
<1>1. sub[s] \in OpenStates /\ logged[sub[s].uri] \in Nat
  BY PhasesOfStreams DEF Wired, StreamTypes, OpenStates
<1>2. ~Opens(s) /\ ~Announces(s) /\ ~Begins(s)
  BY DEF Opens, Announces, Begins
<1>3. ~Replays(s)
  <2>1. Replays(s) => sub'[s].next = sub[s].next + 1
    BY DEF Replays, OpenStates
  <2> QED BY <1>1, <2>1 DEF OpenStates
<1> QED BY <1>1, <1>2, <1>3, Views DEF Active, Turns

LEMMA AllFromNext ==
    ASSUME Wired, [StreamNext]_vars, sub' = sub, NEW s \in Subs,
           sub[s].phase = "open", sub[s].mode = "block", sub[s].cutoff = 0, NEW w \in Nat, AllFrom(s, w)
    PROVE  AllFrom(s, w)'
<1>0. StreamTypes /\ logged[sub[s].uri] \in Nat
  BY OpenViews DEF Wired
<1>1. Same(s) \/ Learns(s) \/ Receives(s) \/ Gets(s)
  BY OpenViews
<1> SUFFICES ASSUME NEW i \in w..(logged'[sub[s].uri] - 1)
             PROVE  i \in OwnIndices(s)' \/ InQueue(s, i)' \/ i \in Coming(s)'
  BY DEF AllFrom
<1>2. CASE Same(s)
  <2>1. i \in OwnIndices(s) \/ InQueue(s, i) \/ i \in Coming(s)
    BY <1>2 DEF Same, AllFrom
  <2>2. InQueue(s, i)' <=> InQueue(s, i)
    BY <1>2 DEF Same, InQueue
  <2> QED BY <1>2, <2>1, <2>2, OwnSame DEF Same
<1>3. CASE Learns(s)
  <2>1. OwnIndices(s)' = OwnIndices(s) /\ (InQueue(s, i)' <=> InQueue(s, i))
    BY <1>3, OwnSame DEF Learns, InQueue
  <2>2. i # logged[sub[s].uri] => i \in w..(logged[sub[s].uri] - 1)
    BY <1>0, <1>3 DEF Learns
  <2> QED BY <1>3, <2>1, <2>2 DEF Learns, AllFrom
<1>4. CASE Receives(s)
  <2>1. logged' = logged /\ queue'[s] = Append(queue[s], Payload(running)) /\ got'[s] = got[s] /\ running \in Publishers
    BY <1>4 DEF Receives
  <2>2. Payload(running) \in Payloads /\ Payload(running).uri = running.uri /\ Payload(running).index = running.index
    BY <2>1 DEF Payload, Payloads, Publishers
  <2>3. InQueue(s, i)' <=> InQueue(s, i) \/ (running.uri = sub[s].uri /\ running.index = i)
    BY <1>0, <2>1, <2>2, QueuedMore
  <2>4. i \in Coming(s) => i \in Coming(s)' \/ InQueue(s, i)'
    BY <1>4, <2>3 DEF Receives, Brings
  <2> QED BY <2>1, <2>3, <2>4, OwnSame DEF AllFrom
<1>5. CASE Gets(s)
  <2>1. i \in OwnIndices(s) \/ InQueue(s, i) \/ i \in Coming(s)
    BY <1>5 DEF Gets, AllFrom
  <2>2. OwnIndices(s) \subseteq OwnIndices(s)'
    BY <1>0, <1>5, GetsFrom, OwnAppended, OwnSame
  <2>3. i \in Nat /\ i >= sub[s].cutoff /\ Coming(s)' = Coming(s)
    BY <1>5 DEF Gets
  <2> QED BY <1>0, <1>5, <2>1, <2>2, <2>3, GetsKeeps
<1> QED BY <1>1, <1>2, <1>3, <1>4, <1>5

LEMMA NotBeforeNext ==
    ASSUME Wired, [StreamNext]_vars, sub' = sub, NEW s \in Subs, sub[s].phase = "open",
           ~SelfLinked(sub[s].uri), NEW w \in Nat, w <= logged[sub[s].uri], NotBefore(s, w)
    PROVE  NotBefore(s, w)'
<1>0. StreamTypes
  BY DEF Wired
<1>1. Same(s) \/ Learns(s) \/ Receives(s) \/ Gets(s)
  BY OpenViews
<1>2. CASE Same(s) \/ Learns(s)
  <2>1. got'[s] = got[s] /\ queue'[s] = queue[s] /\ Coming(s)' \subseteq Coming(s) \cup {logged[sub[s].uri]}
    BY <1>2 DEF Same, Learns
  <2>2. OwnIndices(s)' = OwnIndices(s) /\ OwnQueued(s)' = OwnQueued(s)
    BY <2>1, OwnSame DEF OwnQueued
  <2> QED BY <2>1, <2>2 DEF NotBefore
<1>3. CASE Receives(s)
  <2>1. running.uri = sub[s].uri => running.index \in Coming(s)
    BY <1>3 DEF Receives, SelfLinked
  <2>2. OwnIndices(s)' = OwnIndices(s) /\ Coming(s)' \subseteq Coming(s)
    BY <1>3, OwnSame DEF Receives
  <2>3. PICK d \in Nat : \A k \in DOMAIN queue'[s] :
            /\ k \in Nat
            /\ \/ k + d \in DOMAIN queue[s] /\ queue'[s][k] = queue[s][k + d]
               \/ k + d = Len(queue[s]) + 1 /\ queue'[s][k] = Payload(running)
    BY <1>0, <1>3, ReceivesInto
  <2>4. Payload(running).uri = running.uri /\ Payload(running).index = running.index
    BY <1>0, <1>3, ReceivesInto
  <2>5. ASSUME NEW k \in OwnQueued(s)' PROVE queue'[s][k].index >= w
    BY <2>1, <2>3, <2>4, <2>5 DEF OwnQueued, NotBefore
  <2> QED BY <2>2, <2>5 DEF NotBefore
<1>4. CASE Gets(s)
  <2>1. PICK n \in 1..Len(queue[s]) :
            /\ queue[s][n] \in Payloads
            /\ \/ ~Passes(s, queue[s][n]) /\ got'[s] = got[s]
               \/ Passes(s, queue[s][n]) /\ got'[s] = Append(got[s], queue[s][n])
            /\ DOMAIN queue'[s] = 1..(Len(queue[s]) - n) /\ DOMAIN queue[s] = 1..Len(queue[s])
            /\ \A i \in DOMAIN queue'[s] : n + i \in DOMAIN queue[s] /\ queue'[s][i] = queue[s][n + i]
    BY <1>0, <1>4, GetsFrom
  <2>2. Coming(s)' = Coming(s)
    BY <1>4 DEF Gets
  <2>3. PICK e \in Payloads : e = queue[s][n]
    BY <2>1
  <2>4. e.uri = sub[s].uri => e.index >= w
    BY <2>1, <2>3 DEF OwnQueued, NotBefore
  <2>5. \/ OwnIndices(s)' = OwnIndices(s)
        \/ OwnIndices(s)' = OwnIndices(s) \cup (IF e.uri = sub[s].uri THEN {e.index} ELSE {})
    BY <1>0, <2>1, <2>3, OwnAppended, OwnSame
  <2>6. \A k \in OwnQueued(s)' : queue'[s][k].index >= w
    BY <2>1 DEF OwnQueued, NotBefore
  <2> QED BY <2>2, <2>4, <2>5, <2>6 DEF NotBefore
<1> QED BY <1>1, <1>2, <1>3, <1>4

-------------------------------------------------------------------------------
\* What a forwarder took is in one place: its hand, fan_in, or the client's.

LEMMA CarriesOver ==
    ASSUME Wired, Grows, [StreamNext]_vars, sub' = sub, NEW u \in Uris, NEW s \in Subs,
           sub[s].phase = "open", sub[s].uri = u, sub[s].mode = conn.mode, sub[s].cutoff = 0,
           NEW w \in Nat, Carries(u, s, w), conn'.mode = conn.mode,
           HandedAll(u, s)', ~SelfLinked(u) => HandedOnce(u, s, w)'
    PROVE  Carries(u, s, w)'
<1>1. logged[u] \in Nat /\ w <= logged[u] /\ w <= logged'[u]
  <2>1. logged[u] \in Nat /\ logged'[u] \in Nat /\ logged[u] <= logged'[u]
    BY WiredNext DEF Wired, StreamTypes, Grows
  <2> QED BY <2>1 DEF Carries
<1>2. conn'.mode = "block" => AllFrom(s, w)'
  BY AllFromNext DEF Carries
<1>3. SelfLinked(u) => SelfLinked(u)'
  BY DEF SelfLinked, Grows
<1>4. ~SelfLinked(u) => NotBefore(s, w)'
  BY <1>1, NotBeforeNext DEF Carries
<1> QED BY <1>1, <1>2, <1>3, <1>4 DEF Carries

LEMMA HandedStill ==
    ASSUME NEW u \in Uris, NEW s \in Subs, NEW w, OwnIndices(s)' = OwnIndices(s),
           times'[u] = times[u], held'[u] = held[u], InFan(u)' = InFan(u), \A k \in InFan(u) : fan'[k] = fan[k]
    PROVE  /\ HandedAll(u, s) => HandedAll(u, s)'
           /\ HandedOnce(u, s, w) => HandedOnce(u, s, w)'
<1>1. InHand(u)' <=> InHand(u)
  BY DEF InHand
<1>2. HandedAll(u, s) => HandedAll(u, s)'
  BY <1>1 DEF HandedAll
<1>3. HandedOnce(u, s, w) => HandedOnce(u, s, w)'
  BY <1>1 DEF HandedOnce
<1> QED BY <1>2, <1>3

\* The forwarder takes an event.
LEMMA HandedTaken ==
    ASSUME Wired, FanTypes, Bounded, NEW u \in Uris, NEW s \in Subs, sub[s].phase = "open", sub[s].uri = u,
           sub[s].cutoff = 0, Once(s), Gets(s), NEW w \in Nat, NEW e \in Payloads, e.index < logged[e.uri],
           got'[s] = Append(got[s], e), held[u] = None, held' = [held EXCEPT ![u] = e], UNCHANGED <<fan, times>>
    PROVE  /\ HandedAll(u, s) => HandedAll(u, s)'
           /\ HandedOnce(u, s, w) /\ NotBefore(s, w) /\ ~SelfLinked(u) => HandedOnce(u, s, w)'
<1>0. StreamTypes /\ sub'[s] = sub[s]
  BY DEF Wired, Gets
<1>1. /\ OwnIndices(s)' = OwnIndices(s) \cup (IF e.uri = u THEN {e.index} ELSE {})
      /\ held'[u] = e /\ e # None /\ e.index \in Nat
      /\ ~InHand(u) /\ (InHand(u)' <=> e.uri = u)
  <2>1. OwnIndices(s)' = OwnIndices(s) \cup (IF e.uri = u THEN {e.index} ELSE {})
    BY <1>0, OwnAppended
  <2>2. held'[u] = e /\ e # None /\ e.index \in Nat
    BY HeldAssumption DEF FanTypes, Payloads
  <2> QED BY <2>1, <2>2 DEF InHand
<1>2. InFan(u)' = InFan(u)
  BY DEF InFan
<1>3. HandedAll(u, s) => HandedAll(u, s)'
  BY <1>1, <1>2 DEF HandedAll
<1>4. ASSUME HandedOnce(u, s, w), NotBefore(s, w), ~SelfLinked(u) PROVE HandedOnce(u, s, w)'
  <2>1. PICK n \in 1..Len(queue[s]) :
            /\ queue[s][n] \in Payloads
            /\ \/ ~Passes(s, queue[s][n]) /\ got'[s] = got[s]
               \/ Passes(s, queue[s][n]) /\ got'[s] = Append(got[s], queue[s][n])
            /\ DOMAIN queue[s] = 1..Len(queue[s])
    BY <1>0, GetsFrom
  <2>2. e = queue[s][n]
    <3>1. PICK t \in Seq(Payloads) : t = got[s]
      BY <1>0 DEF StreamTypes
    <3>2. PICK x \in Payloads : x = queue[s][n]
      BY <2>1
    <3>3. Append(t, e)[Len(t) + 1] = e /\ Append(t, x)[Len(t) + 1] = x /\ Len(Append(t, e)) = Len(t) + 1 /\ Len(t) \in Nat
      OBVIOUS
    <3>4. Append(t, e) # t
      BY <3>3
    <3>5. Append(t, e) = Append(t, x)
      BY <2>1, <3>1, <3>2, <3>4
    <3> QED BY <3>2, <3>3, <3>5
  <2>3. QueuedOnce(s) /\ ReceivedOnce(s)
    BY <1>4 DEF Once, Active
  <2>4. e.uri = u => n \in OwnQueued(s) /\ e.index >= w /\ e.index \notin OwnIndices(s)
    BY <1>1, <1>4, <2>1, <2>2, <2>3 DEF OwnQueued, NotBefore, ReceivedOnce
  <2>5. e.uri = u => times[u][e.index] = 0
    <3>1. SUFFICES ASSUME e.uri = u PROVE times[u][e.index] = 0
      OBVIOUS
    <3>2. e.index \in Indices
      BY <1>0, <1>1, <3>1, LoggedIndices
    <3>3. times[u][e.index] \in Nat
      BY <3>2, TimesNumbers
    <3>4. ~(times[u][e.index] > 0)
      BY <1>4, <2>4, <3>1, <3>2 DEF HandedOnce
    <3> QED BY <3>3, <3>4
  <2>6. \A k \in InFan(u) : fan[k].index \in OwnIndices(s) /\ (e.uri = u => fan[k].index # e.index)
    BY <1>4, <2>4 DEF HandedOnce
  <2>7. \A k \in InFan(u)' : fan'[k].index \in OwnIndices(s)' /\ times'[u][fan'[k].index] = 0
    BY <1>1, <1>2, <1>4, <2>6 DEF HandedOnce
  <2>8. InHand(u)' => /\ held'[u].index \in OwnIndices(s)' /\ times'[u][held'[u].index] = 0
                      /\ \A k \in InFan(u)' : fan'[k].index # held'[u].index
    BY <1>1, <1>2, <2>5, <2>6
  <2>9. \A i \in Indices : times'[u][i] > 0 /\ i >= w => i \in OwnIndices(s)'
    BY <1>1, <1>4 DEF HandedOnce
  <2> QED BY <1>2, <1>4, <2>7, <2>8, <2>9 DEF HandedOnce
<1> QED BY <1>3, <1>4

\* It puts the event into fan_in.
LEMMA HandedPut ==
    ASSUME FanTypes, NEW u \in Uris, NEW s \in Subs, NEW w, OwnIndices(s)' = OwnIndices(s), times' = times,
           held[u] # None, held'[u] = None, NEW item \in FanItems, fan' = Append(fan, item),
           item.via = u, item.uri = held[u].uri, item.index = held[u].index
    PROVE  /\ HandedAll(u, s) => HandedAll(u, s)'
           /\ HandedOnce(u, s, w) => HandedOnce(u, s, w)'
<1>1. /\ DOMAIN fan' = DOMAIN fan \cup {Len(fan) + 1} /\ Len(fan) + 1 \notin DOMAIN fan
      /\ (\A k \in DOMAIN fan : fan'[k] = fan[k]) /\ fan'[Len(fan) + 1] = item
  BY FanAppend DEF FanTypes
<1>2. ~InHand(u)' /\ (InHand(u) <=> item.uri = u)
  BY DEF InHand
<1>3. InFan(u)' = InFan(u) \cup (IF InHand(u) THEN {Len(fan) + 1} ELSE {})
  BY <1>1, <1>2 DEF InFan
<1>4. \A k \in InFan(u) : k \in DOMAIN fan /\ fan'[k] = fan[k] /\ k # Len(fan) + 1
  BY <1>1 DEF InFan
<1>5. HandedAll(u, s) => HandedAll(u, s)'
  <2> SUFFICES ASSUME HandedAll(u, s), NEW i \in OwnIndices(s)
               PROVE  times[u][i] > 0 \/ \E k \in InFan(u)' : fan'[k].index = i
    BY DEF HandedAll
  <2>1. CASE InHand(u) /\ held[u].index = i
    BY <1>1, <1>3, <2>1
  <2>2. CASE \E k \in InFan(u) : fan[k].index = i
    BY <1>3, <1>4, <2>2
  <2> QED BY <2>1, <2>2 DEF HandedAll
<1>6. ASSUME HandedOnce(u, s, w) PROVE HandedOnce(u, s, w)'
  <2>1. InHand(u) => /\ item.index \in OwnIndices(s) /\ times[u][item.index] = 0
                     /\ \A k \in InFan(u) : fan[k].index # item.index
    BY <1>6 DEF HandedOnce
  <2>2. \A k \in InFan(u)' : fan'[k].index \in OwnIndices(s) /\ times[u][fan'[k].index] = 0
    BY <1>1, <1>3, <1>4, <1>6, <2>1 DEF HandedOnce
  <2>3. \A k, l \in InFan(u)' : k # l => fan'[k].index # fan'[l].index
    BY <1>1, <1>3, <1>4, <1>6, <2>1 DEF HandedOnce
  <2> QED BY <1>2, <1>6, <2>2, <2>3 DEF HandedOnce
<1> QED BY <1>5, <1>6

\* The client gets it.
LEMMA HandedHeard ==
    ASSUME StreamTypes, FanTypes, Handled, Bounded, NEW u \in Uris, NEW s \in Subs, NEW w,
           OwnIndices(s)' = OwnIndices(s), \A i \in OwnIndices(s) : i \in Indices,
           held' = held, NEW item \in FanItems, Hears(item)
    PROVE  /\ HandedAll(u, s) => HandedAll(u, s)'
           /\ HandedOnce(u, s, w) => HandedOnce(u, s, w)'
<1>1. /\ fan \in Seq(FanItems) /\ fan # <<>> /\ item = fan[1] /\ 1 \in DOMAIN fan /\ Len(fan) \in Nat
      /\ DOMAIN fan' = 1..(Len(fan) - 1) /\ DOMAIN fan = 1..Len(fan)
      /\ \A k \in DOMAIN fan' : k \in Nat /\ k + 1 \in DOMAIN fan /\ k + 1 # 1 /\ fan'[k] = fan[k + 1]
  BY FanHead DEF Hears, FanTypes
<1>2. 1 \in InFan(u) <=> item.via = u /\ item.uri = u
  BY <1>1 DEF InFan
<1>3. /\ item.index \in Indices
      /\ \A j \in Indices : times'[u][j] = IF 1 \in InFan(u) /\ j = item.index THEN times[u][j] + 1 ELSE times[u][j]
  BY <1>2 DEF Hears
<1>4. \A k \in InFan(u)' : k \in Nat /\ k + 1 \in InFan(u) /\ k + 1 # 1 /\ fan'[k] = fan[k + 1]
  BY <1>1 DEF InFan
<1>5. \A k \in InFan(u) : k # 1 => k - 1 \in InFan(u)' /\ fan'[k - 1] = fan[k]
  <2> SUFFICES ASSUME NEW k \in InFan(u), k # 1 PROVE k - 1 \in InFan(u)' /\ fan'[k - 1] = fan[k]
    OBVIOUS
  <2>1. PICK l \in DOMAIN fan' : l = k - 1
    BY <1>1 DEF InFan
  <2>2. fan'[l] = fan[k]
    BY <1>1, <2>1 DEF InFan
  <2> QED BY <2>1, <2>2 DEF InFan
<1>6. InHand(u)' <=> InHand(u)
  BY DEF InHand
<1>7. \A k \in InFan(u) : fan[k].index \in Indices
  <2>1. \A k \in DOMAIN fan : fan[k] \in FanItems /\ fan[k].index < logged[fan[k].uri]
    BY <1>1 DEF Handled
  <2> QED BY <2>1, LoggedIndices DEF InFan, FanItems
<1>8. \A j \in Indices : times[u][j] \in Nat
  BY TimesNumbers
<1>9. ASSUME HandedAll(u, s) PROVE HandedAll(u, s)'
  <2> SUFFICES ASSUME NEW i \in OwnIndices(s)
               PROVE  \/ times'[u][i] > 0
                      \/ \E k \in InFan(u)' : fan'[k].index = i
                      \/ InHand(u)' /\ held'[u].index = i
    BY DEF HandedAll
  <2>1. i \in Indices /\ times[u][i] \in Nat
    BY <1>8
  <2>2. CASE times[u][i] > 0
    BY <1>3, <2>1, <2>2
  <2>3. ASSUME NEW k \in InFan(u), fan[k].index = i
        PROVE  times'[u][i] > 0 \/ \E l \in InFan(u)' : fan'[l].index = i
    <3>1. CASE k = 1
      BY <1>1, <1>3, <2>1, <2>3, <3>1
    <3>2. CASE k # 1
      BY <1>5, <2>3, <3>2
    <3> QED BY <3>1, <3>2
  <2>4. CASE InHand(u) /\ held[u].index = i
    BY <1>6, <2>4
  <2> QED BY <1>9, <2>2, <2>3, <2>4 DEF HandedAll
<1>10. ASSUME HandedOnce(u, s, w) PROVE HandedOnce(u, s, w)'
  <2>1. \A k \in InFan(u) : fan[k].index \in OwnIndices(s) /\ times[u][fan[k].index] = 0
    BY <1>10 DEF HandedOnce
  <2>2. \A k, l \in InFan(u) : k # l => fan[k].index # fan[l].index
    BY <1>10 DEF HandedOnce
  <2>3. ASSUME NEW k \in InFan(u)' PROVE fan'[k].index \in OwnIndices(s) /\ times'[u][fan'[k].index] = 0
    <3>1. k + 1 \in InFan(u) /\ fan'[k] = fan[k + 1] /\ k + 1 # 1
      BY <1>4
    <3>2. 1 \in InFan(u) => fan[k + 1].index # item.index
      BY <1>1, <2>2, <3>1
    <3> QED BY <1>3, <1>7, <2>1, <3>1, <3>2
  <2>4. ASSUME NEW k \in InFan(u)', NEW l \in InFan(u)', k # l PROVE fan'[k].index # fan'[l].index
    <3>1. /\ k + 1 \in InFan(u) /\ fan'[k] = fan[k + 1] /\ l + 1 \in InFan(u) /\ fan'[l] = fan[l + 1]
          /\ k + 1 # l + 1
      BY <1>4, <2>4
    <3> QED BY <2>2, <3>1
  <2>5. ASSUME InHand(u)
        PROVE  /\ held[u].index \in OwnIndices(s) /\ times'[u][held[u].index] = 0
               /\ \A k \in InFan(u)' : fan'[k].index # held[u].index
    <3>1. /\ held[u].index \in OwnIndices(s) /\ times[u][held[u].index] = 0
          /\ \A k \in InFan(u) : fan[k].index # held[u].index
      BY <1>10, <2>5 DEF HandedOnce
    <3>2. 1 \in InFan(u) => item.index # held[u].index
      BY <1>1, <3>1
    <3>3. times'[u][held[u].index] = 0
      BY <1>3, <3>1, <3>2
    <3> QED BY <1>4, <3>1, <3>3
  <2>6. ASSUME NEW i \in Indices, times'[u][i] > 0, i >= w PROVE i \in OwnIndices(s)
    <3>1. CASE 1 \in InFan(u) /\ i = item.index
      BY <1>1, <2>1, <3>1
    <3>2. CASE ~(1 \in InFan(u) /\ i = item.index)
      BY <1>3, <1>10, <2>6, <3>2 DEF HandedOnce
    <3> QED BY <3>1, <3>2
  <2> QED BY <1>6, <2>3, <2>4, <2>5, <2>6 DEF HandedOnce
<1> QED BY <1>9, <1>10

\* The forwarder starts, with nothing behind it and everything since before it.
LEMMA CarriesFirst ==
    ASSUME Wired, ConnTypes, FanTypes, Forwarders, Handled, Started, Cursors, Behind, kind = "prefix", StartForwarders,
           NEW u \in Uris, u \in conn.uris, NEW s \in Subs, s = Mine(u), NEW w \in Nat, w = conn.went[u]
    PROVE  Carries(u, s, w)'
<1>0. StreamTypes /\ Quiet /\ Carried
  BY DEF Wired
<1>1. /\ conn \in OnConns /\ conn.phase = "starting" /\ conn.ahead = 0 /\ running = None
      /\ (\A x \in Subs : sub'[x] = IF x[2] = conn.no /\ x[1] \in conn.uris
                                      THEN Opened(x[1], conn.mode, logged[x[1]], 0) ELSE sub[x])
      /\ UNCHANGED <<graphVars, logged, queue, putters, ready, running, got, held, fan, times>>
  BY <1>0, StartEffect
<1>2. s[1] = u /\ s[2] = conn.no
  BY <1>1, MineIsSub DEF On
<1>3. sub[s].phase = "new" /\ sub'[s].uri = u
  BY <1>0, <1>1, <1>2, StartEffect, OpenedFields
<1>4. Carrying' = Carrying /\ Carrying = ToSet(ready) \cup UNION {Waiting(x) : x \in Subs}
  BY <1>1 DEF Carrying, Waiting
<1>5. ready \in Seq(Publishers) /\ Carrying \subseteq Publishers
  <2>1. \A x \in Subs : Waiting(x) \subseteq Publishers
    BY <1>0 DEF StreamTypes, Waiting, ToSet
  <2> QED BY <1>0, <1>4, <2>1 DEF StreamTypes, ToSet
<1>6. OwnIndices(s)' = {} /\ OwnQueued(s)' = {}
  <2>1. queue'[s] = <<>> /\ got'[s] = <<>>
    BY <1>0, <1>1, <1>3 DEF Quiet
  <2> QED BY <2>1 DEF OwnIndices, Own, OwnQueued
<1>7. InFan(u)' = {} /\ ~InHand(u)'
  <2>1. fan = <<>> /\ held[u] = None
    BY <1>1 DEF Handled, Live, Empty
  <2> QED BY <1>1, <2>1 DEF InFan, InHand
<1>8. /\ conn.next[u] \in Nat /\ conn.next[u] <= w /\ w <= logged[u]
      /\ \A i \in w..(logged[u] - 1) : \E k \in DOMAIN ready : ready[k] = NewPublisher(u, i)
      /\ \A k \in DOMAIN ready : ready[k].lists = 0 /\ ready[k].index < conn.went[ready[k].uri] => k <= 0
  BY <1>1, ConnNumbers DEF Behind
<1>9. AllFrom(s, w)'
  <2> SUFFICES ASSUME NEW i \in w..(logged[u] - 1) PROVE i \in Coming(s)'
    BY <1>1, <1>3 DEF AllFrom
  <2>1. PICK k \in DOMAIN ready : ready[k] = NewPublisher(u, i)
    BY <1>8
  <2>2. PICK p \in Publishers : p = ready[k]
    BY <1>5
  <2>3. p \in Carrying'
    BY <1>4, <2>2 DEF ToSet
  <2>4. p.index = i /\ p.uri = u /\ p.lists = 0
    BY <2>1, <2>2 DEF NewPublisher
  <2>5. Brings(p, s)'
    BY <1>3, <2>4 DEF Brings
  <2> QED BY <2>3, <2>4, <2>5 DEF Coming, IndicesOf
<1>10. NotBefore(s, w)'
  <2>1. ASSUME NEW p \in Carrying, Brings(p, s)' PROVE p.index >= w
    <3>1. p \in Publishers /\ Fits(p) /\ p.uri = u
      BY <1>0, <1>3, <1>5, <2>1 DEF Carried, Brings
    <3>2. p.lists = 0
      BY <1>3, <2>1, <3>1 DEF Fits, Brings
    <3>3. \A x \in Subs : p \notin Waiting(x)
      BY <3>2 DEF Started
    <3>4. PICK k \in DOMAIN ready : ready[k] = p
      BY <1>4, <3>3 DEF ToSet
    <3>5. ~(k <= 0)
      BY <1>5
    <3>6. ~(p.index < w)
      BY <1>8, <3>1, <3>2, <3>4, <3>5
    <3> QED BY <3>1, <3>6 DEF Publishers
  <2>2. \A i \in Coming(s)' : i >= w
    BY <1>4, <2>1 DEF Coming, IndicesOf
  <2> QED BY <1>6, <2>2 DEF NotBefore
<1>11. HandedOnce(u, s, w)'
  <2>1. ASSUME NEW i \in Indices, times[u][i] > 0, i >= w PROVE FALSE
    <3>1. i < conn.next[u] /\ i \in Nat
      BY <1>1, <2>1, TimesNumbers DEF Cursors, On
    <3> QED BY <1>8, <2>1, <3>1
  <2> QED BY <1>1, <1>7, <2>1 DEF HandedOnce
<1>12. HandedAll(u, s)'
  BY <1>6 DEF HandedAll
<1> QED BY <1>1, <1>8, <1>9, <1>10, <1>11, <1>12 DEF Carries

\* A step of the streams that touches neither hands nor fan_in nor what the client got.
LEMMA CarriesStill ==
    ASSUME Wired, Grows, [StreamNext]_vars, sub' = sub, NEW u \in Uris, NEW s \in Subs,
           sub[s].phase = "open", sub[s].uri = u, sub[s].mode = conn.mode, sub[s].cutoff = 0,
           NEW w \in Nat, Carries(u, s, w), conn'.mode = conn.mode,
           got'[s] = got[s], UNCHANGED <<times, held, fan>>
    PROVE  Carries(u, s, w)'
<1>1. OwnIndices(s)' = OwnIndices(s) /\ InFan(u)' = InFan(u)
  BY OwnSame DEF InFan
<1>2. HandedAll(u, s)' /\ (~SelfLinked(u) => HandedOnce(u, s, w)')
  BY <1>1, HandedStill DEF Carries
<1> QED BY <1>2, CarriesOver

\* What happens while the forwarders run.
LEMMA LiveSteps ==
    ASSUME Wired, ConnTypes, FanTypes, Forwarders, Handled, Bounded, Replayed, [SceneNext]_allVars,
           kind = "prefix", Live', ~StartForwarders
    PROVE  /\ Live /\ conn \in OnConns /\ [StreamNext]_vars /\ sub' = sub
           /\ conn'.no = conn.no /\ conn'.mode = conn.mode /\ conn'.uris = conn.uris /\ conn'.went = conn.went
           /\ \/ UNCHANGED <<times, held, fan, got>>
              \/ \E u \in Uris : Forward(u) \/ FanPut(u)
              \/ NextLive
<1>0. StreamTypes /\ Within
  BY DEF Wired
<1>1. ~CloseStream
  BY <1>0, CloseEffect DEF Live
<1>2. [StreamNext]_vars /\ sub' = sub
  BY <1>1, SceneSteps DEF StreamStep
<1>3. ~NextRow
  <2> SUFFICES ASSUME NextRow PROVE FALSE
    OBVIOUS
  <2>1. ~GoesLive
    BY DEF GoesLive, Live
  <2>2. \A u \in Uris : ~RowOf(u)
    BY DEF RowOf, Live
  <2>3. conn' # [no |-> conn.no, phase |-> "off"]
    BY DEF Live
  <2> QED BY <1>0, <2>1, <2>2, <2>3, RowSteps
<1>4. \A mode, resume : ~OpenStream(mode, resume)
  BY DEF OpenStream, Live
<1>5. CASE Elsewhere
  <2>1. conn' = conn /\ UNCHANGED <<times, held, fan>>
    BY <1>5 DEF Elsewhere, prefixVars
  <2>2. got' = got
    BY <1>5 DEF Elsewhere, vars, streamVars, AddEntanglement, NextList, EnqueueNext, PublishDone, Patch
  <2> QED BY <1>2, <2>1, <2>2, Conn DEF Live, On
<1>6. ASSUME NEW u \in Uris, Create(u) PROVE conn' = conn /\ UNCHANGED <<times, held, fan, got>>
  BY <1>6 DEF Create, vars, streamVars
<1>7. CASE RunPublisher
  <2>1. UNCHANGED <<times, held, fan, got>>
    BY <1>7, RunPublisherEffect DEF RunNext
  <2>2. conn'.phase = conn.phase /\ conn'.no = conn.no /\ conn'.mode = conn.mode /\ conn'.uris = conn.uris
        /\ conn'.went = conn.went
    BY <1>7, RunPublisherEffect
  <2> QED BY <1>2, <2>1, <2>2, Conn DEF Live, On
<1>8. ASSUME NEW u \in Uris, Forward(u) \/ FanPut(u) PROVE conn' = conn
  BY <1>8 DEF Forward, FanPut
<1>9. CASE NextLive
  <2>1. Live /\ conn \in OnConns /\ \E item \in FanItems : Hears(item)
    BY <1>0, <1>9, HearsStep
  <2> QED BY <1>2, <1>9, <2>1 DEF Hears
<1> QED BY <1>1, <1>2, <1>3, <1>4, <1>5, <1>6, <1>7, <1>8, <1>9, PrefixCases, Conn DEF Live, On

LEMMA ForwardedNext ==
    ASSUME Wired, \A s \in Subs : Once(s), ConnTypes, FanTypes, Forwarders, Handled, Started, Bounded, Cursors,
           Replayed, Behind, Forwarded, [SceneNext]_allVars
    PROVE  Forwarded'
<1>0. StreamTypes /\ StreamTypes' /\ Within /\ Grows /\ scope' = scope
  BY SceneGrows DEF Wired
<1> SUFFICES ASSUME kind = "prefix", Live' PROVE Forwarded'
  BY <1>0 DEF Forwarded, kind
<1>1. ASSUME conn'.no = conn.no, conn'.uris = conn.uris, conn'.went = conn.went, conn \in OnConns,
             \A u \in Uris : held'[u] # None => u \in conn.uris,
             \A k \in DOMAIN fan' : fan'[k].via \in conn.uris,
             \A u \in conn.uris : \A s \in Subs : \A w \in Nat :
                 s = Mine(u) /\ w = conn.went[u] => Carries(u, s, w)'
      PROVE  Forwarded'
  <2>1. ASSUME NEW u \in conn.uris PROVE Carries(u, Mine(u), conn.went[u])'
    <3>1. u \in Uris /\ conn.went[u] \in Nat
      BY <1>1, ConnNumbers
    <3>2. Mine(u) \in Subs
      BY <1>1, <3>1, MineIsSub DEF On, OnConns
    <3>3. PICK s \in Subs : s = Mine(u)
      BY <3>2
    <3>4. PICK w \in Nat : w = conn.went[u]
      BY <3>1
    <3>5. Carries(u, s, w)'
      BY <1>1, <3>3, <3>4
    <3>6. Mine(u)' = s /\ conn'.went[u] = w
      BY <1>1, <3>3, <3>4 DEF Mine
    <3> QED BY <3>5, <3>6
  <2> QED BY <1>1, <2>1 DEF Forwarded
<1>2. CASE StartForwarders
  <2>1. /\ conn \in OnConns /\ conn.phase = "starting"
        /\ conn'.no = conn.no /\ conn'.uris = conn.uris /\ conn'.went = conn.went
        /\ UNCHANGED <<held, fan>>
    BY <1>0, <1>2, StartEffect
  <2>2. fan = <<>> /\ \A u \in Uris : held[u] = None
    BY <2>1 DEF Handled, Live, Empty
  <2>3. \A u \in conn.uris : \A s \in Subs : \A w \in Nat : s = Mine(u) /\ w = conn.went[u] => Carries(u, s, w)'
    BY <1>2, <2>1, ConnNumbers, CarriesFirst
  <2> QED BY <1>1, <2>1, <2>2, <2>3
<1>3. CASE ~StartForwarders
  <2>1. /\ Live /\ conn \in OnConns /\ [StreamNext]_vars /\ sub' = sub
        /\ conn'.no = conn.no /\ conn'.mode = conn.mode /\ conn'.uris = conn.uris /\ conn'.went = conn.went
    BY <1>3, LiveSteps
  <2>2. /\ \A u \in Uris : held[u] # None => u \in conn.uris
        /\ \A k \in DOMAIN fan : fan[k].via \in conn.uris
        /\ \A u \in conn.uris : Carries(u, Mine(u), conn.went[u])
    BY <2>1 DEF Forwarded
  <2>3. ASSUME NEW u \in conn.uris, NEW s \in Subs, NEW w \in Nat, s = Mine(u), w = conn.went[u]
        PROVE  /\ u \in Uris /\ Carries(u, s, w) /\ Once(s)
               /\ sub[s].phase = "open" /\ sub[s].uri = u /\ sub[s].mode = conn.mode /\ sub[s].cutoff = 0
               /\ \A i \in OwnIndices(s) : i \in Indices
    <3>1. u \in Uris
      BY <2>1, ConnNumbers
    <3>2. s[1] = u /\ s[2] = conn.no
      BY <2>1, <2>3, <3>1, MineIsSub DEF On, Live
    <3>3. sub[s].phase = "open" /\ sub[s].uri = u /\ sub[s].mode = conn.mode /\ sub[s].cutoff = 0
      BY <2>1, <3>2 DEF Forwarders
    <3>4. ASSUME NEW i \in DOMAIN got[s], got[s][i].uri = u PROVE got[s][i].index \in Indices
      <4>1. got[s][i] \in Payloads
        BY <1>0 DEF StreamTypes
      <4>2. got[s][i].index < logged[u]
        BY <1>0, <3>4 DEF Within, Logged
      <4> QED BY <1>0, <3>1, <4>1, <4>2, LoggedIndices DEF Payloads
    <3>5. \A i \in OwnIndices(s) : i \in Indices
      BY <3>3, <3>4 DEF OwnIndices, Own
    <3> QED BY <2>2, <2>3, <3>1, <3>3, <3>5
  <2>4. CASE UNCHANGED <<times, held, fan, got>>
    <3>1. ASSUME NEW u \in conn.uris, NEW s \in Subs, NEW w \in Nat, s = Mine(u), w = conn.went[u]
          PROVE  Carries(u, s, w)'
      BY <1>0, <2>1, <2>3, <2>4, <3>1, CarriesStill
    <3> QED BY <1>1, <2>1, <2>2, <2>4, <3>1
  <2>5. ASSUME NEW v \in Uris, Forward(v) PROVE Forwarded'
    <3>1. v \in conn.uris /\ held[v] = None /\ Gets(Mine(v)) /\ UNCHANGED <<fan, times>>
      BY <1>0, <2>5, ForwardEffect
    <3>2. PICK e \in Payloads : /\ e.index < logged[e.uri] /\ got'[Mine(v)] = Append(got[Mine(v)], e)
                                /\ held' = [held EXCEPT ![v] = e]
      BY <1>0, <2>5, ForwardEffect
    <3>3. \A u \in Uris : u # v => held'[u] = held[u]
      BY <3>2 DEF FanTypes
    <3>4. ASSUME NEW u \in conn.uris, NEW s \in Subs, NEW w \in Nat, s = Mine(u), w = conn.went[u]
          PROVE  Carries(u, s, w)'
      <4>1. /\ u \in Uris /\ Carries(u, s, w) /\ Once(s)
            /\ sub[s].phase = "open" /\ sub[s].uri = u /\ sub[s].mode = conn.mode /\ sub[s].cutoff = 0
        BY <2>3, <3>4
      <4>2. CASE u = v
        <5>1. Gets(s)
          BY <3>1, <3>4, <4>2
        <5>2. got'[s] = Append(got[s], e) /\ held[u] = None /\ held' = [held EXCEPT ![u] = e]
          BY <3>1, <3>2, <3>4, <4>2
        <5>3. HandedAll(u, s)' /\ (~SelfLinked(u) => HandedOnce(u, s, w)')
          BY <3>1, <3>2, <4>1, <5>1, <5>2, HandedTaken DEF Carries
        <5> QED BY <1>0, <2>1, <4>1, <5>3, CarriesOver
      <4>3. CASE u # v
        <5>1. s # Mine(v)
          BY <3>4, <4>3 DEF Mine
        <5>2. OwnIndices(s)' = OwnIndices(s) /\ InFan(u)' = InFan(u)
          <6>1. got'[s] = got[s]
            BY <1>0, <2>5, <5>1, ForwardEffect
          <6> QED BY <2>1, <3>1, <6>1, OwnSame DEF InFan
        <5>3. HandedAll(u, s)' /\ (~SelfLinked(u) => HandedOnce(u, s, w)')
          BY <3>1, <3>3, <4>1, <4>3, <5>2, HandedStill DEF Carries
        <5> QED BY <1>0, <2>1, <4>1, <5>3, CarriesOver
      <4> QED BY <4>2, <4>3
    <3>5. \A u \in Uris : held'[u] # None => u \in conn.uris
      BY <2>2, <3>1, <3>3
    <3> QED BY <1>1, <2>1, <2>2, <3>1, <3>4, <3>5
  <2>6. ASSUME NEW v \in Uris, FanPut(v) PROVE Forwarded'
    <3>1. /\ held[v] # None /\ held[v] \in Payloads /\ UNCHANGED <<vars, times>>
          /\ \A u \in Uris : held'[u] = IF u = v THEN None ELSE held[u]
      BY <2>6, FanPutEffect
    <3>2. PICK item \in FanItems : /\ item.via = v /\ item.uri = held[v].uri /\ item.index = held[v].index
                                   /\ fan' = Append(fan, item)
      BY <2>6, FanPutEffect
    <3>3. /\ DOMAIN fan' = DOMAIN fan \cup {Len(fan) + 1} /\ Len(fan) + 1 \notin DOMAIN fan
          /\ (\A k \in DOMAIN fan : fan'[k] = fan[k]) /\ fan'[Len(fan) + 1] = item
      BY <3>2, FanAppend DEF FanTypes
    <3>4. ASSUME NEW u \in conn.uris, NEW s \in Subs, NEW w \in Nat, s = Mine(u), w = conn.went[u]
          PROVE  Carries(u, s, w)'
      <4>1. /\ u \in Uris /\ Carries(u, s, w)
            /\ sub[s].phase = "open" /\ sub[s].uri = u /\ sub[s].mode = conn.mode /\ sub[s].cutoff = 0
        BY <2>3, <3>4
      <4>2. OwnIndices(s)' = OwnIndices(s) /\ times' = times
        BY <2>1, <3>1, OwnSame DEF vars, streamVars
      <4>3. HandedAll(u, s)' /\ (~SelfLinked(u) => HandedOnce(u, s, w)')
        <5>1. CASE u = v
          <6>1. held[u] # None /\ held'[u] = None /\ item.via = u /\ item.uri = held[u].uri /\ item.index = held[u].index
            BY <3>1, <3>2, <4>1, <5>1
          <6> QED BY <3>2, <4>1, <4>2, <6>1, HandedPut DEF Carries
        <5>2. CASE u # v
          <6>1. held'[u] = held[u] /\ times'[u] = times[u]
            BY <3>1, <4>1, <4>2, <5>2
          <6>2. InFan(u)' = InFan(u) /\ \A k \in InFan(u) : fan'[k] = fan[k]
            BY <3>2, <3>3, <5>2 DEF InFan
          <6> QED BY <4>1, <4>2, <6>1, <6>2, HandedStill DEF Carries
        <5> QED BY <5>1, <5>2
      <4> QED BY <1>0, <2>1, <4>1, <4>3, CarriesOver
    <3>5. \A u \in Uris : held'[u] # None => u \in conn.uris
      BY <2>2, <3>1
    <3>6. \A k \in DOMAIN fan' : fan'[k].via \in conn.uris
      BY <2>2, <3>1, <3>2, <3>3
    <3> QED BY <1>1, <2>1, <3>4, <3>5, <3>6
  <2>7. CASE NextLive
    <3>1. UNCHANGED <<vars, held>>
      BY <1>0, <2>7, HearsStep
    <3>2. PICK item \in FanItems : Hears(item)
      BY <1>0, <2>7, HearsStep
    <3>3. fan # <<>> /\ fan' = Tail(fan) /\ fan \in Seq(FanItems)
      BY <3>2 DEF Hears, FanTypes
    <3>4. ASSUME NEW u \in conn.uris, NEW s \in Subs, NEW w \in Nat, s = Mine(u), w = conn.went[u]
          PROVE  Carries(u, s, w)'
      <4>1. /\ u \in Uris /\ Carries(u, s, w) /\ (\A i \in OwnIndices(s) : i \in Indices)
            /\ sub[s].phase = "open" /\ sub[s].uri = u /\ sub[s].mode = conn.mode /\ sub[s].cutoff = 0
        BY <2>3, <3>4
      <4>2. OwnIndices(s)' = OwnIndices(s)
        BY <2>1, <3>1, OwnSame DEF vars, streamVars
      <4>3. HandedAll(u, s)' /\ (~SelfLinked(u) => HandedOnce(u, s, w)')
        BY <1>0, <3>1, <3>2, <4>1, <4>2, HandedHeard DEF Carries
      <4> QED BY <1>0, <2>1, <4>1, <4>3, CarriesOver
    <3>5. \A k \in DOMAIN fan' : fan'[k].via \in conn.uris
      BY <2>2, <3>3, FanHead
    <3> QED BY <1>1, <2>1, <2>2, <3>1, <3>4, <3>5
  <2> QED BY <1>3, <2>4, <2>5, <2>6, <2>7, LiveSteps
<1> QED BY <1>2, <1>3

LEMMA NoRepeatNext ==
    ASSUME Wired, ConnTypes, FanTypes, Forwarders, Handled, Bounded, Cursors, Replayed, Forwarded, NoRepeat,
           [SceneNext]_allVars
    PROVE  NoRepeat'
<1>0. StreamTypes /\ Grows /\ scope' = scope
  BY SceneGrows DEF Wired
<1> SUFFICES ASSUME NEW u \in Uris, ~SelfLinked(u)', NEW i \in Indices PROVE times'[u][i] <= 1
  BY DEF NoRepeat, Indices
<1>1. ~SelfLinked(u)
  BY <1>0 DEF SelfLinked, Grows
<1>2. times[u][i] <= 1 /\ times[u][i] \in Nat /\ i \in Nat
  BY <1>1, TimesNumbers DEF NoRepeat, Indices
<1>3. CASE kind = "scene"
  <2>1. Handled'
    BY HandledNext
  <2> QED BY <1>0, <1>3, <2>1 DEF Handled, kind
<1>4. CASE kind = "prefix"
  <2>1. CASE UNCHANGED times
    BY <1>2, <2>1
  <2>2. CASE Elsewhere \/ RunPublisher
    BY <2>1, <2>2, RunPublisherEffect DEF Elsewhere, prefixVars
  <2>3. ASSUME NEW v \in Uris, Create(v) \/ Forward(v) \/ FanPut(v) PROVE UNCHANGED times
    BY <2>3 DEF Create, Forward, FanPut
  <2>4. ASSUME NEW mode, NEW resume, OpenStream(mode, resume) PROVE times'[u][i] <= 1
    BY <1>2, <2>4 DEF OpenStream, Indices
  <2>5. CASE StartForwarders \/ CloseStream
    BY <1>0, <2>1, <2>5, StartEffect, CloseEffect
  <2>6. CASE NextRow
    <3>1. conn \in OnConns /\ On
      BY <1>0, <2>6, RowSteps DEF On
    <3>2. ASSUME NEW v \in Uris, RowOf(v) PROVE times'[u][i] <= 1
      <4>1. times'[u][i] = IF u = v /\ i = conn.next[v] THEN times[v][conn.next[v]] + 1 ELSE times[u][i]
        BY <3>2 DEF RowOf
      <4>2. times[u][i] > 0 => i < conn.next[u]
        BY <1>4, <3>1 DEF Cursors
      <4>3. conn.next[u] \in Nat
        BY <3>1, ConnNumbers
      <4> QED BY <1>2, <4>1, <4>2, <4>3
    <3> QED BY <1>0, <2>1, <2>6, <3>2, RowSteps DEF GoesLive
  <2>7. CASE NextLive
    <3>1. Live /\ conn \in OnConns
      BY <1>0, <2>7, HearsStep
    <3>2. PICK item \in FanItems : Hears(item)
      BY <1>0, <2>7, HearsStep
    <3>3. times'[u][i] = IF item.via = item.uri /\ u = item.uri /\ i = item.index THEN times[u][i] + 1 ELSE times[u][i]
      BY <3>2 DEF Hears
    <3>4. ASSUME item.via = u, item.uri = u, i = item.index PROVE times[u][i] = 0
      <4>1. 1 \in DOMAIN fan /\ fan[1] = item
        BY <3>2, FanHead DEF Hears, FanTypes
      <4>2. 1 \in InFan(u) /\ u \in conn.uris
        BY <1>4, <3>1, <3>4, <4>1 DEF InFan, Forwarded
      <4>3. HandedOnce(u, Mine(u), conn.went[u])
        BY <1>1, <1>4, <3>1, <4>2 DEF Forwarded, Carries
      <4> QED BY <3>4, <4>1, <4>2, <4>3 DEF HandedOnce
    <3> QED BY <1>2, <3>3, <3>4
  <2> QED BY <1>4, <2>1, <2>2, <2>3, <2>4, <2>5, <2>6, <2>7, PrefixCases
<1> QED BY <1>3, <1>4, ScopeFields DEF kind

-------------------------------------------------------------------------------
\* The theorems.

LEMMA SceneInvInit == SceneInit => SceneInv
<1> SUFFICES ASSUME SceneInit PROVE SceneInv
  OBVIOUS
<1>1. Wired /\ Apart
  BY WiredInit, ApartInit DEF SceneInit
<1>2. \A s \in Subs : sub[s].phase = "new" /\ putters[s] = <<>>
  BY DEF SceneInit, StreamInit
<1>3. \A s \in Subs : Once(s)
  BY <1>2 DEF Once, Active
<1>4. conn.no = 0 /\ conn.phase = "off" /\ conn \in OffConns
  BY SubsAssumption DEF SceneInit, OffConns
<1>5. ConnTypes
  BY <1>4 DEF SceneInit, ConnTypes
<1>6. FanTypes
  <2>1. held \in [Uris -> Payloads \cup {None}] /\ times \in [Uris -> [Indices -> Nat]]
    BY DEF SceneInit, Indices
  <2>2. <<>> \in Seq(FanItems) /\ <<>> \in Seq(Positions)
    OBVIOUS
  <2> QED BY <2>1, <2>2 DEF SceneInit, FanTypes
<1>7. Forwarders
  BY <1>2, <1>4 DEF Forwarders, Live
<1>8. \A u \in Uris : held[u] = None /\ logged[u] = 0 /\ \A i \in Indices : times[u][i] = 0
  BY DEF SceneInit, StreamInit, Indices
<1>9. fan = <<>> /\ scene = <<>> /\ token = None
  BY DEF SceneInit
<1>10. Handled
  BY <1>8, <1>9 DEF Handled, Empty
<1>11. Started
  BY <1>2 DEF Started, Waiting, ToSet
<1>12. Bounded
  BY <1>8, StreamsBounds DEF Bounded
<1>13. Cursors
  BY <1>4, <1>9 DEF Cursors, On
<1>14. Replayed /\ Behind /\ Forwarded
  BY <1>4 DEF Replayed, Behind, Forwarded, Live
<1>15. NoRepeat
  BY <1>8 DEF NoRepeat, Indices
<1> QED BY <1>1, <1>3, <1>5, <1>6, <1>7, <1>10, <1>11, <1>12, <1>13, <1>14, <1>15 DEF SceneInv, SceneWired

LEMMA SceneInvNext == SceneInv /\ [SceneNext]_allVars => SceneInv'
<1> SUFFICES ASSUME SceneInv, [SceneNext]_allVars PROVE SceneInv'
  OBVIOUS
<1>0. /\ Wired /\ Apart /\ (\A s \in Subs : Once(s)) /\ ConnTypes /\ FanTypes /\ Forwarders /\ Handled /\ Started
      /\ Bounded /\ Cursors /\ Replayed /\ Behind /\ Forwarded /\ NoRepeat
  BY DEF SceneInv, SceneWired
<1>1. StreamTypes /\ Carried
  BY <1>0 DEF Wired
<1>2. Wired' /\ Apart' /\ \A s \in Subs : Once(s)'
  BY <1>0, SceneWiredNext, SceneApartNext, SceneOnceNext
<1>3. ConnTypes' /\ FanTypes'
  BY <1>0, <1>1, ConnTypesNext, FanTypesNext
<1>4. Forwarders' /\ Handled' /\ Started' /\ Bounded'
  BY <1>0, <1>1, ForwardersNext, HandledNext, BoundedNext
<1>5. Cursors' /\ Replayed' /\ Behind'
  BY <1>0, <1>3, <1>4, CursorsNext, ReplayedNext, BehindNext
<1>6. Forwarded' /\ NoRepeat'
  BY <1>0, ForwardedNext, NoRepeatNext
<1> QED BY <1>2, <1>3, <1>4, <1>5, <1>6 DEF SceneInv, SceneWired

LEMMA SceneInvHolds == SceneSpec => []SceneInv
BY SceneInvInit, SceneInvNext, PTL DEF SceneSpec

\* A publisher that comes to the stream of a forwarder comes to the client.
LEMMA ComingIsToCome ==
    ASSUME NEW u \in Uris, NEW s \in Subs, s = Mine(u), sub[s].uri = u, NEW i \in Coming(s)
    PROVE  ToCome(u, i)
BY DEF Coming, IndicesOf, Brings, ToCome

\* No client of a prefix stream gets an event of an object from that object's own stream
\* twice, however often it closes the stream and resumes with its last token.
THEOREM PrefixNoRepeat == SceneSpec => []NoRepeat
BY SceneInvHolds, PTL DEF SceneInv

\* A blocking prefix stream misses only what was published between the reading of the
\* logs and the start of the forwarders; everything else since its cursor the client has
\* or is still to get.
THEOREM PrefixMissesOnlyTheGap == SceneSpec => []OnlyTheGapIsMissed
<1>1. SceneInv => OnlyTheGapIsMissed
  <2> SUFFICES ASSUME SceneInv, kind = "prefix", conn.phase \in {"replay", "starting", "live"}, conn.mode = "block",
                      NEW u \in conn.uris, NEW i \in conn.start[u]..(logged[u] - 1)
               PROVE  \/ times[u][i] > 0
                      \/ i < conn.cut[u] /\ i >= conn.next[u] /\ conn.phase = "replay"
                      \/ i >= conn.cut[u] /\ (conn.phase = "replay" \/ i < conn.went[u])
                      \/ OnTheWay(u, i)
    BY DEF OnlyTheGapIsMissed
  <2>0. Wired /\ ConnTypes /\ FanTypes /\ Forwarders /\ Bounded /\ Replayed /\ Behind /\ Forwarded
    BY DEF SceneInv, SceneWired
  <2>1. conn \in OnConns /\ On /\ u \in Uris /\ StreamTypes
    <3>1. conn \in OnConns
      BY <2>0, Conn DEF On
    <3> QED BY <2>0, <3>1, ConnNumbers DEF On, Wired
  <2>2. /\ conn.start[u] \in Nat /\ conn.cut[u] \in Nat /\ conn.next[u] \in Nat /\ conn.went[u] \in Nat
        /\ logged[u] \in Nat
    BY <2>1, ConnNumbers DEF StreamTypes
  <2>3. i \in Nat /\ i < logged[u] /\ conn.start[u] <= i
    BY <2>2
  <2>4. i \in Indices
    BY <2>0, <2>1, <2>3, LoggedIndices
  <2>5. CASE i < conn.cut[u]
    <3>1. i < conn.next[u] => times[u][i] > 0
      BY <2>0, <2>3, <2>4, <2>5 DEF Replayed
    <3>2. conn.phase # "replay" => conn.next[u] >= conn.cut[u]
      BY <2>0 DEF Replayed
    <3> QED BY <2>2, <2>3, <2>5, <3>1, <3>2
  <2>6. CASE i >= conn.cut[u] /\ conn.phase # "replay" /\ i >= conn.went[u]
    <3>1. Mine(u) \in Subs /\ Mine(u)[1] = u /\ Mine(u)[2] = conn.no
      BY <2>0, <2>1, MineIsSub
    <3>2. PICK s \in Subs : s = Mine(u)
      BY <3>1
    <3>3. i \in conn.went[u]..(logged[u] - 1)
      BY <2>2, <2>3, <2>6
    <3>4. CASE conn.phase = "starting"
      <4>1. PICK k \in DOMAIN ready : ready[k] = NewPublisher(u, i)
        BY <2>0, <2>1, <3>3, <3>4 DEF Behind
      <4>2. ready[k] \in Carrying /\ ready[k].uri = u /\ ready[k].index = i /\ ready[k].lists = 0
        BY <4>1 DEF Carrying, ToSet, NewPublisher
      <4> QED BY <4>2 DEF ToCome, OnTheWay
    <3>5. CASE conn.phase = "live"
      <4>1. Carries(u, Mine(u), conn.went[u])
        BY <2>0, <3>5 DEF Forwarded, Live
      <4>2. HandedAll(u, s) /\ AllFrom(s, conn.went[u])
        BY <3>2, <4>1 DEF Carries
      <4>3. sub[s].uri = u
        BY <2>0, <3>1, <3>2, <3>5 DEF Forwarders, Live
      <4>4. i \in OwnIndices(s) \/ InQueue(s, i) \/ i \in Coming(s)
        BY <3>3, <4>2, <4>3 DEF AllFrom
      <4>5. CASE i \in Coming(s)
        BY <2>1, <3>2, <4>3, <4>5, ComingIsToCome DEF OnTheWay
      <4>6. CASE InQueue(s, i)
        BY <2>1, <3>2, <4>3, <4>6, QueuedPayload DEF OnTheWay
      <4>7. CASE i \in OwnIndices(s)
        <5>1. CASE times[u][i] > 0
          BY <5>1
        <5>2. ASSUME NEW k \in InFan(u), fan[k].index = i PROVE OnTheWay(u, i)
          <6>1. k \in DOMAIN fan /\ fan[k] \in FanItems
            BY <2>0 DEF InFan, FanTypes
          <6>2. fan[k] = [via |-> u, uri |-> u, index |-> i]
            BY <5>2, <6>1 DEF InFan, FanItems
          <6> QED BY <6>1, <6>2 DEF OnTheWay, ToSet
        <5>3. CASE InHand(u) /\ held[u].index = i
          <6>1. held[u] \in Payloads /\ held[u].uri = u
            BY <2>0, <2>1, <5>3 DEF InHand, FanTypes
          <6>2. held[u] = [uri |-> u, index |-> i]
            BY <5>3, <6>1 DEF Payloads
          <6> QED BY <6>2 DEF OnTheWay
        <5> QED BY <4>2, <4>7, <5>1, <5>2, <5>3 DEF HandedAll
      <4> QED BY <4>4, <4>5, <4>6, <4>7
    <3> QED BY <2>6, <3>4, <3>5
  <2> QED BY <2>2, <2>3, <2>5, <2>6
<1> QED BY <1>1, SceneInvHolds, PTL

\* Nor does a forwarder get an event of its object twice from the stream it reads, which
\* the prefix stream opens without a replay and drops when its client closes.
THEOREM ForwardersGetNoneTwice == SceneSpec => []NoDuplicates
<1>1. SceneInv => NoDuplicates
  BY DEF SceneInv, SceneWired, Once, ReceivedOnce, Active, NoDuplicates, Open
<1> QED BY <1>1, SceneInvHolds, PTL

\* The connection, the hands, the queues between the streams and the history keep their
\* types, for every client a scope allows.
THEOREM SceneTyped == SceneSpec => [](StreamTypes /\ ConnTypes /\ FanTypes)
<1>1. SceneInv => StreamTypes /\ ConnTypes /\ FanTypes
  BY DEF SceneInv, SceneWired, Wired
<1> QED BY <1>1, SceneInvHolds, PTL

\* The cursor a prefix client is handed points behind everything it got and never past
\* the end of a log, so resuming with it neither repeats an event nor skips one to come.
THEOREM PrefixCursors == SceneSpec => []Cursors
BY SceneInvHolds, PTL DEF SceneInv
===============================================================================
