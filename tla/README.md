# TLA+ models of the QSO fabric

The QSO fabric is an event-sourced runtime in Python: objects with URIs, patched
under a policy, every change an event in a log that is replayed, streamed to
subscribers and kept in an append-only file that several instances share.  This
directory models its core in TLA+, checks the models with TLC on small instances
and proves the central results with TLAPS for every size.

    tlc -config StoreCut.cfg MCEventStore       # a run: PROJECT.json lists them all
    tlapm StateRuntimeProofs.tla                # the proofs of a module

## 1. The system

Most of the repository's files are demos, reports, generated data, VR and
investigation tooling.  The program's own logic is in the parts below.

| Part | State | Operations | Calls |
|---|---|---|---|
| Event store (`storage/event_store`) | the JSONL file, its `.lock` file, `_last_hash` | `append`, `query`, `all`, `verify_chain` | `solis/shared/file_lock.py` |
| Event log (`services/event_log`) | events per URI in memory, logical clock | `append`, `replay`, `rollback`, `audit`, bootstrap | event store, index |
| State engine (`services/state_engine`) | none of its own | `create_object`, `patch`, `create_identity`, `apply_identity_event`, `rebuild_from_log` | registry, policy, clock, event log |
| Registry (`services/registry`) | objects by URI | `create`, `read`, `update`, `list` (read returns a copy) | - |
| Policy service (`gdml/policy_sync`) | current policy, history | `publish`, `rollback`, `current` | clock, event log |
| Entanglement graph (`services/entanglement_graph`) | links by source, subscribers and their queues by URI | `entangle`, `subscribe`, `publish_patch` | - |
| Tools (`api/mcp_tools`) | transport statistics only | the `qso.*` calls, streams with cursors and backpressure | state engine, event log, graph |
| REST, gRPC, websocket | none | routing, role checks | the tools; one thread per HTTP request |
| Identity kernel (`core/identity`, `identity_authority`) | none of its own; `identity_runtime` inside the object | lifecycle events, reducer | state engine |
| Identity verifier | none | `export_bundle`, `verify_bundle` | event log |
| Snapshots, checkpoints, index (`storage`) | files | export, import, latest | tools |
| Transport (`services/transport`) | mode, policy and metrics in a state file, audit log | `set_mode`, `send` | state store, audit logger, state engine |
| Sandbox (`mcp_qso_edu`) | a runtime per server in memory, one operation log on disk for all of them | engine calls, the chat tools made of them | its own QSO tools |
| Solis (`solis`) | objects of the runtime, a Merkle accumulator in memory | stars, constellations, signals, gates, policies | state engine, graph |
| Task dispatcher (`national_investigation_ai`) | one task file | `publish`, `fetch_next`, `complete` | file system |
| Federation (`federation`, `mcp_server`) | callbacks, peers' logs | merge, sync | - |

How they interact.  A patch runs through the policy service, the registry, the
clock, the registry again, the log in memory and the store, in that order and
without a lock.  The HTTP server is a `ThreadingHTTPServer`
(`api/rest/__init__.py`), so several patches are inside that sequence at once; the
MCP tools are coroutines on one asyncio loop, where `patch` runs to its end.
`qso.patch` then starts a publisher task which fills the queues of the subscribers
of the object and of the objects it links to.  Instances share the store file:
"Any instance may write shared artifacts" (`docs/mesh_handoff_contract.md:8`).

The sandbox servers share an operation log in the same way, but each replays it into
a runtime of its own.  The transport manager shares a state file and an audit log
between processes.  Solis calls the state engine dozens of times in one call.

What is hard: threads inside `patch` and `publish`; processes that die inside an
append; a store append that fails after memory was changed; a restart that finds
only the file; a stream that changes from replay to live while patches are
published; publishers that wait for room; streams made of streams; a decision
taken on a mode that another process switches; servers that replay each other's
operations; a call of many patches that stops half way.

What makes each part correct:

- *store*: the hash chain is never broken, nothing is written behind a torn line, an
  acknowledged event stays in the file, the lock is always released;
- *runtime*: live state and replay agree; a patch is pinned to the policy in force;
  what a call returned is durable; nothing shows up that nobody logged;
- *graph*: a DAG until a caller allows a cycle;
- *streams*: no gap and no duplicate between replay and live, the latest state
  survives dropping, publications end, a scene catches up;
- *identity*: a frozen identity gains nothing and does not come back, archived is final,
  the log always reduces and the object shows what it reduces to;
- *transport*: nothing leaves in a mode its policy forbids, no switch is lost, the
  audit log is true and complete;
- *sandbox*: servers show the same state, an acknowledged message is kept, the log
  can be replayed;
- *solis*: a star's collapse is honest, every patch is told and anchored, a patch the
  guard allowed passes its gates, a propagation that is told has happened.

`PROJECT.json` lists every component with its status and every hazard at its line.

## 2. Modules

| Module | Models | Extends / instances |
|---|---|---|
| `SharedLog` | abstract: a log that only grows, acknowledgements of what is in it | - |
| `EventStore` | `JsonlEventStore` on a file several instances share | instances `SharedLog` |
| `EventStoreProofs` | proofs about it | `EventStore` |
| `StateRuntime` | registry, state engine, clock, event log, policy service, several threads, restarts | - |
| `StateRuntimeProofs` | proofs about it | `StateRuntime` |
| `EntanglementGraph` | links, cycle check | - |
| `Streams` | patch publication and subscriptions on an asyncio loop | composes with `EntanglementGraph` |
| `StreamsProofs` | proofs about it and about the graph | `Streams` |
| `SceneStreams` | prefix and scene streams, built from the streams of `Streams` | `Streams` |
| `SceneStreamsProofs` | proofs about it | `SceneStreams`, `StreamsProofs` |
| `IdentityLifecycle` | abstract: the life of an identity and what it may hold in each phase | - |
| `IdentityKernel` | reducer, `create_identity`, `apply_identity_event`, reinstatement, merge into the object, several threads | instances `IdentityLifecycle` |
| `IdentityKernelProofs` | proofs about it | `IdentityKernel` |
| `Transport` | mode switches and sends of several processes over one state file and one audit log | - |
| `TransportProofs` | proofs about it | `Transport` |
| `Sandbox` | several servers, each with a runtime replayed from one operation log, and the chat tools | - |
| `SandboxProofs` | proofs about it | `Sandbox` |
| `Solis` | stars and constellations: guard, gates, events, anchors, rewards, health, propagation | - |
| `SolisProofs` | proofs about it | `Solis` |
| `MC...` | symmetry sets and constants for TLC | the module named |

Operators named `X_Something` with a "Mutant:" comment are wrong versions of `X`:
each is a plausible bug, and with it in place of `X` one property fails under the
configuration of its run.  They show that the properties can fail; nothing else
uses them.

### EventStore

`rows` are the lines that parse; `tail` says what the last write left: nothing, a
complete row without its newline ("bare"), or part of a line ("torn").  A digest
covers the row and the digest before it, so it is modelled as the sequence of
events it stands for.  `append` is four steps (`AppendLock`, `ReadTail`, `WriteRow`,
`AppendReturns`), with a failure at each place the code can raise: the tail does
not parse (`ReadTailFails`), the write raises after a part of the line
(`WriteFails`).  `Crash` may hit any step; inside the write it cuts the line like
`WriteFails`.  The kernel drops a dead process' lock.  Readers hold the lock for
the whole read, so `Query` is one step.  Within a process a `threading` lock
covers the same region, so threads of one instance behave as one writer.  The
in-memory store has the same chain without file, lock or crash, and is not
modelled on its own.

### StateRuntime

One thread step per access to shared state: check the policy, read the object,
stamp, write the object back, append to the log in memory, append to the store.
Under CPython's global lock the clock tick (`_tick += 1` inside a few bytecodes)
and the registry's dictionary operations are taken as atomic; between them other
threads may run.  A patch sets one path of the state layer: `_deep_merge` with one
leaf, and a delta with several leaves is several of these at once.  Events compare
by timestamp, then by event id; ids are random, so two ids compare by a random
`rank` and then by order of creation.  Rejected calls change nothing and are
stutters.  `Rollback` is `EventLogService.rollback`; `PolicySyncService.rollback`
publishes an old entry of the history and is part of `Publishable`.  `Restart`
keeps only `store`, everything else starts as new, and the log is filled from the store
as far as it can be read (`TakenUp`): `_bootstrap_from_store` swallows a read that raises
and starts with an empty log, and it passes over rows that are no valid events.  `unread`
remembers what was left out.  The store is one sequence per URI here, which is how `query` and bootstrap see it; the
file itself is `EventStore`'s subject.

`Serial = TRUE` is the asyncio caller, one call at a time; `Serial = FALSE` the
HTTP server.

### EntanglementGraph

`HasPath` is stated by closed sets (every set with the source in it that no link
leaves contains the target): the answer of the depth-first search in `_has_path`,
in a form that can be proved about.  A call for a bidirectional link under DAG
enforcement adds its forward link before it raises; the model keeps that link.
`entangle` has no REST or gRPC route and runs on the loop, so it is atomic.

### Streams

The loop runs one task until it waits.  `running` is the publisher that has the
loop, `ready` those that may run, `putters[s]` those that wait for room in a queue,
in order, as `asyncio.Queue` keeps them: `get` wakes the first, which goes to the
end of `ready` and waits again if the room is gone.  `publish_patch` takes a copy of
each subscriber list when it comes to it and reads the list of links as it goes.
`Take` skips what the cutoff excludes and stops at the first payload it delivers.
A stream's cursor is its `start`.  A projection stream registers when it is opened
(`Project`), reads the log when it is first read (`Begin`), and stays registered if its
client goes away before that (`Abandon`).  Publications started from threads without
a loop (`asyncio.run` in `_dispatch_stream`) are not modelled.

### SceneStreams

A prefix stream lists the objects under its prefix, replays their logs, and then
starts one forwarder per object, each with a live stream of its own (an element of
`Subs`), all putting into `fan`.  A scene stream has a forwarder that reads a prefix
stream into `scene`, and renders for every event its client takes: a `frame` is how much
of each log the rendering shows.  Tasks start in the order they were created in;
`conn.ahead` counts the publishers before the stream's task.  An event that a
forwarder of the scene stream holds while it waits for room counts as still in `fan`;
closing a stream cancels its forwarders in one step; every object is under the prefix.
Resuming parses the last token; the positions in it are what the model keeps.

### IdentityKernel

An identity call reads the identity events logged so far, reduces them with the new
one behind (the reducer validates by raising), and hands the event and the reduced
state to `patch`.  `ReduceTimeline` and `ReduceRaises` are the first half; the rest
are the steps of `patch` as in `StateRuntime`, with `_deep_merge` for the one
sub-tree that matters here.  A credential, entitlement or link is a record with a
status and a flag for the fields a revocation adds.  Credentials and entitlements go
through the same life, so one set stands for both; a link differs in that it may be
revoked while the identity is frozen.  `CreateIdentity` registers the object before
it applies `IDENTITY_CREATE`, so a refused creation leaves an empty object, which is
in the model.  The reinstate route (`api/rest/__init__.py:413`) is a plain patch with
a marker.  `Replay` reads the log in one step (under the global lock the sort of a list
is atomic) and takes the identity events by their ticks, which are all different.

`IdentityLifecycle` has two variables, phase and holdings.  The refinement computes
both from the log, not from the object; `LiveMatchesLog` ties the object to the log.

### Transport

`file` is the state file, which is changed under its lock by one read, change and
rename; `audit` and `tail` are the audit log, an append as in `EventStore`.  A call is
a record that goes through its steps; `saw` is the state it was given by its own
access to the file.  A send reads the mode once (`Send`), asks the policy about it, uses
the adapter of that mode (`Answered`, `AdapterRaises`), writes health and metrics
(`UpdateMetrics`), appends its audit row (`LogAudit`, `AuditFails`) and patches the
object `qso://infra.transport` of its process (`Upsert`).  Other processes may do anything in
between.  Health is one word; latencies, counts, circuits and the exit fingerprint
are left out, as are the replay engine and the broker adapter on top.

### Sandbox

A runtime is the sequence of operations that took effect in it, and the log the
sequence of its rows.  Every engine call refreshes first (`Refresh`: replay what was not
applied, stop where a row raises), then applies the operation here and appends it.
The cursor moves by one, whatever others appended: `CatchUp` and `Commit` are two steps,
because the lock of the log is only held inside each.  A chat tool is a program of engine
calls (`todo`) with the messages it read (`held`): append is ensure, read, patch of
the whole list, and then perhaps a summary and an audit note.  A refusal by the
limiter, the permissions or a replay that raises is `Denied`.  A fork copies every
message; every message is one of a user or the assistant; the window of a summary
does not matter because its text does not.

### Solis

A call begins with an `agenda`, the patches it will make one by one, and each step
takes the first item and may put more in front: the guard puts a commit there, and a
commit gates, a write, the stellar event, an anchor when the epoch is full, the gates
after it and the reward.  A gate that refuses records its decision and its rollup, and then
the call raises (`Passes`).  Calls are synchronous, so the agenda is one variable.

A patch may raise in two ways.  Before it took effect nothing changes (`StepFails`: the
policy check, say).  After it, when the append to the store or the checkpoint behind it
raises, the object and the log in memory have it all the same (`Ends`), and the call is
over.  So a star may be patched with its stellar event missing, and a stellar event may be
there whose hash never reached the accumulator (`Tell`).

`rows` are the patches of stars in all lives; `remembered` are those the log in memory has,
and `kept` says of each whether the file has it.  After a `Restart` the registry is empty
and nothing refills it: stars, constellation, decisions and health are gone as objects until
somebody creates them again, blank, and so are the accumulator and the links.  What the
log took up stays as timelines, and becomes visible again with its object: `known` are the
decision objects in the registry, `decided` what their timelines in memory hold, `filed` what
those in the file hold.  The bootstrap may find the file unreadable, as in `StateRuntime`.

The numbers are naturals in a unit of the entropy, with magnetic field and fusion rate at
rest, so the collapse formula is a clamp.  The contagion index is computed from the members
with the weights of the code, in percent.  A propagation with a negative magnitude raises
at the first member other than its source, before any patch; only with no such member does
the gate of the constellation refuse it (`lawful`).  Gate 1 before a commit compares the
replays of a pure function and is a constant; gates 2 and 3 are computed.

## 3. Runs

| Run | Bounds | Shows |
|---|---|---|
| `store_cut` | 2 instances, 3 events, all cuts | chain intact, nobody writes behind a torn line, the lock is always given back |
| `store_shared_log` | the same, no cut exactly before the newline | the file implements `SharedLog`: acknowledged events stay in it and earlier reads stay true |
| `runtime_serial` | 1 object, 2 paths, 2 values, 2 actors, 3 ticks, 3 policy versions, store may fail | live = replay, policy pinning and growth |
| `runtime_threads` | 2 threads, 1 restart, 1 log rollback, 1 object, 2 values, calls start in the first tick of a boot | no phantom values, durable results, replay independent of the order in the file |
| `streams_modes` | 2 streams in any mode, 1 object, 3 events, queue of 1, 1 close | no gap, dropping keeps order and the latest event |
| `streams_links` | 1 stream in any mode, 2 objects, 1 link each, 2 events each, 1 close; or 3 objects, 2 links each, cycles allowed or not, and nothing streamed | no duplicates; every publication ends; a DAG until a cycle is allowed |
| `scene_streams` | 2 objects, queues of 1, 2 streams one after the other; 2 events each without links or with one stream, 1 event each with links | a prefix stream misses the gap only, nothing comes twice, a scene catches up |
| `identity_kernel` | 1 identity, 1 credential, 1 link, calls start before tick 7, one at a time | the log reduces, the object shows what it reduces to, `IdentityLifecycle` is implemented |
| `transport` | 2 processes, 3 threads, 3 calls, 2 workloads | no forbidden mode, no lost switch, audit log true and complete; health of the active mode when calls take turns |
| `sandbox` | 2 servers, 2 objects, 2 messages; 5 rows when calls take turns, 3 when they race, 2 when appends fail in living processes | same state, log replays, messages kept with turns; acknowledged messages stay in the log always |
| `solis` | 2 stars, 1 constellation of both, 4 calls, 2 boots, 1 patch that raises, epochs of 2 | honest collapse, patches told and anchored unless their call broke off there, gates agree with the guard, health catches up |
| `sandbox_race` (violated) | 2 servers, 1 object, 2 messages, 3 rows, calls that race | two servers of one session show different states: see below |

Why the bounds are enough to be interesting.  Two writers and three events give a
chain link across instances, behind a crash, and behind another instance's row.
Two threads starting in the same tick give every interleaving of two patches, of a
patch and a publish, and of two publishes; a second boot in the same run starts
them again over what the first left in the store.  Three objects give a cycle no
single hop shows.  An identity call takes two ticks, so seven give four events:
creation, grant, revocation and a second grant, or a freeze with an attempt behind it,
with refused calls and reinstatements in between.  A queue of one with three events gives a waiting publisher, a
second one behind it and one that overtakes.  Two streams one after the other give a
resumption; two objects under a prefix give forwarders that wait for each other.
Three transport calls are a send with a switch inside it and a second switch or
send over what that left.  Five rows of a sandbox are a create, its first patch,
a message of each server and what follows one of them; two messages reach the
summary.  Four Solis calls are two creations, a constellation and a propagation, or
enough patches for two epochs, with a failed patch and a restart anywhere; a cascade comes
from a warning of one member or, with `CascadeThreshold` in percent as the code computes the
index, from the contagion of stars none of which warns.  `MaxTick`,
`MaxVersion`, `MaxBoots`, `MaxRollbacks`, `MaxLinks`, `MaxEvents`, `MaxClosed`, `MaxConns`,
`MaxCalls`, `MaxFailures` and `MaxOps` bound the models only and stand in guards; the `Scopes` of
`scene_streams` and the `Modes` and `Paces` of `sandbox` and `transport` choose at the
start which of the bounds a behaviour uses.  In `streams_links` the constraint `Bounded`
leaves out streams over graphs with more than one link per object or with a cycle.  Because of them every model stops when its bounds are used up,
so no run checks deadlock; `LockReleased` and `PublishEnds` say what must not get stuck.

Symmetry is used in runs without liveness, over things no property names (the
threads of one process, servers, chats, messages, stars).

Fairness.  `EventStore`: `WF(Finish(w))`, an instance that holds the lock goes on:
nothing in `append` waits once the lock is held.  Nothing is assumed of crashes,
restarts or of getting the lock.  `Streams`: `WF(LoopStep)`, asyncio runs its ready
tasks; `WF(ClientStep(s))`, a client with an open stream goes on reading.  The second is
an assumption about clients, not a promise of the code: without it a blocking
publisher waits for ever by design, and so it does when the client closes its
stream while publishers wait, which is why `PublishEnds` makes that exception.
`SceneStreams`: one weak fairness over the loop and the reads of the client together,
the least there is: the two never both stop while one of them can go on.

### Seen while modelling

What the code does that one might not expect.  Where it breaks a property, the
property is stated for the case in which it holds, and the restriction stands in
its definition or in the constants of its run.

*Store.*  A write cut exactly before its newline leaves a row that parses; the next
append writes on the same line and returns, and the line is garbage: both events are
lost and every later read and append raises.  A torn line has the same effect on readers:
what was acknowledged before it is in the file, but `query` and `all` raise.  `store_shared_log` leaves that cut out.

*Runtime.*

- Two threads that patch one object read, merge and write back without a lock:
  one update vanishes from the live state while both are logged.  A publish fits
  between the policy check and the stamp of a patch.  So `ReplayMatchesLive` and
  `PolicyPinned` are checked for serial calls.
- The clock starts at 0 in every process over a log that has old timestamps, so
  replay after a restart orders later events before earlier ones.
- After a restart the policy is v1 again and versions are logged a second time.
- A bootstrap that cannot read the file is silent: the process runs on with an empty log
  until its next start, while the file has every event (`LogCoversStore` leaves out what the
  last bootstrap did not take up; a torn line has this effect).
- A store append that raises leaves the patch live in memory though the caller sees
  an error, until a restart forgets it.
- `EventLogService.rollback` shortens a log that `services/README.md:6` calls append-only.

*Graph and streams.*

- A refused bidirectional link leaves its forward half.
- An object linked to itself (only with `allow_cycle`) hands each patch to its
  subscribers twice, so `NoDuplicates` and `DroppingKeepsOrder` leave such objects out.
- An event that comes over a link takes a place in the queue: it may push the latest
  event of the subscribed object out of a `drop_oldest` stream.  `LatestIsKept` is about
  objects nothing links to.
- The replay cutoff counts the subscribed object's events but is compared with the
  index of a linked object's event too (`api/mcp_tools/qso_tools.py:214`), so early
  events of linked objects are dropped.
- A publisher that waited is overtaken by one that had not begun, so a token may be
  ahead of an event that comes later: a client that resumes with it misses the event.
  For the same reason a dropping stream behind a blocking one shows events out of
  order (`DroppingKeepsOrder` and `LatestIsKept` are about streams without one).
- A prefix stream registers for live events when its replay was delivered: what
  happens between is neither replayed nor live, and resuming does not bring it back.
- An object created after a prefix or scene stream was opened is not followed.
- A token that names an object outside the prefix (an event came over a link) is
  rejected when it is used to resume.
- A projection stream that is given up before it is read stays registered.
- The index of a live event is its place in the list in memory
  (`api/mcp_tools/qso_tools.py:50`), that of a replayed one its place by timestamp
  (`services/event_log/service.py:39`).  After a restart, which sets the clock back, they may
  differ; `Streams` is about one life of the process, in which they agree.

*Identity.*

- `apply_identity_event` validates against the log and appends later.  A bare
  `IDENTITY_CREATE` event racing `create_identity`, or a grant racing a freeze, leaves a log
  the reducer refuses, and with it every later call on that identity.  The run
  has one thread for that reason.
- A refused `create_identity` leaves an object, so it refuses from then on; a bare
  `IDENTITY_CREATE` event still completes the identity.
- The live `identity_runtime` keeps the traces of a revocation after the item is
  granted again, because the merge cannot remove keys; its `state_hash` is that of
  the reduced state, not of what the object shows.
- The reinstate route answers "Reinstated" (`api/schemas/qso_identity_openapi.yaml:187`)
  and leaves a frozen identity frozen.

*Sandbox.*

- The cursor of a server moves by one after an append, although another server may
  have appended since the refresh: the operation in between is skipped here and the own
  one replayed again.  `README.md:588` says "all processes that reuse the same
  `session_token` replay the same persisted sandbox state"; that is true of calls that
  take turns (`TurnsReplaySameState`); `sandbox_race` shows that it is not in general.
- Two appends to one conversation that overlap: the later patch of the whole list
  removes the earlier message from the state (it stays in the log).
- Two links that are fine on their servers may close a cycle in the log, which then
  cannot be replayed by anyone.
- A failed append leaves the operation in the runtime of this server only.
- A row cut by a server that dies stops every server; nothing repairs it.

*Transport.*  A send that began under the old mode writes its health over the
"switching" of the new one, so the file may say `degraded` of a mode that never was
(`TurnsHealthOfMode` is about calls that take turns).  When the audit append raises, what
was sent is sent, and the caller sees an error.

*Solis.*

- The stellar event is a patch of its own behind the patch of the star.  When the first
  raises after its append, or the second raises, the star's mutation is in the log without
  an event, and nothing makes up for it, where `solis/README.md:20` says "Every mutation emits
  immutable timeline entries and a derived stellar event object."  `PatchesAreTold` says
  what is true: that happens only to the last patch of a call that broke off.
- When the patch of the stellar event raises after its effect, the event is told and its
  hash is missing: the next anchor leaves it out, silently (`AnchorsCoverAll` allows for it).
  When the patch of the anchor raises, the epoch has none, and no later call tries again.
- The accumulator starts empty in every process, so epochs are counted from 1 again: the
  anchors of the life before are patched with other roots, and what was not anchored then
  never is, where `solis/README.md:21` speaks of a rolling accumulator.  `AnchorsStay` and
  `AnchorsCoverAll` are about one life.
- After a restart every call on a star raises until the star is created again, with its first
  state, although the log has its whole history.  The gate health counts the decision objects
  in the registry, so decisions of an earlier life are missing from it until their gate
  decides once more; then its whole timeline counts (`HealthCatchesUp`).
- A propagation that fails half way leaves the stars before it patched.
- The gates before a signal tolerate less than `create_star` accepts, so a star may be created
  whose signals are refused for ever.

## 4. Proofs

All theorems hold for every value of the constants that meets the named
assumptions in the modules: bounds are naturals, a queue has room for one, and a
value that stands for "nothing" is none of the others (`ObjectAssumption`,
`NoneAssumption`).  Where a theorem assumes more, the text below says so.

**EventStoreProofs.**  `TypeCorrect`, `ChainAlwaysIntact` and `TornStaysLast` for
all cuts; `StoreImplementsLog` if `"bare" \notin ShortWrites`: a write cut exactly before
its newline is the one thing that breaks it.  The chain is not
inductive by itself: a row is written with a `prev_hash` read two steps earlier.
`ChainInv` adds that whoever is inside `append` holds the lock (`LockHeld`), and that
a writer past `ReadTail` still has the digest of the present tail (`LinkIsFresh`):
no one else can have written.  For the refinement, `InHand` says that the event a
writer is about to write is in no row and the one it has written is in the file,
and the step lemmas map `WriteRow` to `Extend`, `AppendReturns` to `Acknowledge`
and everything else to a stutter.

**StateRuntimeProofs.**  `TypeCorrect` needs what a thread holds at each point of its
call (`InShape`).  `DoneStaysDurable` and `MemoryCoversStore` rest on `LoggedFirst`: an
event on its way to the store is already in the log in memory.  `MemoryCoversStore` follows a
restart through `TakenUp`: what the bootstrap did not take up is in `unread`.  `NoPhantoms` rests on
`BackedInv`: a value in an object, or in the copy a thread is about to write, was set
by an event that is in the log or is on its way there, or is the thread's own delta;
it is kept until a log is rolled back.  `ReplaySurvives`: the log in memory and the log
of the file hold the same events, perhaps in another order, and replay sorts them.  The
lemmas show, by induction over the events, that folding events in the order of their
timestamps depends only on their set, if no two have the same place in that order
(`Numbered`: the events of a URI have different numbers).

Its second half is about one call at a time.  `PatchesPinned` and `MutationsGrow` hold for `Serial = TRUE` and
`MaxBoots = 0`: with two calls at once a patch may be stamped after a mutation under the
version before it, and a restart sets clock and policy back while the log stays.
Neither is inductive, since version and log are steps apart.  `PolicyInv` adds that one
thread at most is in a call, that a patch under way has the version in force, that a
publication has a greater one until it is in force itself (`Under`, `InForce`), and that
nothing logged is newer than the clock or the policy (`LoggedPast`).  `LiveIsReplay`, for
the same callers and a log nobody rolls back: the event appended last is the newest of its
object, so the replay with it is one step of the replay without it; what a thread holds
between its write and its append is one event ahead of the log.

**StreamsProofs.**  First the graph.  `DagForever`: if the target does not reach the source,
there is a closed set with the target and without the source.  From it and a
closed set that witnesses "v does not reach u" before the step, their union or
intersection (or the old witness) is a witness after it.  `StreamsKeepGraph` carries it
over: every behaviour of the loop is one of the graph alone.

Then the streams.  `Wired` says what every list, queue and publisher consists of and
that tasks, queues and subscriber lists only name streams that were opened; the four
properties add what they need to it.  `NothingIsLost`: an event from the cursor on is
received, still to be replayed, in the queue, or carried by a publisher that has the
stream before it; a stream that subscribes while publishers are on their way replays
what they carry, and the cutoff keeps them from handing it over again.  `NoneTwice`: an
event of the object is in at most one of the hands of a publisher, the queue and the
client's.  `DroppedInOrder`: without a blocking stream no publisher waits, so publishers run
one after the other, in the order of the log.  `LatestStays` adds that what
`drop_oldest` removes is never the newest in the queue.  The premises (blocking streams,
self links, links into the object) are those of the properties; each has a
counterexample behind it, listed above.

**SceneStreamsProofs.**  For any objects, connections, modes and sizes of the queues, the
client closing and resuming anywhere.  The streams a prefix stream reads are opened and
closed by its own tasks, in two steps that `Streams` does not have (`StartForwarders`,
`CloseStream`), so the first part shows that these keep `Wired`, `Apart` and `Once` too; every
other step is one of `Streams` or leaves it alone (`SceneSteps`).  From there `SceneInv` follows
the client through the phases of its stream:

- `Cursors`: the cursor is behind everything the client got, and not past a log.
- `Replayed`: every event between the cursor it came with and the one it has, up to where
  the logs were when they were read, was handed out.
- `Behind`, while the forwarders are in the loop's queue: the publishers of what was
  logged since then are behind them, and those of anything older before them, so by the time the
  forwarders run the old ones have taken their copies of the subscriber lists.  This is
  where the gap is: what those publishers carry reaches no forwarder and was not replayed.
- `Forwarded`, while they run: from `went` on every event of an object is on its way to the
  stream, in its queue or taken by its forwarder, and nothing older comes (`AllFrom`,
  `NotBefore`); what the forwarder took is in its hand, in `fan_in` or with the client, and in
  one of them only (`HandedAll`, `HandedOnce`).

`PrefixMissesOnlyTheGap` reads off the first, third and fourth; `PrefixNoRepeat` needs that a
row of the replay is not before the cursor and that a live event is in one place.  A link
of an object to itself (`allow_cycle=True`) breaks `NotBefore`: its publishers hand the
event over once more, so `NoRepeat` excepts such objects, as `NoDuplicates` does.
`ForwardersGetNoneTwice` is `NoDuplicates` for the streams inside, `PrefixCursors` is `Cursors`.

**TransportProofs.**  For any processes, threads, workloads and policy.  The
properties rest on what a call holds at each step: a send past `Send` has a mode
its policy allowed (`TransportPolicy`), a call that is about to be audited has done what
its row will say (`TransportAuditTrue`), one that is about to return has its row in
the log or the log is torn (`TransportAuditComplete`).  `TransportMode` needs no more
than that every writer of the file changes it as it is.  `TransportTurnsHealth` adds, for
calls that take turns, that one caller at most is in a call and that a send whose health
is still to be written was made in the mode of the file (`TurnInv`).

**SolisProofs.**  For any stars, lists of members, bounds, failures and restarts.  `CallInv` is
one inductive invariant, and each of the theorems reads off a part of it.  A property about
a whole call has to say what is left of it, so most of the parts are about the agenda:

- `Typed`: the agenda is a sequence of records of a dozen shapes, and all else is well
  typed; an item says what the guard made sure of: a write of a guarded call is within the
  tolerance, and a gate of a star that is to be recorded has passed.
- `CollapseHonest` is inductive with that.
- `Orderly`: the grammar of the agenda.  A write is followed by the event that tells of it, a
  decision by its rollup, and the gate behind a commit comes after event and anchor.  Every
  action takes the first item and puts a list of that grammar in its place, or ends the call.
- `ToldInv` (`SolisTold`): a row without its event is the one whose event comes next, or its
  call has broken off and made no patch behind it.
- `HashInv` and `EpochInv` (`SolisAnchors`, `SolisAnchorsStay`): the accumulator grows in the
  order of the rows; it leaves out the row whose event comes next and those behind which a
  call broke off; an epoch that is full has its anchor, or the anchor comes next, or its
  call broke off, and an anchor there is never of an epoch still to come.
- `Guarded` (`SolisGates`): no failed decision of a star is in memory, nor in the file a
  restart reads; the gate behind a commit passes because of `EpochInv`.
- `HealthInv` (`SolisHealth`): the health of a scope equals the timelines of the known
  decision objects, or a gate of that scope is still to come on the agenda of the call under
  way; of a call that broke off nothing is said, and the next one starts over.
- `ReachedInv` (`SolisPropagation`): a star that a propagation on the agenda or in the
  constellation names has its patch among the rows, or still on the agenda before the
  constellation.

A call that raises empties the agenda and a restart most of the variables; what is then left
of each part is what its property allows for.

**IdentityKernelProofs.**  For `Serial = TRUE`, as in the run: with two calls at once the
log may become one the reducer refuses (above).  `Reduce` is a fold over a
sequence: `ReduceAppend` shows, by induction over the events, that reducing one more is
one step more, and `ReplayAppend` that an event
stamped last is replayed last.  `KernelInv` then needs no more history than one call
at a time.  `Ahead`: what a call holds between reducing and appending is one event ahead of
the log; `Sound`: every log reduces, and an object at rest shows what it reduces to
(`Shows`, which forgives the traces the merge cannot remove).  `IdentityReduces` and
`IdentityShowsLog` follow.  `IdentityLives` maps the append of an identity event to the
step of `IdentityLifecycle` that the event stands for, and every other step, refused calls
and reinstatements included, to a stutter.

**SandboxProofs.**  `SandboxKeepsAcked`, in every mode: the log only grows, and a message
is acknowledged in the step that appends the row it is in.  `SandboxSameState` and
`SandboxLogReplays` are about calls that take turns.  Replay is a fold again
(`ReplayedAppend`), and `ReplayedOn` says what a refresh does: replaying the rows behind a
position over what the rows before it gave is replaying all of them.  `Turns` is the
inductive invariant: one call at a time; the log replays to its end (`Replays`, which
without the next part a single refused row would break); every runtime is what the log
gives up to its position (`InStep`); and one that is about to append has applied all of
it and accepted the row (`Accepted`).  Crashes take a runtime away and leave the log a row
longer at most, and behind a torn row nothing is promised.
`SandboxKeepsMessages` adds what a call still means to do (`Planned`): a message or a
summary is written to the conversation the call has read, as it is now, or will read
before; the new message is in no row; an empty list is written only into an object the
call has just made; a message and a fork come last.  With it every append leaves what
was acknowledged where it was (`PutKeeps`): it writes back the list that is there with one
message behind it, writes nothing into another conversation, or is the fork the property
excepts.  A crash may leave a message in the log that nobody acknowledged; it disturbs no
other.

The type invariants (`TypeOK`, `GraphTypeOK`, `TypeInv`) are proved for these modules and no
run repeats them.

Every safety property of the runs has its theorem.  Only model-checked: liveness under
fairness (`LockReleased`, `PublishEnds`, `SceneCatchesUp`), which like `ENABLED` is out of the
reach of these provers, and what the scene streams add to the prefix streams, of which
`SceneCatchesUp` is the promise.

## 5. Not modelled

- Identity verifier, federation helpers, pure services, numeric code in `gdml`,
  `meta_learning`, `services/quantum`, `solis/physics`: pure functions of their input.
- Quantum manager: a read, a pure computation and a patch; the patch is in
  `StateRuntime`, where another thread may come between.
- Snapshots and checkpoints: an export reads, an import is `create_object`, a patch and
  `entangle` calls, each of which a module has; checkpoints are written by the last
  writer and never read back.
- Task dispatcher: load, change and save of one file without a lock.  Several workers
  get the same task and lose completions, and the repository promises nothing of them.
- Conversation bridge: the locked append and full read of the event store again.
- Rate limits: wall-clock buckets; `Sandbox` takes a refusal as an open choice.
- MCP server: a callback list and a merge of lists that nothing in the fabric calls.
- In modelled parts: signatures (the engine signs what it stores, so they are right),
  the event index (nothing reads it), `audit` and `timeline` (reads), the wiring and mesh
  mirror of `services/runtime.py`, REST routing and role checks (per request, no state),
  the apc and tutorial tools of the sandbox, Solis' limiter, contagion graph, strategy
  DSL and agents, scene reparenting, patches from threads without a loop.
- Broker and chain adapters (`solis/execution`, `solis/anchor`): one request each, no state
  but a list of what was sent; nothing in the repository calls them.
- The XR, investigation, Orange County and report tooling: batch programs over files.

## 6. How it was built, and what could follow

The order was that of dependence: the event store, the runtime on it, graph and
streams, the identity kernel; then the parts where several processes share files
(transport, sandbox), Solis as the largest user of the runtime, and the streams made
of streams.  What would add most next: patches from threads that have no loop
(`asyncio.run` runs the publisher to its end, also through a full blocking queue of
another loop); composing `StateRuntime` with `EventStore` instead of one sequence per URI.
