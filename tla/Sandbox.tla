-------------------------------- MODULE Sandbox --------------------------------
(***************************************************************************)
(* The educational sandbox (mcp_qso_edu): several server processes serve   *)
(* the same sandbox.  Each keeps a runtime of its own in memory and shares *)
(* one log of operations with the others: before every engine call it      *)
(* replays the rows it has not applied yet, then it applies the call to    *)
(* its own runtime and appends it to the log.  The chat tools are programs *)
(* of several engine calls.  A process serves one call at a time.          *)
(***************************************************************************)
EXTENDS Naturals, FiniteSets, SequencesExt

CONSTANTS
    Servers,
    Chats,          \* the objects; each may hold a conversation
    Messages,
    Summary,        \* a message the server writes itself
    SummaryEvery,   \* auto_summary_interval
    AuditEvery,     \* audit_interval
    Modes,          \* see mode
    MaxOps,         \* bound on the rows of the log, for each mode
    None

ASSUME SandboxAssumption ==
    /\ Summary \notin Messages
    /\ SummaryEvery \in Nat \ {0} /\ AuditEvery \in Nat \ {0} /\ \A x \in Modes : MaxOps[x] \in Nat
    /\ Modes \subseteq {"turns", "races", "fails"}

\* What is written, and what a process keeps of a sandbox and of a tool call.
Texts == Seq(Messages \cup {Summary})
Rows ==
    [op : {"create"}, uri : Chats]
    \cup [op : {"patch"}, uri : Chats, why : {"note", "init", "say", "summary", "fork"}, msgs : Texts \cup {None}]
    \cup [op : {"entangle"}, uri : Chats, target : Chats]
Contexts == [view : Seq(Rows), applied : Nat]
EngineCalls ==
    [do : {"get", "ensure", "summary", "fork"}, uri : Chats]
    \cup [do : {"write"}, uri : Chats, row : Rows]
    \cup [do : {"say"}, uri : Chats, msg : Messages]
ToolCalls == [todo : Seq(EngineCalls), held : Texts, fresh : BOOLEAN]

ASSUME NoneAssumption == None \notin Texts \cup Contexts \cup ToolCalls

VARIABLES
    mode,     \* "turns": one call at a time; "races": calls of several servers overlap;
              \* "fails": they do, and appends fail in processes that live on
    ops,      \* the rows of the log file
    tail,     \* how the file ends: "clean", "bare" (no newline) or "torn" (half a row)
    ctx,      \* the SandboxContext of each server, None where the sandbox is not open
    call,     \* the engine calls its tool call still has to make, None when idle
    acked     \* the messages whose patch returned, in that order (history variable)

vars == <<mode, ops, tail, ctx, call, acked>>

-------------------------------------------------------------------------------
\* A runtime is the sequence of operations that took effect in it.
Create(u) == [op |-> "create", uri |-> u]
Patch(u, why, msgs) == [op |-> "patch", uri |-> u, why |-> why, msgs |-> msgs]
Link(u, v) == [op |-> "entangle", uri |-> u, target |-> v]

Made(view) == {o.uri : o \in {x \in ToSet(view) : x.op = "create"}}

\* The messages of a conversation: the list its last patch wrote.
Says(view, u) ==
    LET last == SelectLastInSeq(view, LAMBDA o : o.op = "patch" /\ o.uri = u /\ o.msgs # None)
    IN  IF last = 0 THEN <<>> ELSE view[last].msgs

Leads(view, u, v) ==
    LET linked == {o \in ToSet(view) : o.op = "entangle"}
    IN  \A S \in SUBSET Chats :
            u \in S /\ (\A o \in linked : o.uri \in S => o.target \in S) => v \in S

\* What the tools refuse: a second create, a patch of nothing, a link that closes a cycle.
Raises(view, o) ==
    \/ o.op = "create" /\ o.uri \in Made(view)
    \/ o.op = "patch" /\ o.uri \notin Made(view)
    \/ o.op = "entangle" /\ Leads(view, o.target, o.uri)

\* Mutant: only creates are replayed.
ReplayRow_CreatesOnly(acc, o) ==
    IF o.op # "create" \/ Raises(acc.view, o) THEN acc ELSE [acc EXCEPT !.view = Append(@, o)]

\* _replay_operation: a create that is refused is passed over, anything else ends the replay.
ReplayRow(acc, o) ==
    IF ~acc.ok THEN acc
    ELSE IF Raises(acc.view, o) THEN [acc EXCEPT !.ok = (o.op = "create")]
    ELSE [acc EXCEPT !.view = Append(@, o)]

Replayed(view, rows) == FoldLeft(ReplayRow, [view |-> view, ok |-> TRUE], rows)
Missed(c) == SubSeq(ops, c.applied + 1, Len(ops))
Readable == tail # "torn"
Refreshable(c) == Readable /\ Replayed(c.view, Missed(c)).ok

\* _refresh: a replay that ends half way keeps the rows before and the old position.
Refresh(c) ==
    LET r == Replayed(c.view, Missed(c))
    IN  IF ~Readable THEN c
        ELSE [view |-> r.view, applied |-> IF r.ok THEN Len(ops) ELSE c.applied]

Init ==
    /\ mode \in Modes
    /\ ops = <<>>
    /\ tail = "clean"
    /\ ctx = [s \in Servers |-> None]
    /\ call = [s \in Servers |-> None]
    /\ acked = <<>>

\* create_sandbox: the context stays also when its first refresh raises.
Open(s) ==
    /\ ctx[s] = None
    /\ ctx' = [ctx EXCEPT ![s] = Refresh([view |-> <<>>, applied |-> 0])]
    /\ UNCHANGED <<mode, ops, tail, call, acked>>

-------------------------------------------------------------------------------
\* The engine calls a tool makes.
Get(u) == [do |-> "get", uri |-> u]
Ensure(u) == [do |-> "ensure", uri |-> u]
Do(o) == [do |-> "write", uri |-> o.uri, row |-> o]
Say(u, m) == [do |-> "say", uri |-> u, msg |-> m]
Summarise(u) == <<Ensure(u), [do |-> "summary", uri |-> u]>>
ForkTo(v) == <<Ensure(v), [do |-> "fork", uri |-> v]>>
Note(u) == Do(Patch(u, "note", None))

\* Every message has an id of its own.
Sent == {st.msg : st \in {x \in UNION {ToSet(call[s].todo) : s \in {y \in Servers : call[y] # None}} : x.do = "say"}}
Written ==
    LET rows == ToSet(ops) \cup UNION {ToSet(ctx[s].view) : s \in {x \in Servers : ctx[x] # None}}
    IN  UNION {ToSet(o.msgs) : o \in {x \in rows : x.op = "patch" /\ x.msgs # None}}
NewMessages == Messages \ (Sent \cup Written)

QsoTools(u) == {<<Note(u)>>, <<Do(Create(u))>>} \cup {<<Do(Link(u, v))>> : v \in Chats}
ChatRead(u) == {<<Ensure(u), Get(u)>>}
ChatAppend(u) == {<<Ensure(u), Get(u), Say(u, m)>> : m \in NewMessages}
ChatSummarize(u) == {<<Ensure(u), Get(u)>> \o Summarise(u)}
ChatFork(u) == {<<Ensure(u), Get(u)>> \o ForkTo(v) : v \in Chats}

Tools == UNION {QsoTools(u) \cup ChatRead(u) \cup ChatAppend(u) \cup ChatSummarize(u) \cup ChatFork(u) : u \in Chats}

\* The calls of s that are about to make an engine call: the one it is in, or, when it is
\* idle, any that a client may ask for.
Waiting(s) ==
    CASE ctx[s] = None -> {}
      [] call[s] # None -> {call[s]} \ {c \in {call[s]} : c.fresh}
      [] OTHER ->
            IF (mode = "turns" /\ \E x \in Servers : call[x] # None) \/ Len(ctx[s].view) >= MaxOps[mode] THEN {}
            ELSE {[todo |-> program, held |-> <<>>, fresh |-> FALSE] : program \in Tools}

Spoken(msgs) == Len(SelectSeq(msgs, LAMBDA m : m # Summary))

\* The call goes on with the engine calls todo, or returns.  There is no summary of nothing.
GoOn(s, todo, held) ==
    LET over == todo = <<>> \/ (Spoken(held) = 0 /\ \E u \in Chats : todo = Summarise(u))
    IN  call' = [call EXCEPT ![s] = IF over THEN None ELSE [todo |-> todo, held |-> held, fresh |-> FALSE]]
Fail(s) == call' = [call EXCEPT ![s] = None]
CaughtUp(s) == ctx' = [ctx EXCEPT ![s] = Refresh(@)]

\* The refresh an engine call begins with is refused, or the permission check or the
\* limiter behind it (which calls they refuse, and when, is left open).  The plain reads
\* (read, timeline, export, subscribe, status) leave no more behind than this either.
Denied(s) ==
    /\ Waiting(s) # {}
    /\ CaughtUp(s)
    /\ Fail(s)
    /\ UNCHANGED <<mode, ops, tail, acked>>

\* A read of the runtime; _ensure_chat_object makes what is not there.
Look(s) ==
    /\ Waiting(s) # {} /\ Refreshable(ctx[s])
    /\ CaughtUp(s)
    /\ \E c \in Waiting(s) :
          LET u == Head(c.todo).uri
              view == Refresh(ctx[s]).view
          IN  \/ Head(c.todo).do = "get" /\ GoOn(s, Tail(c.todo), Says(view, u))
              \/ Head(c.todo).do = "ensure" /\ u \in Made(view) /\ GoOn(s, Tail(c.todo), c.held)
              \/ /\ Head(c.todo).do = "ensure" /\ u \notin Made(view)
                 /\ GoOn(s, <<Do(Create(u)), Do(Patch(u, "init", <<>>))>> \o Tail(c.todo), c.held)
    /\ UNCHANGED <<mode, ops, tail, acked>>

\* Mutant: the new message is not in the list that is written.
RowOf_Forgets(c) ==
    LET st == Head(c.todo)
    IN  CASE st.do = "write"   -> st.row
          [] st.do = "say"     -> Patch(st.uri, "say", c.held)
          [] st.do = "summary" -> Patch(st.uri, "summary", Append(c.held, Summary))
          [] st.do = "fork"    -> Patch(st.uri, "fork", c.held)

\* Mutant: the list that is written holds the new message only.
RowOf_OnlyNew(c) ==
    LET st == Head(c.todo)
    IN  CASE st.do = "write"   -> st.row
          [] st.do = "say"     -> Patch(st.uri, "say", <<st.msg>>)
          [] st.do = "summary" -> Patch(st.uri, "summary", Append(c.held, Summary))
          [] st.do = "fork"    -> Patch(st.uri, "fork", c.held)

\* The operation of a write; the chat writes carry the list that was read before.
RowOf(c) ==
    LET st == Head(c.todo)
    IN  CASE st.do = "write"   -> st.row
          [] st.do = "say"     -> Patch(st.uri, "say", Append(c.held, st.msg))
          [] st.do = "summary" -> Patch(st.uri, "summary", Append(c.held, Summary))
          [] st.do = "fork"    -> Patch(st.uri, "fork", c.held)
Row(s) == RowOf(call[s])

\* Mutant: the tools are asked only after the operation was logged.
CatchUp_LogsAnyway(s) ==
    /\ ctx[s] # None /\ Refreshable(ctx[s]) /\ Len(ops) < MaxOps[mode]
    /\ CaughtUp(s)
    /\ \E c \in Waiting(s) :
          /\ Head(c.todo).do \in {"write", "say", "summary", "fork"}
          /\ call' = [call EXCEPT ![s] = [c EXCEPT !.fresh = TRUE]]
    /\ UNCHANGED <<mode, ops, tail, acked>>

\* The refresh of an engine call that changes something, and what its tool refuses;
\* other servers may append between it and the append.
CatchUp(s) ==
    /\ ctx[s] # None /\ Refreshable(ctx[s]) /\ Len(ops) < MaxOps[mode]
    /\ CaughtUp(s)
    /\ \E c \in Waiting(s) :
          /\ Head(c.todo).do \in {"write", "say", "summary", "fork"}
          /\ IF Raises(Refresh(ctx[s]).view, RowOf(c)) THEN Fail(s)
             ELSE call' = [call EXCEPT ![s] = [c EXCEPT !.fresh = TRUE]]
    /\ UNCHANGED <<mode, ops, tail, acked>>

Writes(s) == call[s] # None /\ call[s].fresh /\ Len(ops) < MaxOps[mode]
Now(s) == Head(call[s].todo)

\* What follows a message: a summary after every SummaryEvery messages, an audit note.
Follow(u, msgs) ==
    (IF Spoken(msgs) % SummaryEvery = 0 THEN Summarise(u) ELSE <<>>)
        \o (IF Len(msgs) % AuditEvery = 0 THEN <<Note(u)>> ELSE <<>>)

\* The row reaches the file; behind a row without newline it makes one broken line.
PutRow(row) ==
    /\ Readable
    /\ ops' = Append(ops, row)
    /\ tail' = IF tail = "clean" THEN "clean" ELSE "torn"

\* A write that is cut: within the row, or exactly before its newline.
CutRow(row) ==
    /\ Readable
    /\ \/ tail' = "torn" /\ UNCHANGED ops
       \/ tail' = (IF tail = "clean" THEN "bare" ELSE "torn") /\ ops' = Append(ops, row)

Applied(s) == [ctx[s] EXCEPT !.view = Append(@, Row(s))]

Acknowledge(s) ==
    /\ acked' = IF Now(s).do = "say" THEN Append(acked, [uri |-> Now(s).uri, msg |-> Now(s).msg]) ELSE acked
    /\ IF Now(s).do = "say"
       THEN GoOn(s, Tail(call[s].todo) \o Follow(Now(s).uri, Row(s).msgs), Row(s).msgs)
       ELSE GoOn(s, Tail(call[s].todo), call[s].held)

\* An engine call that changes the sandbox: applied here, appended to the log.  The
\* position moves by one, whatever others appended since the refresh.
Commit(s) ==
    /\ Writes(s)
    /\ PutRow(Row(s))
    /\ ctx' = [ctx EXCEPT ![s] = [Applied(s) EXCEPT !.applied = @ + 1]]
    /\ Acknowledge(s)
    /\ UNCHANGED mode

\* The append raises: it finds a torn row, or the write fails with nothing, a part or
\* all but the newline written.  The operation stays applied in this runtime.
AppendFails(s) ==
    /\ Writes(s)
    /\ \/ ~Readable /\ UNCHANGED <<ops, tail>>
       \/ mode = "fails" /\ (CutRow(Row(s)) \/ UNCHANGED <<ops, tail>>)
    /\ ctx' = [ctx EXCEPT ![s] = Applied(s)]
    /\ Fail(s)
    /\ UNCHANGED <<mode, acked>>

\* A server process ends, also in the middle of an append.
Crash(s) ==
    /\ ctx[s] # None
    /\ \/ UNCHANGED <<ops, tail>>
       \/ Writes(s) /\ (PutRow(Row(s)) \/ CutRow(Row(s)))
    /\ ctx' = [ctx EXCEPT ![s] = None]
    /\ Fail(s)
    /\ UNCHANGED <<mode, acked>>

Next ==
    \E s \in Servers :
        \/ Open(s) \/ Denied(s) \/ Look(s) \/ CatchUp(s)
        \/ Commit(s) \/ AppendFails(s) \/ Crash(s)

Spec == Init /\ [][Next]_vars
-------------------------------------------------------------------------------
Opened == {s \in Servers : ctx[s] # None}

\* All processes that open the sandbox replay the same state: each runtime is what the
\* log replays to up to the position it has reached, nothing skipped or applied twice.
SameState == Readable => \A s \in Opened : ctx[s].view = Replayed(<<>>, SubSeq(ops, 1, ctx[s].applied)).view

\* SameState holds as long as the calls of the servers take turns, whatever crashes.
TurnsReplaySameState == mode = "turns" => SameState

\* With turns the log can always be replayed: no operation that was accepted once is
\* refused by a server that opens the sandbox later.
TurnsLogReplays == mode = "turns" => Replayed(<<>>, ops).ok

ForkedOver(u) == \E i \in DOMAIN ops : ops[i].op = "patch" /\ ops[i].uri = u /\ ops[i].why = "fork"

\* A list of messages holds those of u among acks, each once and in their order.
Keeps(msgs, acks, u) ==
    LET mine == {i \in DOMAIN acks : acks[i].uri = u}
    IN  /\ \A i \in mine : \E k \in DOMAIN msgs : msgs[k] = acks[i].msg
        /\ \A i, j \in mine : \A k, l \in DOMAIN msgs :
              msgs[k] = acks[i].msg /\ msgs[l] = acks[j].msg => (i < j <=> k < l)

\* With turns a conversation keeps every acknowledged message, in the order they were
\* acknowledged in, through summaries, audits, crashes and restarts (unless it was the
\* target of a fork, which replaces what was there).
TurnsKeepMessages ==
    mode = "turns" => \A u \in {x \in Chats : ~ForkedOver(x)} : Keeps(Says(ops, u), acked, u)

\* Also when calls race, and even where a conversation lost it: an acknowledged message
\* stays in the log as long as the log can be read.
AckedStaysInLog ==
    Readable => \A i \in DOMAIN acked :
        \E o \in ToSet(ops) : o.op = "patch" /\ o.uri = acked[i].uri /\ o.why = "say" /\ acked[i].msg \in ToSet(o.msgs)

===============================================================================
