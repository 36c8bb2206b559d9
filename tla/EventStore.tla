------------------------------ MODULE EventStore ------------------------------
(***************************************************************************)
(* storage/event_store: the JSONL event file that several instances append *)
(* to.  Every instance has its own JsonlEventStore object; the file and    *)
(* the <path>.lock file next to it are all they share.  An append takes    *)
(* the lock, reads the hash of the last line, links the new row to it,     *)
(* writes one line and releases the lock.  An instance may die between any *)
(* two of these steps, and a write may be cut short.                       *)
(*                                                                         *)
(* A SHA-256 digest of a row that contains the digest of the previous row  *)
(* stands for the whole history up to that row, so a digest is modelled as *)
(* the sequence of the events it covers: equal digests, equal histories.   *)
(***************************************************************************)
EXTENDS Naturals, Sequences

CONSTANTS
    Writers,      \* the instances (each a JsonlEventStore on the same path)
    Events,       \* the events, each offered to the store at most once
    ShortWrites,  \* how a write may be cut: "torn" inside the row, "bare" before its newline
    None          \* nobody holds the lock, no event in hand

ASSUME NoneAssumption == None \notin Writers \cup Events
ASSUME ShortWritesAssumption == ShortWrites \subseteq {"torn", "bare"}

VARIABLES
    rows,      \* the lines of the file that parse, oldest first
    tail,      \* "clean", or what the last write left behind: a "bare" row, a "torn" line
    lock,      \* holder of the flock on <path>.lock
    pc,        \* where each instance is
    event,     \* the event an instance is appending
    prevHash,  \* row["prev_hash"] of that event
    lastHash,  \* self._last_hash, kept by the code and read by nobody
    seen,      \* what the last query of an instance returned
    acked      \* the events whose append returned

vars == <<rows, tail, lock, pc, event, prevHash, lastHash, seen, acked>>

Digests == Seq(Events)
GENESIS == <<>>

\* _hash_row: the digest of an event linked to the digest prev.
HashRow(prev, e) == Append(prev, e)

Row(prev, e) == [event |-> e, prev_hash |-> prev, hash |-> HashRow(prev, e)]
Rows == [event : Events, prev_hash : Digests, hash : Digests]

\* _tail_hash_unlocked on a file whose last line parses.
TailHash == IF rows = <<>> THEN GENESIS ELSE rows[Len(rows)].hash

\* verify_chain: every row is linked to the one before and its digest is right.
VerifyChain(rs) ==
    \A i \in DOMAIN rs :
        /\ rs[i].prev_hash = IF i = 1 THEN GENESIS ELSE rs[i-1].hash
        /\ rs[i].hash = HashRow(rs[i].prev_hash, rs[i].event)

InFile == {rows[i].event : i \in DOMAIN rows}

Init ==
    /\ rows = <<>>
    /\ tail = "clean"
    /\ lock = None
    /\ pc = [w \in Writers |-> "idle"]
    /\ event = [w \in Writers |-> None]
    /\ prevHash = [w \in Writers |-> GENESIS]
    /\ lastHash = [w \in Writers |-> GENESIS]
    /\ seen = [w \in Writers |-> <<>>]
    /\ acked = {}

-------------------------------------------------------------------------------
\* The locals of append go away when it returns, raises or dies.
DropLocals(w) ==
    /\ event' = [event EXCEPT ![w] = None]
    /\ prevHash' = [prevHash EXCEPT ![w] = GENESIS]

\* Every call of append brings a new event (a fresh event_id).
Fresh(e) == e \notin InFile \cup acked /\ \A w \in Writers : event[w] # e

AppendLock(w) ==
    /\ pc[w] = "idle"
    /\ lock = None
    /\ \E e \in Events : Fresh(e) /\ event' = [event EXCEPT ![w] = e]
    /\ lock' = w
    /\ pc' = [pc EXCEPT ![w] = "locked"]
    /\ UNCHANGED <<rows, tail, prevHash, lastHash, seen, acked>>

\* Mutant: the row is linked to the hash this instance remembers of its own last
\* append, not to the tail of the file.
ReadTail_OwnHash(w) ==
    /\ pc[w] = "locked"
    /\ tail # "torn"
    /\ prevHash' = [prevHash EXCEPT ![w] = lastHash[w]]
    /\ pc' = [pc EXCEPT ![w] = "linked"]
    /\ UNCHANGED <<rows, tail, lock, event, lastHash, seen, acked>>

\* Mutant: a last line that does not parse is skipped.
ReadTail_SkipsTear(w) ==
    /\ pc[w] = "locked"
    /\ prevHash' = [prevHash EXCEPT ![w] = TailHash]
    /\ pc' = [pc EXCEPT ![w] = "linked"]
    /\ UNCHANGED <<rows, tail, lock, event, lastHash, seen, acked>>

\* The last line is parsed to find its hash.
ReadTail(w) ==
    /\ pc[w] = "locked"
    /\ tail # "torn"
    /\ prevHash' = [prevHash EXCEPT ![w] = TailHash]
    /\ pc' = [pc EXCEPT ![w] = "linked"]
    /\ UNCHANGED <<rows, tail, lock, event, lastHash, seen, acked>>

\* Mutant: no finally: a raise leaves the file locked.
ReadTailFails_KeepsLock(w) ==
    /\ pc[w] = "locked"
    /\ tail = "torn"
    /\ pc' = [pc EXCEPT ![w] = "idle"]
    /\ DropLocals(w)
    /\ UNCHANGED <<rows, tail, lock, lastHash, seen, acked>>

\* json.loads raises on a torn last line; both locks are released on the way out.
ReadTailFails(w) ==
    /\ pc[w] = "locked"
    /\ tail = "torn"
    /\ lock' = None
    /\ pc' = [pc EXCEPT ![w] = "idle"]
    /\ DropLocals(w)
    /\ UNCHANGED <<rows, tail, lastHash, seen, acked>>

\* The line is added at the end of the file.  If the last row has no newline the
\* two rows become one line, which no reader can parse.
PutLine(w) ==
    IF tail = "bare"
    THEN /\ rows' = SubSeq(rows, 1, Len(rows) - 1)
         /\ tail' = "torn"
    ELSE /\ rows' = Append(rows, Row(prevHash[w], event[w]))
         /\ UNCHANGED tail

WriteRow(w) ==
    /\ pc[w] = "linked"
    /\ PutLine(w)
    /\ lastHash' = [lastHash EXCEPT ![w] = HashRow(prevHash[w], event[w])]
    /\ pc' = [pc EXCEPT ![w] = "written"]
    /\ UNCHANGED <<lock, event, prevHash, seen, acked>>

\* Mutant: a cut write takes the row before with it.
CutLine_EatsRow(w) ==
    \/ UNCHANGED <<rows, tail>>
    \/ /\ rows # <<>>
       /\ rows' = SubSeq(rows, 1, Len(rows) - 1)
       /\ tail' = "torn"

\* What a cut write leaves: nothing, a part of the row, or all of it but the newline.
CutLine(w) ==
    \/ UNCHANGED <<rows, tail>>
    \/ /\ tail = "clean" /\ "bare" \in ShortWrites
       /\ rows' = Append(rows, Row(prevHash[w], event[w]))
       /\ tail' = "bare"
    \/ /\ tail = "clean" /\ "torn" \in ShortWrites
       /\ tail' = "torn"
       /\ UNCHANGED rows
    \/ /\ tail = "bare" /\ ShortWrites # {}
       /\ rows' = SubSeq(rows, 1, Len(rows) - 1)
       /\ tail' = "torn"

\* The write raises (a full disk): append raises and the instance lives on.
WriteFails(w) ==
    /\ pc[w] = "linked"
    /\ CutLine(w)
    /\ lock' = None
    /\ pc' = [pc EXCEPT ![w] = "idle"]
    /\ DropLocals(w)
    /\ UNCHANGED <<lastHash, seen, acked>>

\* append releases the lock and returns.
AppendReturns(w) ==
    /\ pc[w] = "written"
    /\ acked' = acked \cup {event[w]}
    /\ lock' = None
    /\ pc' = [pc EXCEPT ![w] = "idle"]
    /\ DropLocals(w)
    /\ UNCHANGED <<rows, tail, lastHash, seen>>

\* query, all and verify_chain: the whole file is read under the lock, and a line
\* that does not parse makes them raise.
Query(w) ==
    /\ pc[w] = "idle"
    /\ lock = None
    /\ tail # "torn"
    /\ seen' = [seen EXCEPT ![w] = rows]
    /\ UNCHANGED <<rows, tail, lock, pc, event, prevHash, lastHash, acked>>

\* The process dies; the kernel drops its flock.  Inside the write, the line is cut.
Crash(w) ==
    /\ pc[w] # "down"
    /\ IF pc[w] = "linked" THEN CutLine(w) ELSE UNCHANGED <<rows, tail>>
    /\ lock' = IF lock = w THEN None ELSE lock
    /\ pc' = [pc EXCEPT ![w] = "down"]
    /\ seen' = [seen EXCEPT ![w] = <<>>]
    /\ DropLocals(w)
    /\ UNCHANGED <<lastHash, acked>>

\* The constructor reads the last line under the lock; on a torn line it raises
\* and the instance stays down.
Restart(w) ==
    /\ pc[w] = "down"
    /\ lock = None
    /\ tail # "torn"
    /\ lastHash' = [lastHash EXCEPT ![w] = TailHash]
    /\ pc' = [pc EXCEPT ![w] = "idle"]
    /\ UNCHANGED <<rows, tail, lock, event, prevHash, seen, acked>>

Finish(w) == ReadTail(w) \/ ReadTailFails(w) \/ WriteRow(w) \/ WriteFails(w) \/ AppendReturns(w)

Next ==
    \E w \in Writers :
        \/ AppendLock(w) \/ Finish(w) \/ Query(w)
        \/ Crash(w) \/ Restart(w)

Spec == Init /\ [][Next]_vars

\* An instance that holds the lock keeps running its append: nothing in append
\* waits for anything once the lock is held.
FairSpec == Spec /\ \A w \in Writers : WF_vars(Finish(w))
-------------------------------------------------------------------------------
TypeOK ==
    /\ rows \in Seq(Rows)
    /\ tail \in {"clean", "bare", "torn"}
    /\ lock \in Writers \cup {None}
    /\ pc \in [Writers -> {"idle", "locked", "linked", "written", "down"}]
    /\ event \in [Writers -> Events \cup {None}]
    /\ prevHash \in [Writers -> Digests]
    /\ lastHash \in [Writers -> Digests]
    /\ seen \in [Writers -> Seq(Rows)]
    /\ acked \in SUBSET Events

\* verify_chain never returns False, whatever was interleaved, cut or restarted:
\* a row is always linked to the row physically before it, also when another
\* instance wrote that one (mesh contract: arbitrate by tail hash under lock).
ChainIntact == VerifyChain(rows)

\* A torn line is final: nobody appends behind it, so the damage is never buried
\* under later rows (mesh contract: stop writes to a broken artifact).
TornIsFinal == [][tail # "torn"]_<<rows, tail>>

\* The lock of the file is always given back: no outcome of an append (return,
\* raise on a torn tail, raise in the write, death) leaves other instances waiting.
LockReleased == \A w \in Writers : (lock = w) ~> (lock # w)

\* The store implements the shared log: one order for all instances, nothing acknowledged
\* that is not stored.  Behind a torn line the rows are there, but every read raises.
Log == INSTANCE SharedLog WITH log <- [i \in DOMAIN rows |-> rows[i].event]
ImplementsSharedLog == Log!SSpec
===============================================================================
