--------------------------------- MODULE Solis ---------------------------------
(***************************************************************************)
(* The Solis services (solis/services) on top of the state fabric: stars,  *)
(* one constellation of them, their gates, signals and Merkle anchors.     *)
(* One call is a long row of separate patches: of the star, of its stellar *)
(* event, of an anchor, of every gate decision and of the gate health, of  *)
(* the reward; and a call of the constellation makes such calls for star   *)
(* after star.  Calls are synchronous and one at a time, but every patch   *)
(* may raise, before it took effect or after, and the process may end      *)
(* between any two.  Only the event log is then read back: the registry    *)
(* with all objects, the Merkle accumulator and the links start empty, and *)
(* nothing fills them from the log (see StateRuntime, Restart).            *)
(***************************************************************************)
EXTENDS Integers, FiniteSets, SequencesExt

CONSTANTS
    Stars,
    MemberLists,       \* the star lists a constellation is created with
    Deltas,            \* the changes of the entropy callers ask for
    Caps,              \* the entropy thresholds of the policies
    Given,             \* the states create_star is given
    Full,              \* the collapse probability 1, in the unit of the entropy
    Spike,             \* the entropy a cascade adds
    MaxGrowth,         \* max_entropy_growth of the policy guard
    Tolerance,         \* collapse_consistency_tolerance of the policy guard
    SignalTolerance,   \* the tolerance gate 3 of the signals has for the same formula
    Warning,           \* collapse_warning_threshold
    CascadeThreshold,  \* cascade_threshold, in percent
    EpochSize,         \* anchor_interval
    MaxCalls, MaxBoots,   \* bounds on the calls and on the starts of the process
    MaxFailures,       \* bound: with as many failed calls no further patch raises
    None

ASSUME SolisAssumption ==
    /\ Deltas \subseteq Int /\ Caps \subseteq Nat /\ Spike \in Nat
    /\ Given \subseteq [entropy : Nat, collapse : Nat]
    /\ MemberLists \subseteq Seq(Stars)
    /\ Full \in Nat /\ CascadeThreshold \in Nat /\ MaxGrowth \in Nat /\ Tolerance \in Nat /\ SignalTolerance \in Nat
    /\ EpochSize \in Nat \ {0}
    /\ None \notin [entropy : Nat, collapse : Nat]
    /\ None \notin [members : Seq(Stars), hot : SUBSET Nat, cascade : BOOLEAN,
                     last : [call : Nat, stars : SUBSET Stars] \cup {None}]

VARIABLES
    star,            \* the star objects in the registry, None before their create
    rows,            \* every patch of a star that took effect, in all lives (history variable)
    remembered,      \* the places of those in the event log in memory
    told,            \* the stellar events: the state told of a patch, by its place in rows
    hashes,          \* the Merkle accumulator: the places of the patches it holds
    anchor,          \* the anchor objects by epoch, None before their patch
    known,           \* the decision objects in the registry
    decided,         \* how many gate decisions passed and failed, in the timelines in memory
    filed,           \* the same in the file of the event store
    health,          \* the gate health objects: what they count of which decision objects
    signal,          \* the signal objects of each star
    constellation,   \* the constellation object, None before its create
    links,           \* the links between stars
    proposal,        \* the object of the optimizer
    agenda,          \* what the call under way still has to do
    emitted,         \* the last stellar event: its patch, and whether it was anchored
    call,            \* the last call and how it ended
    failed,          \* the calls that raised or were cut short by a restart (history variable)
    boots            \* the starts of the process

gates == <<known, decided, filed, health>>
others == <<signal, constellation, links, proposal>>
objects == <<star, rows, remembered, told, hashes, anchor, gates, others>>
vars == <<objects, agenda, emitted, call, failed, boots>>

Scopes == {"star", "constellation", "signal"}

\* The objects that record the decisions: one for each gate of each target of a scope; the
\* constellation as a target is None, and "post" is the gate after the commit.
Decisions ==
    LET Gates == {"gate1", "gate2", "gate3", "post"}
    IN  [scope : {"star", "signal"}, target : Stars, gate : Gates] \cup
        [scope : {"constellation"}, target : {None}, gate : Gates]

NoDecisions == [u \in Decisions |-> [passed |-> 0, failed |-> 0]]

\* The signals of a star: those computed over a window of its timeline, and the reward.
Metrics == {"drift", "reward"}
-------------------------------------------------------------------------------
\* collapse_probability_v1 with magnetic field and fusion rate at rest: clamped.
Collapse(entropy) == IF entropy < Full THEN entropy ELSE Full

\* The state of an object that was created and never patched.
Blank == [entropy |-> 0, collapse |-> 0]

\* project_stellar_v1: the collapse follows the entropy.
Projected(s, delta) ==
    LET e == IF s.entropy + delta < 0 THEN 0 ELSE s.entropy + delta
    IN  [entropy |-> e, collapse |-> Collapse(e)]

\* apply_policy: the collapse stays as it was declared.
UnderPolicy(s, cap) == [s EXCEPT !.entropy = IF @ < cap THEN @ ELSE cap]

Distance(a, b) == IF a < b THEN b - a ELSE a - b

\* The difference between the declared collapse and the formula.
Drift(s) == Distance(s.collapse, Collapse(s.entropy))

\* PolicyGuard.evaluate_transition.
Allowed(old, new) == Drift(new) <= Tolerance /\ new.entropy - old.entropy <= MaxGrowth

\* One gate: its decision is recorded, then the health of its scope.
Gate(scope, target, gate, passed) ==
    <<[do |-> "decide", uri |-> [scope |-> scope, target |-> target, gate |-> gate], passed |-> passed],
      [do |-> "rollup", scope |-> scope]>>

\* A gate that lets the call go on, or refuses: that is recorded, and then the call raises.
Passes(scope, target, gate, passed, more) ==
    Gate(scope, target, gate, passed) \o (IF passed THEN more ELSE <<[do |-> "raise"]>>)

\* The gates before a commit.  Gate 1 replays one event on every node with a pure function;
\* gate 2 asks for the invariants, gate 3 for the formula.
PreCommit(scope, target, lawful, formula, commit) ==
    Passes(scope, target, "gate1", TRUE,
        Passes(scope, target, "gate2", lawful,
            Passes(scope, target, "gate3", formula, commit)))

\* Mutant: the stellar event is left to a later call.
Commit_Untold(s, new) ==
    PreCommit("star", s, Allowed(star[s], new), Drift(new) <= Tolerance,
        <<[do |-> "write", star |-> s, new |-> new],
          [do |-> "signal", star |-> s, metric |-> "reward", new |-> new]>>)

\* Mutant: the patch leaves the collapse of the star as it was.
Commit_Partial(s, new) ==
    LET written == [new EXCEPT !.collapse = star[s].collapse]
    IN  PreCommit("star", s, Allowed(star[s], new), Drift(new) <= Tolerance,
            <<[do |-> "write", star |-> s, new |-> written], [do |-> "tell", new |-> written],
              [do |-> "post", star |-> s],
              [do |-> "signal", star |-> s, metric |-> "reward", new |-> written]>>)

\* What is left of a patch of a star once the guard has allowed it.
Commit(s, new) ==
    PreCommit("star", s, Allowed(star[s], new), Drift(new) <= Tolerance,
        <<[do |-> "write", star |-> s, new |-> new], [do |-> "tell", new |-> new],
          [do |-> "post", star |-> s],
          [do |-> "signal", star |-> s, metric |-> "reward", new |-> new]>>)

\* The members a propagation patches; the loop passes over its source, and the first other
\* member raises when the magnitude is negative (relationship_delta).
Impact(members, source, delta, lawful) ==
    [i \in DOMAIN members |-> IF members[i] = source THEN [do |-> "skip"]
                              ELSE IF lawful THEN [do |-> "patch", star |-> members[i], delta |-> delta]
                              ELSE [do |-> "raise"]]

\* A commit of the constellation, and its gate afterwards.
CommitConstellation(lawful, c, more) ==
    PreCommit("constellation", None, lawful, TRUE,
        <<[do |-> "constellation", new |-> c]>> \o Gate("constellation", None, "post", TRUE) \o more)

\* Mutant: the constellation is patched before its stars.
Propagation_First(source, delta, lawful, c) ==
    CommitConstellation(lawful, c, Impact(c.members, source, delta, lawful))

\* propagate_from_star: star after star, then the constellation itself.
Propagation(source, delta, lawful, c) ==
    Impact(c.members, source, delta, lawful) \o CommitConstellation(lawful, c, <<>>)

\* _propagate_cascade, and the optimizer's proposal after it.
Cascade(members, c) ==
    (IF c.cascade
     THEN [i \in DOMAIN members |-> [do |-> "patch", star |-> members[i], delta |-> Spike]] ELSE <<>>)
        \o <<[do |-> "propose", new |-> c]>>

Sum(values) == FoldLeft(LAMBDA a, b : a + b, 0, values)

\* The contagion index in percent: 65 of the mean collapse, 20 of the dispersion of the
\* entropies and 15 of what the magnetic field, at rest, lacks; all times n * n * Full.
Contagion(members) ==
    LET n == Len(members)
        collapses == [i \in 1..n |-> star[members[i]].collapse]
        entropies == [i \in 1..n |-> star[members[i]].entropy]
        distances == [i \in 1..n |-> Distance(n * entropies[i], Sum(entropies))]
    IN  65 * n * Sum(collapses) + 20 * Sum(distances) + 15 * n * n * Full

\* What recompute_constellation finds: how many members are about to collapse.
Recomputed(c) ==
    LET n == Len(c.members)
        hot == {i \in DOMAIN c.members : star[c.members[i]].collapse >= Warning}
    IN  [c EXCEPT !.hot = hot,
                  !.cascade = hot # {} \/ Contagion(c.members) >= CascadeThreshold * n * n * Full]

BlankConstellation == [members |-> <<>>, hot |-> {}, cascade |-> FALSE, last |-> None]

\* _has_path, see EntanglementGraph.
Reaches(L, a, b) ==
    \A S \in SUBSET Stars : a \in S /\ (\A e \in L : e[1] \in S => e[2] \in S) => b \in S

\* _entangle_constellation: every ordered pair of members, one link after the other.
Links(members) ==
    LET n == Len(members)
    IN  [k \in 1 .. n * n |-> [do |-> "link", from |-> members[((k - 1) \div n) + 1],
                               to |-> members[((k - 1) % n) + 1]]]
-------------------------------------------------------------------------------
NoStars == [s \in Stars |-> None]
NoSignals == [s \in Stars |-> [m \in Metrics |-> None]]
NoHealth == [c \in Scopes |-> None]

Init ==
    /\ star = NoStars /\ signal = NoSignals /\ health = NoHealth
    /\ rows = <<>> /\ remembered = {} /\ told = {}
    /\ hashes = <<>> /\ anchor = {} /\ links = {}
    /\ known = {} /\ decided = NoDecisions /\ filed = NoDecisions
    /\ constellation = None /\ proposal = None
    /\ agenda = <<>>
    /\ emitted = [row |-> 0, anchored |-> FALSE]
    /\ call = [no |-> 0, do |-> "none", status |-> "returned"]
    /\ failed = {}
    /\ boots = 1

\* A call begins with what it has to do.
Begin(do, what) ==
    /\ agenda = <<>> /\ call.no < MaxCalls
    /\ agenda' = what
    /\ call' = [no |-> call.no + 1, do |-> do, status |-> "running"]
    /\ UNCHANGED <<objects, emitted, failed, boots>>

\* create_star: no guard and no gate; a star that exists gets its first state again.
CreateStar(s, new) ==
    Begin("create", <<[do |-> "create", star |-> s], [do |-> "write", star |-> s, new |-> new],
                      [do |-> "tell", new |-> new]>>)

\* patch_star and apply_relationship; the tool of that name emits the signals as well.
PatchStar(s, delta) ==
    \/ Begin("patch", <<[do |-> "patch", star |-> s, delta |-> delta]>>)
    \/ Begin("patch", <<[do |-> "patch", star |-> s, delta |-> delta], [do |-> "signals", star |-> s]>>)

ApplyPolicy(s, cap) == Begin("policy", <<[do |-> "policy", star |-> s, cap |-> cap]>>)

EmitSignals(s) == Begin("signals", <<[do |-> "signals", star |-> s]>>)

\* create_constellation; nobody asks whether its stars exist.
CreateConstellation(members) ==
    LET c == [BlankConstellation EXCEPT !.members = members,
                  !.last = IF constellation = None THEN None ELSE constellation.last]
    IN  Begin("constellation",
              <<[do |-> "open"]>> \o CommitConstellation(TRUE, c, Links(members)))

\* recompute_constellation reads every member first, and raises when one does not exist.
Recompute ==
    /\ constellation # None /\ constellation.members # <<>>
    /\ \A i \in DOMAIN constellation.members : star[constellation.members[i]] # None
    /\ LET c == Recomputed(constellation)
       IN  Begin("recompute", CommitConstellation(TRUE, c, Cascade(c.members, c)))

Propagate(source, delta, lawful) ==
    /\ constellation # None
    /\ LET members == constellation.members
           targets == {members[i] : i \in DOMAIN members} \ {source}
       IN  Begin("propagate",
                 Propagation(source, delta, lawful,
                             [constellation EXCEPT !.last = [call |-> call.no + 1, stars |-> targets]]))
-------------------------------------------------------------------------------
\* The head of the agenda is done, and more may come before the rest.
Item == Head(agenda)
At(do) == agenda # <<>> /\ Item.do = do
Goes(more) ==
    /\ agenda' = more \o Tail(agenda)
    /\ call' = IF agenda' = <<>> THEN [call EXCEPT !.status = "returned"] ELSE call
    /\ UNCHANGED failed

\* The call raises: the rest is not done.
Raises ==
    /\ agenda' = <<>>
    /\ call' = [call EXCEPT !.status = "raised"]
    /\ failed' = failed \cup {call.no}

\* An exception out of the state engine.
PatchRaises == Cardinality(failed) < MaxFailures /\ Raises

\* A patch took effect in the registry and in the log in memory.  If the append to the store
\* raises, it is not in the file; if the checkpoint behind it raises, it is; or it returns.
Ends(kept, more) == (kept /\ Goes(more)) \/ PatchRaises

Create ==
    /\ At("create")
    /\ star' = [star EXCEPT ![Item.star] = IF @ = None THEN Blank ELSE @]
    /\ Goes(<<>>)
    /\ UNCHANGED <<rows, remembered, told, hashes, anchor, gates, others, emitted, boots>>

Open ==
    /\ At("open")
    /\ constellation' = IF constellation = None THEN BlankConstellation ELSE constellation
    /\ Goes(<<>>)
    /\ UNCHANGED <<star, rows, remembered, told, hashes, anchor, gates, signal, links, proposal,
                   emitted, boots>>

\* The star is read and its next state computed; the guard may refuse it.
Guard(s, new) ==
    /\ IF Allowed(star[s], new) THEN Goes(Commit(s, new)) ELSE Raises
    /\ UNCHANGED <<objects, emitted, boots>>

Patch == At("patch") /\ star[Item.star] # None /\ Guard(Item.star, Projected(star[Item.star], Item.delta))
Policy == At("policy") /\ star[Item.star] # None /\ Guard(Item.star, UnderPolicy(star[Item.star], Item.cap))

\* The last state in the timeline of a star, or without one that of the object.  The clock
\* starts again with the process, so the last by timestamp may be that of any life.
Latest(s) ==
    LET mine == {i \in remembered : rows[i].star = s}
    IN  IF mine = {} THEN {star[s]} \ {None}
        ELSE {rows[i].state : i \in {k \in mine : \A j \in mine : rows[j].life = rows[k].life => j <= k}}

\* The gates of the signals judge the last state in the timeline of the star.
Signals ==
    /\ At("signals")
    /\ \E s \in Latest(Item.star) :
          Goes(PreCommit("signal", Item.star, TRUE, Drift(s) <= SignalTolerance,
                  <<[do |-> "signal", star |-> Item.star, metric |-> "drift", new |-> s],
                    [do |-> "signal", star |-> Item.star, metric |-> "reward", new |-> s]>>
                    \o Gate("signal", Item.star, "post", TRUE)))
    /\ UNCHANGED <<objects, emitted, boots>>

OneMore(counts, u, passed) ==
    IF passed THEN [counts EXCEPT ![u].passed = @ + 1] ELSE [counts EXCEPT ![u].failed = @ + 1]

\* emit_gate_decision: the object is registered; its patch may raise, with or without effect.
Decide ==
    /\ At("decide")
    /\ known' = known \cup {Item.uri}
    /\ \/ PatchRaises /\ UNCHANGED <<decided, filed>>
       \/ \E kept \in BOOLEAN :
             /\ decided' = OneMore(decided, Item.uri, Item.passed)
             /\ filed' = IF kept THEN OneMore(filed, Item.uri, Item.passed) ELSE filed
             /\ Ends(kept, <<>>)
    /\ UNCHANGED <<star, rows, remembered, told, hashes, anchor, health, others, emitted, boots>>

\* Mutant: what was counted once is not counted again.
Counted_On(scope) ==
    [u \in {k \in known : k.scope = scope} |->
        IF health[scope] # None /\ u \in DOMAIN health[scope] THEN health[scope][u] ELSE decided[u]]

\* emit_gate_health_rollup counts the timelines of the decision objects in the registry.
Counted(scope) == [u \in {k \in known : k.scope = scope} |-> decided[u]]

Rollup ==
    /\ At("rollup")
    /\ health' = [health EXCEPT ![Item.scope] = Counted(Item.scope)]
    /\ Ends(TRUE, <<>>)
    /\ UNCHANGED <<star, rows, remembered, told, hashes, anchor, known, decided, filed, others,
                   emitted, boots>>

Skip ==
    /\ At("skip")
    /\ Goes(<<>>)
    /\ UNCHANGED <<objects, emitted, boots>>

Refused ==
    /\ At("raise")
    /\ Raises
    /\ UNCHANGED <<objects, emitted, boots>>

Write ==
    /\ At("write")
    /\ star' = [star EXCEPT ![Item.star] = Item.new]
    /\ \E kept \in BOOLEAN :
          /\ rows' = Append(rows, [star |-> Item.star, state |-> Item.new, call |-> call.no,
                                   by |-> call.do, life |-> boots, kept |-> kept])
          /\ Ends(kept, <<>>)
    /\ remembered' = remembered \cup {Len(rows) + 1}
    /\ UNCHANGED <<told, hashes, anchor, gates, others, emitted, boots>>

\* Mutant: every patch behind the first epoch is anchored.
ShouldAnchor_Past(count) == count >= EpochSize

\* Mutant: one patch too early.
ShouldAnchor_Off(count) == count % EpochSize = 1

ShouldAnchor(count) == count > 0 /\ count % EpochSize = 0

\* _emit_stellar_event: the object, then its hash, and an anchor when an epoch is full.
\* When the patch of the object raises, the hash is never appended.
Tell ==
    /\ At("tell")
    /\ told' = told \cup {[row |-> Len(rows), state |-> Item.new]}
    /\ \/ /\ hashes' = Append(hashes, Len(rows))
          /\ emitted' = [row |-> Len(rows), anchored |-> FALSE]
          /\ Goes(IF ShouldAnchor(Len(hashes')) THEN <<[do |-> "anchor"]>> ELSE <<>>)
       \/ PatchRaises /\ UNCHANGED <<hashes, emitted>>
    /\ UNCHANGED <<star, rows, remembered, anchor, gates, others, boots>>

\* Mutant: the root is that of the last epoch only.
Root_LastEpoch == SubSeq(hashes, Len(hashes) - EpochSize + 1, Len(hashes))

Root == hashes

Epoch == Len(hashes) \div EpochSize

\* _emit_anchor_event: an anchor object that exists is patched again.
Anchor ==
    /\ At("anchor")
    /\ anchor' = {a \in anchor : a.epoch # Epoch} \cup
                 {[epoch |-> Epoch, root |-> Root, count |-> Len(hashes)]}
    /\ emitted' = [emitted EXCEPT !.anchored = TRUE]
    /\ Ends(TRUE, <<>>)
    /\ UNCHANGED <<star, rows, remembered, told, hashes, gates, others, boots>>

\* _run_post_commit_gates: a patch that filled an epoch must have been anchored.
PostCommit ==
    /\ At("post")
    /\ LET missing == Len(hashes) > 0 /\ Len(hashes) % EpochSize = 0 /\ ~emitted.anchored
       IN  Goes(Passes("star", Item.star, "post", ~missing, <<>>))
    /\ UNCHANGED <<objects, emitted, boots>>

Signal ==
    /\ At("signal")
    /\ signal' = [signal EXCEPT ![Item.star][Item.metric] = Item.new]
    /\ Ends(TRUE, <<>>)
    /\ UNCHANGED <<star, rows, remembered, told, hashes, anchor, gates, constellation, links,
                   proposal, emitted, boots>>

Constellation ==
    /\ At("constellation")
    /\ constellation' = Item.new
    /\ Ends(TRUE, <<>>)
    /\ UNCHANGED <<star, rows, remembered, told, hashes, anchor, gates, signal, links, proposal,
                   emitted, boots>>

\* A link that would close a cycle is passed over.
Link ==
    /\ At("link")
    /\ links' = IF Reaches(links, Item.to, Item.from) THEN links
                ELSE links \cup {<<Item.from, Item.to>>}
    /\ Goes(<<>>)
    /\ UNCHANGED <<star, rows, remembered, told, hashes, anchor, gates, signal, constellation,
                   proposal, emitted, boots>>

Propose ==
    /\ At("propose")
    /\ proposal' = [hot |-> Item.new.hot, cascade |-> Item.new.cascade]
    /\ Ends(TRUE, <<>>)
    /\ UNCHANGED <<star, rows, remembered, told, hashes, anchor, gates, signal, constellation,
                   links, emitted, boots>>

\* A patch raises before it changed anything.
StepFails ==
    /\ agenda # <<>>
    /\ Item.do \in {"rollup", "write", "tell", "anchor", "signal", "constellation", "propose"}
    /\ PatchRaises
    /\ UNCHANGED <<objects, emitted, boots>>

\* An object that is read does not exist; the guard also refuses a policy on a star that was
\* created and never patched, which has no mass.
Missing ==
    /\ \/ At("patch") /\ star[Item.star] = None
       \/ At("policy") /\ star[Item.star] \in {None, Blank}
       \/ At("signals") /\ Latest(Item.star) = {}
    /\ Raises
    /\ UNCHANGED <<objects, emitted, boots>>

\* The process ends and starts again.  The log in memory is what the file has, or empty when
\* it cannot be read; the registry, the accumulator and the links are empty.
Restart ==
    /\ boots < MaxBoots /\ boots' = boots + 1
    /\ star' = NoStars /\ signal' = NoSignals /\ health' = NoHealth
    /\ hashes' = <<>> /\ anchor' = {} /\ links' = {} /\ known' = {} /\ agenda' = <<>>
    /\ constellation' = None /\ proposal' = None
    /\ \E readable \in BOOLEAN :
          /\ remembered' = {i \in DOMAIN rows : readable /\ rows[i].kept}
          /\ decided' = IF readable THEN filed ELSE NoDecisions
    /\ call' = [call EXCEPT !.status = "crashed"]
    /\ failed' = IF call.status = "running" THEN failed \cup {call.no} ELSE failed
    /\ UNCHANGED <<rows, told, filed, emitted>>

Next ==
    \/ \E s \in Stars :
          \/ \E g \in Given : CreateStar(s, g)
          \/ \E d \in Deltas : PatchStar(s, d) \/ \E lawful \in BOOLEAN : Propagate(s, d, lawful)
          \/ \E c \in Caps : ApplyPolicy(s, c)
          \/ EmitSignals(s)
    \/ \E m \in MemberLists : CreateConstellation(m)
    \/ Recompute
    \/ Create \/ Open \/ Patch \/ Policy \/ Signals \/ Decide \/ Rollup \/ Skip \/ Refused \/ Write
    \/ Tell \/ Anchor \/ PostCommit \/ Signal \/ Constellation \/ Link \/ Propose
    \/ StepFails \/ Missing \/ Restart

Spec == Init /\ [][Next]_vars
-------------------------------------------------------------------------------
Calls == {"none", "create", "patch", "policy", "signals", "constellation", "recompute", "propagate"}
States == [entropy : Nat, collapse : Nat]
Constellations ==
    [members : Seq(Stars), hot : SUBSET Nat, cascade : BOOLEAN,
     last : [call : Nat, stars : SUBSET Stars] \cup {None}]

Counts == [passed : Nat, failed : Nat]

TypeOK ==
    /\ star \in [Stars -> States \cup {None}]
    /\ rows \in Seq([star : Stars, state : States, call : Nat, by : Calls, life : Nat, kept : BOOLEAN])
    /\ remembered \subseteq DOMAIN rows
    /\ told \subseteq [row : Nat, state : States]
    /\ hashes \in Seq(Nat)
    /\ anchor \subseteq [epoch : Nat, root : Seq(Nat), count : Nat]
    /\ known \subseteq Decisions
    /\ decided \in [Decisions -> Counts] /\ filed \in [Decisions -> Counts]
    /\ DOMAIN health = Scopes
    /\ \A c \in Scopes : health[c] # None =>
          DOMAIN health[c] \subseteq Decisions /\ health[c] \in [DOMAIN health[c] -> Counts]
    /\ signal \in [Stars -> [Metrics -> States \cup {None}]]
    /\ constellation \in Constellations \cup {None}
    /\ links \subseteq Stars \X Stars
    /\ proposal \in [hot : SUBSET Nat, cascade : BOOLEAN] \cup {None}
    /\ emitted \in [row : Nat, anchored : BOOLEAN]
    /\ call \in [no : Nat, do : Calls, status : {"returned", "running", "raised", "crashed"}]
    /\ failed \subseteq Nat
    /\ boots \in Nat

\* However policies and patches follow each other, the collapse a star declares stays
\* within the tolerance of the formula, unless the star was created with another one.
CollapseHonest ==
    \A i \in DOMAIN rows : rows[i].by # "create" => Drift(rows[i].state) <= Tolerance

\* The patch is the last one of a call that failed, or that is still running.
BrokenOff(i) ==
    /\ rows[i].call \in failed \/ (call.status = "running" /\ rows[i].call = call.no)
    /\ \A j \in DOMAIN rows : rows[j].call = rows[i].call => j <= i

\* Every patch of a star has its stellar event, in whatever call and life it was, unless its
\* call broke off behind it: no call goes on, to other stars or to its end, with a patch
\* untold.  And every stellar event tells the state its patch wrote.
PatchesAreTold ==
    /\ \A i \in DOMAIN rows : (\E t \in told : t.row = i) \/ BrokenOff(i)
    /\ \A t \in told : t.row \in DOMAIN rows /\ rows[t.row].state = t.state

\* The accumulator holds the patches of this life of the process in their order, and leaves
\* out none but those behind which a call broke off.  The anchor of epoch e is over the first
\* e * EpochSize of them, and a whole epoch has its anchor unless the call that filled it
\* broke off.
AnchorsCoverAll ==
    /\ \A i, j \in DOMAIN hashes : i < j => hashes[i] < hashes[j]
    /\ \A i \in DOMAIN rows : rows[i].life = boots =>
          (\E k \in DOMAIN hashes : hashes[k] = i) \/ BrokenOff(i)
    /\ \A a \in anchor : a.count = a.epoch * EpochSize /\ a.root = SubSeq(hashes, 1, a.count)
    /\ \A e \in 1 .. Len(hashes) \div EpochSize :
          (\E a \in anchor : a.epoch = e) \/ BrokenOff(hashes[e * EpochSize])

\* Within one life of the process the anchor of an epoch is written once.
AnchorsStay == [][boots' = boots => anchor \subseteq anchor']_vars

\* No patch the policy guard allowed is refused by a gate, least of all after its commit.
GuardedPatchesPass ==
    \A u \in Decisions : u.scope = "star" => decided[u].failed = 0

UpToDate(scope) == health[scope] = [u \in {k \in known : k.scope = scope} |-> decided[u]]

\* When a call that ran the gates of a scope returns, the health of the scope counts every
\* decision object in the registry with its whole timeline: also those of calls whose own
\* rollup raised, and those the log kept from earlier lives of the process.
HealthCatchesUp ==
    call.status = "returned" =>
        /\ call.do \in {"patch", "policy"} => UpToDate("star")
        /\ call.do = "signals" => UpToDate("signal")
        /\ call.do \in {"constellation", "recompute", "propagate"} => UpToDate("constellation")

\* A constellation never tells of a propagation that did not reach every star it names.
PropagationReached ==
    constellation # None /\ constellation.last # None =>
        \A s \in constellation.last.stars :
            \E i \in DOMAIN rows : rows[i].call = constellation.last.call /\ rows[i].star = s

===============================================================================
