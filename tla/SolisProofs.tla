------------------------------ MODULE SolisProofs ------------------------------
(***************************************************************************)
(* What holds of the Solis services for any stars, changes, policies and   *)
(* tolerances and for any number of calls, failures and restarts: types,   *)
(* that no star drifts from the collapse formula, and what the calls       *)
(* guarantee across all their patches, which the proofs follow from what a *)
(* call still has to do, item by item.                                     *)
(***************************************************************************)
EXTENDS Solis, SequenceTheorems, TLAPS

\* What an agenda may hold; a decision on a star is never a refusal.
Items ==
    {d \in [do : {"decide"}, uri : Decisions, passed : BOOLEAN] : d.uri.scope = "star" => d.passed}
        \cup [do : {"rollup"}, scope : Scopes]
        \cup [do : {"raise", "skip", "open", "anchor"}]
        \cup [do : {"create", "signals", "post"}, star : Stars]
        \cup [do : {"patch"}, star : Stars, delta : Int]
        \cup [do : {"policy"}, star : Stars, cap : Nat]
        \cup [do : {"write"}, star : Stars, new : States]
        \cup [do : {"tell"}, new : States]
        \cup [do : {"signal"}, star : Stars, metric : Metrics, new : States]
        \cup [do : {"constellation", "propose"}, new : Constellations]
        \cup [do : {"link"}, from : Stars, to : Stars]

\* What the agenda of a call may hold that is no create_star.
LawfulItems == {x \in Items : x.do = "write" => Drift(x.new) <= Tolerance}

\* How two items follow each other: a decision is followed by the rollup of its scope, and a
\* write by the stellar event of what it wrote; the gate after a commit comes behind the
\* stellar event or its anchor, and an anchor is always the next thing to do.
Adjacent(x, y) ==
    /\ x.do = "decide" => y.do = "rollup" /\ y.scope = x.uri.scope
    /\ x.do = "write" => y.do = "tell" /\ y.new = x.new
    /\ y.do = "tell" => x.do = "write"
    /\ y.do = "post" => x.do \in {"tell", "anchor"}
    /\ y.do # "anchor"

Ordered(q) ==
    /\ \A i \in 1 .. Len(q) - 1 : Adjacent(q[i], q[i + 1])
    /\ q # <<>> => q[Len(q)].do \notin {"decide", "write"}

\* Nothing of it was done yet.
Whole(q) == Ordered(q) /\ (q # <<>> => q[1].do \notin {"tell", "post", "anchor"})

\* Items that stand for themselves.
Plain(q) == \A i \in DOMAIN q : q[i].do \notin {"decide", "write", "tell", "post", "anchor"}

\* What the states of the constellation it brings tell of.
News(q) == {q[i].new.last : i \in {k \in DOMAIN q : q[k].do = "constellation"}}

\* The rest of the call brings the health of the scope up to date.
Owes(x, scope) ==
    \/ x.do = "rollup" /\ x.scope = scope
    \/ scope = "star" /\ x.do \in {"patch", "policy"}
    \/ scope = "signal" /\ x.do = "signals"
Owing(q, scope) == \E i \in DOMAIN q : Owes(q[i], scope)

\* What is made of an item, and what a call begins with: nothing of it was done yet.
Piece(q) == q \in Seq(LawfulItems) /\ Whole(q)
-------------------------------------------------------------------------------
LEMMA LawfulAgenda == \A q : q \in Seq(LawfulItems) => q \in Seq(Items)
  <1>1. LawfulItems \subseteq Items
    BY DEF LawfulItems
  <1>2. QED
    BY <1>1

\* An item of another kind than a write is lawful.
LEMMA OtherItems ==
    ASSUME NEW x \in Items, x.do # "write"
    PROVE  x \in LawfulItems
  BY DEF LawfulItems

\* Where the items of two agendas are when they are joined.
LEMMA Joined ==
    ASSUME NEW S, NEW p \in Seq(S), NEW q \in Seq(S)
    PROVE  /\ p \o q \in Seq(S)
           /\ Len(p) \in Nat /\ Len(q) \in Nat /\ Len(p \o q) = Len(p) + Len(q)
           /\ DOMAIN p = 1 .. Len(p) /\ DOMAIN q = 1 .. Len(q)
           /\ DOMAIN (p \o q) = 1 .. Len(p) + Len(q)
           /\ \A i \in 1 .. Len(p) : (p \o q)[i] = p[i]
           /\ \A i \in 1 .. Len(q) : (p \o q)[Len(p) + i] = q[i]
           /\ \A k \in 1 .. Len(p) + Len(q) : k > Len(p) => (p \o q)[k] = q[k - Len(p)] /\ k - Len(p) \in 1 .. Len(q)
  <1>1. Len(p) \in Nat /\ Len(q) \in Nat /\ DOMAIN p = 1 .. Len(p) /\ DOMAIN q = 1 .. Len(q)
    BY LenProperties
  <1>2. /\ p \o q \in Seq(S)
        /\ Len(p \o q) = Len(p) + Len(q)
        /\ \A i \in 1 .. Len(p) + Len(q) : (p \o q)[i] = IF i <= Len(p) THEN p[i] ELSE q[i - Len(p)]
    BY ConcatProperties
  <1>3. DOMAIN (p \o q) = 1 .. Len(p) + Len(q)
    BY <1>2, LenProperties
  <1>4. \A i \in 1 .. Len(p) : (p \o q)[i] = p[i]
    BY <1>1, <1>2
  <1>5. \A i \in 1 .. Len(q) : (p \o q)[Len(p) + i] = q[i]
    <2> SUFFICES ASSUME NEW i \in 1 .. Len(q) PROVE (p \o q)[Len(p) + i] = q[i]
      OBVIOUS
    <2>1. Len(p) + i \in 1 .. Len(p) + Len(q) /\ ~(Len(p) + i <= Len(p)) /\ (Len(p) + i) - Len(p) = i
      BY <1>1
    <2>2. QED
      BY <2>1, <1>2
  <1>6. \A k \in 1 .. Len(p) + Len(q) : k > Len(p) => (p \o q)[k] = q[k - Len(p)] /\ k - Len(p) \in 1 .. Len(q)
    BY <1>1, <1>2
  <1>7. QED
    BY <1>1, <1>2, <1>3, <1>4, <1>5, <1>6

\* Two orderly agendas are one when the second may follow the end of the first.
LEMMA OrderedJoin ==
    ASSUME NEW S, NEW p \in Seq(S), NEW q \in Seq(S), Ordered(p), Ordered(q),
           p # <<>> /\ q # <<>> => Adjacent(p[Len(p)], q[1])
    PROVE  Ordered(p \o q)
  <1> DEFINE r == p \o q
             m == Len(p)
             n == Len(q)
  <1>1. /\ m \in Nat /\ n \in Nat /\ Len(r) = m + n
        /\ \A i \in 1 .. m : r[i] = p[i]
        /\ \A i \in 1 .. n : r[m + i] = q[i]
    BY Joined
  <1>2. (m > 0 => p # <<>>) /\ (n > 0 => q # <<>>) /\ (r # <<>> => m + n > 0)
    BY EmptySeq, Joined, <1>1
  <1>3. /\ \A i \in 1 .. m - 1 : Adjacent(p[i], p[i + 1])
        /\ \A i \in 1 .. n - 1 : Adjacent(q[i], q[i + 1])
        /\ m > 0 => p[m].do \notin {"decide", "write"}
        /\ n > 0 => q[n].do \notin {"decide", "write"}
        /\ m > 0 /\ n > 0 => Adjacent(p[m], q[1])
    BY <1>2 DEF Ordered
  <1> HIDE DEF r, m, n
  <1>4. ASSUME NEW i \in 1 .. m + n - 1 PROVE Adjacent(r[i], r[i + 1])
    <2>1. CASE i < m
      <3>1. i \in 1 .. m /\ i + 1 \in 1 .. m /\ i \in 1 .. m - 1
        BY <1>1, <2>1
      <3>2. r[i] = p[i] /\ r[i + 1] = p[i + 1]
        BY <1>1, <3>1
      <3>3. QED
        BY <1>3, <3>1, <3>2
    <2>2. CASE i = m
      <3>1. m \in 1 .. m /\ 1 \in 1 .. n
        BY <1>1, <2>2
      <3>2. r[i] = p[m] /\ r[i + 1] = q[1]
        BY <1>1, <2>2, <3>1
      <3>3. QED
        BY <1>1, <1>3, <3>1, <3>2
    <2>3. CASE i > m
      <3> DEFINE j == i - m
      <3>1. j \in 1 .. n - 1 /\ j \in 1 .. n /\ j + 1 \in 1 .. n /\ i = m + j /\ i + 1 = m + (j + 1)
        BY <1>1, <2>3
      <3> HIDE DEF j
      <3>2. r[m + j] = q[j] /\ r[m + (j + 1)] = q[j + 1]
        BY <1>1, <3>1
      <3>3. QED
        BY <1>3, <3>1, <3>2
    <2>4. QED
      BY <1>1, <2>1, <2>2, <2>3
  <1>5. r # <<>> => r[m + n].do \notin {"decide", "write"}
    <2>1. CASE n > 0
      <3>1. r[m + n] = q[n]
        BY <1>1, <2>1
      <3>2. QED
        BY <1>3, <2>1, <3>1
    <2>2. CASE n = 0 /\ m > 0
      <3>1. m + n = m /\ r[m] = p[m]
        BY <1>1, <2>2
      <3>2. QED
        BY <1>3, <2>2, <3>1
    <2>3. CASE n = 0 /\ m = 0
      BY <1>1, <1>2, <2>3
    <2>4. QED
      BY <1>1, <2>1, <2>2, <2>3
  <1>6. QED
    BY <1>1, <1>4, <1>5 DEF Ordered, r

LEMMA WholeJoin ==
    ASSUME NEW S, NEW p \in Seq(S), NEW q \in Seq(S), Whole(p), Whole(q)
    PROVE  Whole(p \o q)
  <1>1. p # <<>> /\ q # <<>> => Adjacent(p[Len(p)], q[1])
    BY DEF Whole, Ordered, Adjacent
  <1>2. Ordered(p \o q)
    BY <1>1, OrderedJoin DEF Whole
  <1>3. CASE p = <<>>
    BY <1>3, ConcatEmptySeq
  <1>4. CASE p # <<>>
    <2>1. (p \o q)[1] = p[1]
      BY <1>4, EmptySeq, Joined
    <2>2. QED
      BY <1>2, <1>4, <2>1 DEF Whole
  <1>5. QED
    BY <1>3, <1>4

LEMMA OwingJoin ==
    ASSUME NEW S, NEW p \in Seq(S), NEW q \in Seq(S), NEW scope, Owing(p, scope) \/ Owing(q, scope)
    PROVE  Owing(p \o q, scope)
  <1> DEFINE r == p \o q
  <1>1. /\ Len(p) \in Nat /\ Len(q) \in Nat
        /\ DOMAIN p = 1 .. Len(p) /\ DOMAIN q = 1 .. Len(q) /\ DOMAIN r = 1 .. Len(p) + Len(q)
        /\ \A i \in 1 .. Len(p) : r[i] = p[i]
        /\ \A i \in 1 .. Len(q) : r[Len(p) + i] = q[i]
    BY Joined
  <1> HIDE DEF r
  <1>2. CASE Owing(p, scope)
    <2>1. PICK i \in 1 .. Len(p) : Owes(p[i], scope)
      BY <1>1, <1>2 DEF Owing
    <2>2. i \in DOMAIN r /\ Owes(r[i], scope)
      BY <2>1, <1>1
    <2>3. QED
      BY <2>2 DEF Owing, r
  <1>3. CASE Owing(q, scope)
    <2>1. PICK i \in 1 .. Len(q) : Owes(q[i], scope)
      BY <1>1, <1>3 DEF Owing
    <2>2. Len(p) + i \in DOMAIN r /\ r[Len(p) + i] = q[i]
      BY <1>1
    <2>3. Len(p) + i \in DOMAIN r /\ Owes(r[Len(p) + i], scope)
      BY <2>1, <2>2
    <2>4. QED
      BY <2>3 DEF Owing, r
  <1>4. QED
    BY <1>2, <1>3

LEMMA NewsJoin ==
    ASSUME NEW S, NEW p \in Seq(S), NEW q \in Seq(S)
    PROVE  News(p \o q) \subseteq News(p) \cup News(q)
  <1> SUFFICES ASSUME NEW k \in DOMAIN (p \o q), (p \o q)[k].do = "constellation"
               PROVE  (p \o q)[k].new.last \in News(p) \cup News(q)
    BY DEF News
  <1>1. /\ Len(p) \in Nat /\ Len(q) \in Nat
        /\ DOMAIN p = 1 .. Len(p) /\ DOMAIN q = 1 .. Len(q) /\ DOMAIN (p \o q) = 1 .. Len(p) + Len(q)
        /\ \A i \in 1 .. Len(p) : (p \o q)[i] = p[i]
        /\ \A i \in 1 .. Len(p) + Len(q) : i > Len(p) => (p \o q)[i] = q[i - Len(p)] /\ i - Len(p) \in 1 .. Len(q)
    BY Joined
  <1>2. CASE k <= Len(p)
    <2>1. k \in DOMAIN p /\ (p \o q)[k] = p[k]
      BY <1>1, <1>2
    <2>2. QED
      BY <2>1 DEF News
  <1>3. CASE k > Len(p)
    <2>1. k - Len(p) \in DOMAIN q /\ (p \o q)[k] = q[k - Len(p)]
      BY <1>1, <1>3
    <2>2. QED
      BY <2>1 DEF News
  <1>4. QED
    BY <1>1, <1>2, <1>3

\* Two pieces are one.
LEMMA PieceJoin ==
    ASSUME NEW p, NEW q, Piece(p), Piece(q)
    PROVE  Piece(p \o q)
  BY WholeJoin, ConcatProperties DEF Piece

LEMMA PlainPiece ==
    ASSUME NEW q \in Seq(LawfulItems), Plain(q)
    PROVE  Piece(q)
  <1>1. DOMAIN q = 1 .. Len(q) /\ Len(q) \in Nat
    BY LenProperties
  <1>2. q # <<>> => Len(q) > 0
    BY EmptySeq, <1>1
  <1>3. \A i \in 1 .. Len(q) - 1 : i \in DOMAIN q /\ i + 1 \in DOMAIN q
    BY <1>1
  <1>4. \A i \in 1 .. Len(q) - 1 : Adjacent(q[i], q[i + 1])
    BY <1>3 DEF Adjacent, Plain
  <1>5. q # <<>> => q[Len(q)].do \notin {"decide", "write"} /\ q[1].do \notin {"tell", "post", "anchor"}
    BY <1>1, <1>2 DEF Plain
  <1>6. QED
    BY <1>4, <1>5 DEF Piece, Whole, Ordered

LEMMA PlainOne ==
    ASSUME NEW x \in Items, x.do \notin {"decide", "write", "tell", "post", "anchor"}
    PROVE  /\ Piece(<<x>>) /\ DOMAIN <<x>> = {1} /\ <<x>>[1] = x
           /\ x.do # "constellation" => News(<<x>>) = {}
  <1>1. x \in LawfulItems
    BY OtherItems
  <1>2. <<x>> \in Seq(LawfulItems) /\ DOMAIN <<x>> = {1} /\ <<x>>[1] = x
    BY <1>1
  <1>3. Plain(<<x>>)
    BY <1>2 DEF Plain
  <1>4. x.do # "constellation" => News(<<x>>) = {}
    BY <1>2 DEF News
  <1>5. QED
    BY <1>2, <1>3, <1>4, PlainPiece

LEMMA Nothing == Piece(<<>>) /\ News(<<>>) = {}
  <1>1. <<>> \in Seq(LawfulItems) /\ Plain(<<>>) /\ News(<<>>) = {}
    BY DEF Plain, News
  <1>2. QED
    BY <1>1, PlainPiece
-------------------------------------------------------------------------------
\* The pieces agendas are made of.  What a scope judges.
Judges(scope, target) ==
    \/ scope \in {"star", "signal"} /\ target \in Stars
    \/ scope = "constellation" /\ target = None

LEMMA GateFits ==
    ASSUME NEW scope, NEW target, Judges(scope, target), NEW gate \in {"gate1", "gate2", "gate3", "post"},
           NEW passed \in BOOLEAN, scope = "star" => passed
    PROVE  /\ Piece(Gate(scope, target, gate, passed))
           /\ Owing(Gate(scope, target, gate, passed), scope)
           /\ News(Gate(scope, target, gate, passed)) = {}
  <1> DEFINE u == [scope |-> scope, target |-> target, gate |-> gate]
             d == [do |-> "decide", uri |-> u, passed |-> passed]
             r == [do |-> "rollup", scope |-> scope]
             g == <<d, r>>
  <1>1. u \in Decisions /\ u.scope = scope /\ scope \in Scopes
    BY DEF Decisions, Judges, Scopes
  <1> HIDE DEF u
  <1>2. /\ d \in Items /\ d.do = "decide" /\ d.uri.scope = scope
        /\ r \in Items /\ r.do = "rollup" /\ r.scope = scope
    BY <1>1 DEF Items
  <1>3. Gate(scope, target, gate, passed) = g
    BY DEF Gate, u
  <1>4. d \in LawfulItems /\ r \in LawfulItems
    BY <1>2, OtherItems
  <1> HIDE DEF d, r
  <1>5. g \in Seq(LawfulItems) /\ Len(g) = 2 /\ DOMAIN g = {1, 2} /\ g[1] = d /\ g[2] = r
    BY <1>4
  <1> HIDE DEF g
  <1>6. Adjacent(d, r)
    BY <1>2 DEF Adjacent
  <1>7. Whole(g)
    BY <1>2, <1>5, <1>6 DEF Whole, Ordered
  <1>8. Owing(g, scope) /\ News(g) = {}
    BY <1>2, <1>5 DEF Owing, Owes, News
  <1>9. QED
    BY <1>3, <1>5, <1>7, <1>8 DEF Piece

LEMMA PassesFits ==
    ASSUME NEW scope, NEW target, Judges(scope, target), NEW gate \in {"gate1", "gate2", "gate3", "post"},
           NEW passed \in BOOLEAN, scope = "star" => passed, NEW more, Piece(more)
    PROVE  /\ Piece(Passes(scope, target, gate, passed, more))
           /\ Owing(Passes(scope, target, gate, passed, more), scope)
           /\ News(Passes(scope, target, gate, passed, more)) \subseteq (IF passed THEN News(more) ELSE {})
  <1> DEFINE g == Gate(scope, target, gate, passed)
             x == [do |-> "raise"]
             rest == IF passed THEN more ELSE <<x>>
  <1>1. Piece(g) /\ Owing(g, scope) /\ News(g) = {}
    BY GateFits
  <1>2. x \in Items /\ x.do = "raise"
    BY DEF Items
  <1>3. Passes(scope, target, gate, passed, more) = g \o rest
    BY DEF Passes
  <1> HIDE DEF g, x
  <1>4. Piece(<<x>>) /\ News(<<x>>) = {}
    BY <1>2, PlainOne
  <1>5. Piece(rest) /\ News(rest) = IF passed THEN News(more) ELSE {}
    BY <1>4
  <1> HIDE DEF rest
  <1>6. g \in Seq(LawfulItems) /\ rest \in Seq(LawfulItems)
    BY <1>1, <1>5 DEF Piece
  <1>7. Piece(g \o rest)
    BY <1>1, <1>5, PieceJoin
  <1>8. Owing(g \o rest, scope)
    BY <1>1, <1>6, OwingJoin
  <1>9. News(g \o rest) \subseteq News(g) \cup News(rest)
    BY <1>6, NewsJoin
  <1>10. QED
    BY <1>1, <1>3, <1>5, <1>7, <1>8, <1>9

\* What passed the gates before it, or did not.
LEMMA PreCommitFits ==
    ASSUME NEW scope, NEW target, Judges(scope, target), NEW lawful \in BOOLEAN, NEW formula \in BOOLEAN,
           scope = "star" => lawful /\ formula, NEW commit, Piece(commit)
    PROVE  /\ Piece(PreCommit(scope, target, lawful, formula, commit))
           /\ Owing(PreCommit(scope, target, lawful, formula, commit), scope)
           /\ News(PreCommit(scope, target, lawful, formula, commit)) \subseteq
                 (IF lawful THEN News(commit) ELSE {})
  <1> DEFINE p3 == Passes(scope, target, "gate3", formula, commit)
             p2 == Passes(scope, target, "gate2", lawful, p3)
             p1 == Passes(scope, target, "gate1", TRUE, p2)
  <1>1. Piece(p3) /\ News(p3) \subseteq News(commit)
    BY PassesFits
  <1> HIDE DEF p3
  <1>2. Piece(p2) /\ News(p2) \subseteq (IF lawful THEN News(p3) ELSE {})
    BY <1>1, PassesFits
  <1> HIDE DEF p2
  <1>3. Piece(p1) /\ News(p1) \subseteq News(p2) /\ Owing(p1, scope)
    BY <1>2, PassesFits
  <1>4. PreCommit(scope, target, lawful, formula, commit) = p1
    BY DEF PreCommit, p1, p2, p3
  <1>5. QED
    BY <1>1, <1>2, <1>3, <1>4

Has(q, x) == \E i \in DOMAIN q : q[i] = x

LEMMA HasBehind ==
    ASSUME NEW S, NEW p \in Seq(S), NEW q \in Seq(S), NEW x, Has(q, x)
    PROVE  Has(p \o q, x)
  <1>1. PICK i \in DOMAIN q : q[i] = x
    BY DEF Has
  <1>2. Len(p) + i \in DOMAIN (p \o q) /\ (p \o q)[Len(p) + i] = x
    BY <1>1, Joined
  <1>3. QED
    BY <1>2 DEF Has

\* Gates that let the call go on take nothing from what is behind them.
LEMMA BehindGates ==
    ASSUME NEW scope, NEW target, Judges(scope, target), NEW commit, Piece(commit), NEW x, Has(commit, x)
    PROVE  Has(PreCommit(scope, target, TRUE, TRUE, commit), x)
  <1>1. ASSUME NEW more, Piece(more), Has(more, x), NEW gate \in {"gate1", "gate2", "gate3"}
        PROVE  Has(Passes(scope, target, gate, TRUE, more), x)
    <2> DEFINE g == Gate(scope, target, gate, TRUE)
    <2>1. g \in Seq(LawfulItems) /\ more \in Seq(LawfulItems)
      BY <1>1, GateFits DEF Piece
    <2>2. Passes(scope, target, gate, TRUE, more) = g \o more
      BY DEF Passes
    <2> HIDE DEF g
    <2>3. QED
      BY <1>1, <2>1, <2>2, HasBehind
  <1> DEFINE p3 == Passes(scope, target, "gate3", TRUE, commit)
             p2 == Passes(scope, target, "gate2", TRUE, p3)
             p1 == Passes(scope, target, "gate1", TRUE, p2)
  <1>2. Piece(p3) /\ Has(p3, x)
    BY <1>1, PassesFits
  <1> HIDE DEF p3
  <1>3. Piece(p2) /\ Has(p2, x)
    <2>1. Piece(p2)
      BY <1>2, PassesFits
    <2>2. QED
      BY <1>1, <1>2, <2>1
  <1> HIDE DEF p2
  <1>4. Has(p1, x)
    BY <1>1, <1>3
  <1>5. QED
    BY <1>4 DEF PreCommit, p1, p2, p3

\* A patch the guard allows passes all its gates.
LEMMA CommitFits ==
    ASSUME NEW s \in Stars, NEW new \in States, Allowed(star[s], new)
    PROVE  /\ Piece(Commit(s, new)) /\ Owing(Commit(s, new), "star") /\ News(Commit(s, new)) = {}
           /\ \E i \in DOMAIN Commit(s, new) : Commit(s, new)[i].do = "write" /\ Commit(s, new)[i].star = s
  <1> DEFINE w == [do |-> "write", star |-> s, new |-> new]
             t == [do |-> "tell", new |-> new]
             p == [do |-> "post", star |-> s]
             r == [do |-> "signal", star |-> s, metric |-> "reward", new |-> new]
             q == <<w, t, p, r>>
  <1>1. w \in Items /\ t \in Items /\ p \in Items /\ r \in Items
    BY DEF Items, Metrics
  <1>2. Drift(new) <= Tolerance
    BY DEF Allowed
  <1>3. /\ w.do = "write" /\ w.star = s /\ w.new = new /\ t.do = "tell" /\ t.new = new
        /\ p.do = "post" /\ r.do = "signal"
    OBVIOUS
  <1>4. w \in LawfulItems /\ t \in LawfulItems /\ p \in LawfulItems /\ r \in LawfulItems
    BY <1>1, <1>2, <1>3, OtherItems DEF LawfulItems
  <1>5. Commit(s, new) = PreCommit("star", s, TRUE, TRUE, q)
    BY <1>2 DEF Commit
  <1> HIDE DEF w, t, p, r
  <1>6. /\ q \in Seq(LawfulItems) /\ Len(q) = 4 /\ DOMAIN q = {1, 2, 3, 4}
        /\ q[1] = w /\ q[2] = t /\ q[3] = p /\ q[4] = r
    BY <1>4
  <1> HIDE DEF q
  <1>7. Adjacent(w, t) /\ Adjacent(t, p) /\ Adjacent(p, r)
    BY <1>3 DEF Adjacent
  <1>8. Ordered(q)
    <2>1. \A i \in 1 .. 3 : Adjacent(q[i], q[i + 1])
      <3>1. ASSUME NEW i \in {1, 2, 3} PROVE Adjacent(q[i], q[i + 1])
        BY <1>6, <1>7, <3>1
      <3>2. QED
        BY <3>1
    <2>2. QED
      BY <1>3, <1>6, <2>1 DEF Ordered
  <1>9. Piece(q) /\ News(q) = {}
    BY <1>3, <1>6, <1>8 DEF Piece, Whole, News
  <1>10. Judges("star", s)
    BY DEF Judges
  <1>11. Has(PreCommit("star", s, TRUE, TRUE, q), w)
    <2>1. Has(q, w)
      BY <1>6 DEF Has
    <2>2. QED
      BY <1>9, <1>10, <2>1, BehindGates
  <1>12. /\ Piece(PreCommit("star", s, TRUE, TRUE, q))
         /\ Owing(PreCommit("star", s, TRUE, TRUE, q), "star")
         /\ News(PreCommit("star", s, TRUE, TRUE, q)) \subseteq News(q)
    <2>1. TRUE \in BOOLEAN
      OBVIOUS
    <2>2. QED
      BY <1>9, <1>10, <2>1, PreCommitFits
  <1>13. QED
    BY <1>3, <1>5, <1>9, <1>11, <1>12 DEF Has
-------------------------------------------------------------------------------
\* The patch of the constellation, with its gates around it.
LEMMA ConstellationFits ==
    ASSUME NEW c \in Constellations, NEW lawful \in BOOLEAN, NEW more, Piece(more), News(more) = {}
    PROVE  /\ Piece(CommitConstellation(lawful, c, more))
           /\ Owing(CommitConstellation(lawful, c, more), "constellation")
           /\ News(CommitConstellation(lawful, c, more)) \subseteq (IF lawful THEN {c.last} ELSE {})
  <1> DEFINE x == [do |-> "constellation", new |-> c]
             g == Gate("constellation", None, "post", TRUE)
             q == <<x>> \o g
  <1>1. x \in Items /\ x.do = "constellation" /\ x.new = c
    BY DEF Items
  <1>2. CommitConstellation(lawful, c, more) = PreCommit("constellation", None, lawful, TRUE, q \o more)
    BY DEF CommitConstellation
  <1>3. Judges("constellation", None)
    BY DEF Judges
  <1>4. Piece(g) /\ News(g) = {}
    BY <1>3, GateFits
  <1> HIDE DEF x, g
  <1>5. Piece(<<x>>) /\ DOMAIN <<x>> = {1} /\ <<x>>[1] = x
    BY <1>1, PlainOne
  <1>6. News(<<x>>) \subseteq {c.last}
    <2>1. PICK p : p = <<x>>
      OBVIOUS
    <2>2. News(p) \subseteq {c.last}
      BY <1>1, <1>5, <2>1 DEF News
    <2>3. QED
      BY <2>1, <2>2
  <1>7. Piece(q) /\ News(q) \subseteq {c.last}
    <2>1. Piece(q)
      BY <1>4, <1>5, PieceJoin
    <2>2. News(q) \subseteq News(<<x>>) \cup News(g)
      BY <1>4, <1>5, NewsJoin DEF Piece
    <2>3. QED
      BY <1>4, <1>6, <2>1, <2>2
  <1> HIDE DEF q
  <1> DEFINE r == q \o more
  <1>8. Piece(r) /\ News(r) \subseteq {c.last}
    <2>1. Piece(r)
      BY <1>7, PieceJoin
    <2>2. News(r) \subseteq News(q) \cup News(more)
      BY <1>7, NewsJoin DEF Piece
    <2>3. QED
      BY <1>7, <2>1, <2>2
  <1>9. CommitConstellation(lawful, c, more) = PreCommit("constellation", None, lawful, TRUE, r)
    BY <1>2
  <1> HIDE DEF r
  <1>10. /\ Piece(PreCommit("constellation", None, lawful, TRUE, r))
         /\ Owing(PreCommit("constellation", None, lawful, TRUE, r), "constellation")
         /\ News(PreCommit("constellation", None, lawful, TRUE, r)) \subseteq (IF lawful THEN News(r) ELSE {})
    BY <1>3, <1>8, PreCommitFits
  <1>11. QED
    BY <1>8, <1>9, <1>10

\* What a propagation, a cascade or a new constellation adds is plain.
LEMMA ListFits ==
    ASSUME NEW n \in Nat, NEW q, DOMAIN q = 1 .. n, q = [i \in DOMAIN q |-> q[i]],
           \A i \in DOMAIN q : q[i] \in Items /\ q[i].do \in {"skip", "patch", "raise", "link"}
    PROVE  Piece(q) /\ News(q) = {}
  <1>1. \A i \in 1 .. n : q[i] \in LawfulItems
    BY OtherItems
  <1>2. q \in [1 .. n -> LawfulItems]
    BY <1>1
  <1>3. q \in Seq(LawfulItems)
    BY <1>2
  <1>4. Plain(q) /\ News(q) = {}
    BY DEF Plain, News
  <1>5. QED
    BY <1>3, <1>4, PlainPiece

LEMMA ImpactFits ==
    ASSUME NEW members \in Seq(Stars), NEW source, NEW delta \in Int, NEW lawful \in BOOLEAN
    PROVE  /\ Piece(Impact(members, source, delta, lawful)) /\ News(Impact(members, source, delta, lawful)) = {}
           /\ \A k \in DOMAIN members : lawful /\ members[k] # source =>
                 Has(Impact(members, source, delta, lawful), [do |-> "patch", star |-> members[k], delta |-> delta])
  <1> DEFINE f == Impact(members, source, delta, lawful)
  <1>1. /\ DOMAIN f = DOMAIN members /\ f = [i \in DOMAIN f |-> f[i]]
        /\ \A i \in DOMAIN members :
              f[i] = IF members[i] = source THEN [do |-> "skip"]
                     ELSE IF lawful THEN [do |-> "patch", star |-> members[i], delta |-> delta]
                     ELSE [do |-> "raise"]
    BY DEF Impact
  <1> HIDE DEF f
  <1>2. ASSUME NEW i \in DOMAIN members
        PROVE  f[i] \in Items /\ f[i].do \in {"skip", "patch", "raise", "link"}
    <2>1. members[i] \in Stars
      BY <1>2
    <2>2. [do |-> "skip"] \in Items /\ [do |-> "raise"] \in Items
             /\ [do |-> "patch", star |-> members[i], delta |-> delta] \in Items
      BY <2>1 DEF Items
    <2>3. QED
      BY <1>1, <2>2
  <1>3. DOMAIN members = 1 .. Len(members) /\ Len(members) \in Nat
    OBVIOUS
  <1>4. Piece(f) /\ News(f) = {}
    BY <1>1, <1>2, <1>3, ListFits
  <1>5. QED
    BY <1>1, <1>4 DEF f, Has

LEMMA LinksFit ==
    ASSUME NEW members \in Seq(Stars)
    PROVE  Piece(Links(members)) /\ News(Links(members)) = {}
  <1> DEFINE n == Len(members)
             f == [k \in 1 .. n * n |-> [do |-> "link", from |-> members[((k - 1) \div n) + 1],
                                         to |-> members[((k - 1) % n) + 1]]]
  <1>1. n \in Nat
    OBVIOUS
  <1>2. n * n \in Nat
    BY <1>1
  <1>3. ASSUME NEW k \in 1 .. n * n
        PROVE  f[k] \in Items /\ f[k].do \in {"skip", "patch", "raise", "link"}
    <2>1. n > 0
      BY <1>1
    <2>2. ((k - 1) % n) + 1 \in 1 .. n
      BY <1>1, <2>1
    <2>3. ((k - 1) \div n) + 1 \in 1 .. n
      BY <1>1, <2>1
    <2>4. members[((k - 1) \div n) + 1] \in Stars /\ members[((k - 1) % n) + 1] \in Stars
      BY <2>2, <2>3
    <2>5. QED
      BY <2>4 DEF Items
  <1>4. DOMAIN f = 1 .. n * n /\ f = [i \in DOMAIN f |-> f[i]] /\ Links(members) = f
    BY DEF Links
  <1> HIDE DEF n, f
  <1>5. QED
    BY <1>2, <1>3, <1>4, ListFits

LEMMA CascadeFits ==
    ASSUME NEW members \in Seq(Stars), NEW c \in Constellations
    PROVE  Piece(Cascade(members, c)) /\ News(Cascade(members, c)) = {}
  <1> DEFINE f == [i \in DOMAIN members |-> [do |-> "patch", star |-> members[i], delta |-> Spike]]
             g == IF c.cascade THEN f ELSE <<>>
             x == [do |-> "propose", new |-> c]
  <1>1. Cascade(members, c) = g \o <<x>>
    BY DEF Cascade
  <1>2. ASSUME NEW i \in DOMAIN members
        PROVE  f[i] \in Items /\ f[i].do \in {"skip", "patch", "raise", "link"}
    <2>1. members[i] \in Stars /\ Spike \in Int
      BY SolisAssumption
    <2>2. QED
      BY <2>1 DEF Items
  <1>3. DOMAIN f = 1 .. Len(members) /\ Len(members) \in Nat /\ f = [i \in DOMAIN f |-> f[i]] /\ DOMAIN f = DOMAIN members
    OBVIOUS
  <1>4. x \in Items /\ x.do = "propose"
    BY DEF Items
  <1> HIDE DEF f, x
  <1>5. Piece(f) /\ News(f) = {}
    BY <1>2, <1>3, ListFits
  <1>6. Piece(g) /\ News(g) = {}
    BY <1>5, Nothing
  <1>7. Piece(<<x>>) /\ News(<<x>>) = {}
    BY <1>4, PlainOne
  <1> HIDE DEF g
  <1>8. Piece(g \o <<x>>) /\ News(g \o <<x>>) \subseteq News(g) \cup News(<<x>>)
    BY <1>6, <1>7, PieceJoin, NewsJoin DEF Piece
  <1>9. QED
    BY <1>1, <1>6, <1>7, <1>8
-------------------------------------------------------------------------------
Typed ==
    /\ TypeOK
    /\ agenda \in Seq(Items)
    /\ call.do # "create" => agenda \in Seq(LawfulItems)

\* A state of the constellation that tells of a propagation comes behind the patches
\* the propagation makes, unless the constellation tells of it already.
Promised(q, no) ==
    \A j \in DOMAIN q : q[j].do = "constellation" /\ q[j].new.last # None =>
        \/ constellation # None /\ q[j].new.last = constellation.last
        \/ /\ q[j].new.last.call = no
           /\ \A s \in q[j].new.last.stars :
                 \E i \in 1 .. (j - 1) : q[i].do \in {"patch", "write"} /\ q[i].star = s

\* A call begins.
Fits(do, what) ==
    /\ what # <<>> /\ what \in Seq(Items) /\ Whole(what)
    /\ do # "create" => what \in Seq(LawfulItems)
    /\ do \in {"patch", "policy"} => Owing(what, "star")
    /\ do = "signals" => Owing(what, "signal")
    /\ do \in {"constellation", "recompute", "propagate"} => Owing(what, "constellation")
    /\ Promised(what, call.no + 1)

Begins == \E do \in Calls : \E what : Begin(do, what) /\ Fits(do, what)

LEMMA OldNews ==
    ASSUME NEW q, NEW no, NEW last, News(q) \subseteq {last},
           last = None \/ (constellation # None /\ last = constellation.last)
    PROVE  Promised(q, no)
  <1> SUFFICES ASSUME NEW j \in DOMAIN q, q[j].do = "constellation", q[j].new.last # None
               PROVE  constellation # None /\ q[j].new.last = constellation.last
    BY DEF Promised
  <1>1. q[j].new.last \in News(q)
    BY DEF News
  <1>2. QED
    BY <1>1

LEMMA NoNews ==
    ASSUME NEW q, NEW no, News(q) = {}
    PROVE  Promised(q, no)
  BY OldNews

LEMMA CreateStarBegins ==
    ASSUME Typed, NEW s \in Stars, NEW new \in States, CreateStar(s, new)
    PROVE  Begins
  <1> DEFINE c == [do |-> "create", star |-> s]
             w == [do |-> "write", star |-> s, new |-> new]
             t == [do |-> "tell", new |-> new]
             q == <<c, w, t>>
  <1>1. c \in Items /\ w \in Items /\ t \in Items
    BY DEF Items
  <1>2. c.do = "create" /\ w.do = "write" /\ w.new = new /\ t.do = "tell" /\ t.new = new
    OBVIOUS
  <1>3. Begin("create", q)
    BY DEF CreateStar
  <1> HIDE DEF c, w, t
  <1>4. q \in Seq(Items) /\ Len(q) = 3 /\ DOMAIN q = {1, 2, 3} /\ q[1] = c /\ q[2] = w /\ q[3] = t /\ q # <<>>
    BY <1>1
  <1> HIDE DEF q
  <1>5. Adjacent(c, w) /\ Adjacent(w, t)
    BY <1>2 DEF Adjacent
  <1>6. Ordered(q)
    <2>1. ASSUME NEW i \in {1, 2} PROVE Adjacent(q[i], q[i + 1])
      BY <1>4, <1>5, <2>1
    <2>2. \A i \in 1 .. 2 : Adjacent(q[i], q[i + 1])
      BY <2>1
    <2>3. QED
      BY <1>2, <1>4, <2>2 DEF Ordered
  <1>7. Whole(q) /\ News(q) = {}
    BY <1>2, <1>4, <1>6 DEF Whole, News
  <1>8. Fits("create", q)
    BY <1>4, <1>7, NoNews DEF Fits
  <1>9. QED
    BY <1>3, <1>8 DEF Begins, Calls

\* A call that starts with one item it owes the health to.
LEMMA OneItem ==
    ASSUME NEW x \in Items, NEW do \in Calls, Begin(do, <<x>>),
           x.do \notin {"decide", "write", "tell", "post", "anchor", "constellation"},
           do \in {"patch", "policy"} => Owes(x, "star"),
           do = "signals" => Owes(x, "signal"),
           do \notin {"constellation", "recompute", "propagate"}
    PROVE  Begins
  <1>1. Piece(<<x>>) /\ <<x>> # <<>> /\ DOMAIN <<x>> = {1} /\ <<x>>[1] = x /\ News(<<x>>) = {}
    BY PlainOne
  <1>2. PICK q : q = <<x>>
    OBVIOUS
  <1>3. (do \in {"patch", "policy"} => Owing(q, "star")) /\ (do = "signals" => Owing(q, "signal"))
    BY <1>1, <1>2 DEF Owing
  <1>4. q \in Seq(Items) /\ q \in Seq(LawfulItems) /\ Whole(q) /\ News(q) = {} /\ q # <<>>
    BY <1>1, <1>2, LawfulAgenda DEF Piece
  <1>5. Fits(do, q)
    BY <1>3, <1>4, NoNews DEF Fits
  <1>6. QED
    BY <1>2, <1>5 DEF Begins

LEMMA PatchStarBegins ==
    ASSUME Typed, NEW s \in Stars, NEW delta \in Int, PatchStar(s, delta)
    PROVE  Begins
  <1> DEFINE p == [do |-> "patch", star |-> s, delta |-> delta]
             g == [do |-> "signals", star |-> s]
             q == <<p, g>>
  <1>1. p \in Items /\ g \in Items
    BY DEF Items
  <1>2. p.do = "patch" /\ g.do = "signals" /\ Owes(p, "star")
    BY DEF Owes
  <1>3. Begin("patch", <<p>>) \/ Begin("patch", q)
    BY DEF PatchStar
  <1> HIDE DEF p, g
  <1>4. CASE Begin("patch", <<p>>)
    BY <1>1, <1>2, <1>4, OneItem DEF Calls
  <1>5. CASE Begin("patch", q)
    <2>1. p \in LawfulItems /\ g \in LawfulItems
      BY <1>1, <1>2, OtherItems
    <2>2. q \in Seq(LawfulItems) /\ q # <<>> /\ DOMAIN q = {1, 2} /\ q[1] = p /\ q[2] = g
      BY <2>1
    <2> HIDE DEF q
    <2>3. Plain(q) /\ News(q) = {} /\ Owing(q, "star")
      BY <2>2, <1>2 DEF Plain, News, Owing
    <2>4. Whole(q)
      BY <2>2, <2>3, PlainPiece DEF Piece
    <2>5. Fits("patch", q)
      BY <2>2, <2>3, <2>4, NoNews, LawfulAgenda DEF Fits
    <2>6. QED
      BY <2>5, <1>5 DEF Begins, Calls
  <1>6. QED
    BY <1>3, <1>4, <1>5

LEMMA PolicyBegins ==
    ASSUME Typed, NEW s \in Stars, NEW cap \in Nat, ApplyPolicy(s, cap)
    PROVE  Begins
  <1> DEFINE p == [do |-> "policy", star |-> s, cap |-> cap]
  <1>1. p \in Items
    BY DEF Items
  <1>2. p.do = "policy" /\ Owes(p, "star")
    BY DEF Owes
  <1>3. Begin("policy", <<p>>)
    BY DEF ApplyPolicy
  <1> HIDE DEF p
  <1>4. QED
    BY <1>1, <1>2, <1>3, OneItem DEF Calls

LEMMA EmitSignalsBegins ==
    ASSUME Typed, NEW s \in Stars, EmitSignals(s)
    PROVE  Begins
  <1> DEFINE g == [do |-> "signals", star |-> s]
  <1>1. g \in Items
    BY DEF Items
  <1>2. g.do = "signals" /\ Owes(g, "signal")
    BY DEF Owes
  <1>3. Begin("signals", <<g>>)
    BY DEF EmitSignals
  <1> HIDE DEF g
  <1>4. QED
    BY <1>1, <1>2, <1>3, OneItem DEF Calls

LEMMA CreateConstellationBegins ==
    ASSUME Typed, NEW members \in MemberLists, CreateConstellation(members)
    PROVE  Begins
  <1> DEFINE last == IF constellation = None THEN None ELSE constellation.last
             c == [BlankConstellation EXCEPT !.members = members, !.last = last]
             x == [do |-> "open"]
             q == CommitConstellation(TRUE, c, Links(members))
  <1>1. members \in Seq(Stars)
    BY SolisAssumption
  <1>2. last \in [call : Nat, stars : SUBSET Stars] \cup {None}
           /\ (last = None \/ (constellation # None /\ last = constellation.last))
    BY DEF Typed, TypeOK, Constellations
  <1> HIDE DEF last
  <1>3. c \in Constellations /\ c.last = last
    BY <1>1, <1>2 DEF BlankConstellation, Constellations
  <1>4. Begin("constellation", <<x>> \o q)
    BY DEF CreateConstellation, last
  <1> HIDE DEF c
  <1>5. x \in Items /\ x.do = "open"
    BY DEF Items
  <1> HIDE DEF x
  <1>6. Piece(<<x>>) /\ News(<<x>>) = {}
    BY <1>5, PlainOne
  <1>7. Piece(q) /\ Owing(q, "constellation") /\ News(q) \subseteq {last}
    BY <1>1, <1>3, LinksFit, ConstellationFits
  <1> HIDE DEF q
  <1>8. /\ <<x>> \o q \in Seq(Items) /\ <<x>> \o q \in Seq(LawfulItems) /\ Whole(<<x>> \o q)
        /\ Owing(<<x>> \o q, "constellation") /\ News(<<x>> \o q) \subseteq {last}
    BY <1>6, <1>7, PieceJoin, OwingJoin, NewsJoin, LawfulAgenda DEF Piece
  <1> DEFINE r == <<x>> \o q
  <1> HIDE DEF r
  <1>9. /\ r \in Seq(Items) /\ r \in Seq(LawfulItems) /\ Whole(r)
        /\ Owing(r, "constellation") /\ News(r) \subseteq {last}
    BY <1>8 DEF r
  <1>10. r # <<>>
    BY <1>9 DEF Owing
  <1>11. Fits("constellation", r)
    BY <1>2, <1>9, <1>10, OldNews DEF Fits
  <1>12. QED
    BY <1>4, <1>11 DEF Begins, Calls, r

LEMMA RecomputeBegins ==
    ASSUME Typed, Recompute
    PROVE  Begins
  <1> DEFINE c == Recomputed(constellation)
             q == CommitConstellation(TRUE, c, Cascade(c.members, c))
  <1>1. constellation \in Constellations /\ constellation # None
    BY DEF Recompute, Typed, TypeOK
  <1>2. constellation.members \in Seq(Stars)
    BY <1>1 DEF Constellations
  <1>3. c \in Constellations /\ c.members = constellation.members /\ c.last = constellation.last
    <2> DEFINE hot == {i \in DOMAIN constellation.members :
                          star[constellation.members[i]].collapse >= Warning}
               n == Len(constellation.members)
               cascade == hot # {} \/ Contagion(constellation.members) >= CascadeThreshold * n * n * Full
    <2>1. hot \in SUBSET Nat /\ cascade \in BOOLEAN
      BY <1>2
    <2>2. c = [constellation EXCEPT !.hot = hot, !.cascade = cascade]
      BY DEF Recomputed
    <2> HIDE DEF hot, cascade
    <2>3. QED
      BY <1>1, <2>1, <2>2 DEF Constellations
  <1>4. Begin("recompute", q)
    BY DEF Recompute
  <1> HIDE DEF c
  <1>5. Piece(q) /\ Owing(q, "constellation") /\ News(q) \subseteq {constellation.last}
    BY <1>2, <1>3, CascadeFits, ConstellationFits
  <1> HIDE DEF q
  <1>6. q # <<>>
    BY <1>5 DEF Owing
  <1>7. Fits("recompute", q)
    BY <1>1, <1>5, <1>6, OldNews, LawfulAgenda DEF Fits, Piece
  <1>8. QED
    BY <1>4, <1>7 DEF Begins, Calls

LEMMA PropagateBegins ==
    ASSUME Typed, NEW source \in Stars, NEW delta \in Int, NEW lawful \in BOOLEAN,
           Propagate(source, delta, lawful)
    PROVE  Begins
  <1> DEFINE members == constellation.members
             targets == {members[i] : i \in DOMAIN members} \ {source}
             no == call.no + 1
             last == [call |-> no, stars |-> targets]
             c == [constellation EXCEPT !.last = last]
             p == Impact(members, source, delta, lawful)
             q == CommitConstellation(lawful, c, <<>>)
  <1>1. constellation \in Constellations
    BY DEF Propagate, Typed, TypeOK
  <1>2. members \in Seq(Stars)
    BY <1>1 DEF Constellations
  <1>3. targets \in SUBSET Stars /\ no \in Nat
    BY <1>2 DEF Typed, TypeOK
  <1>4. Begin("propagate", Propagation(source, delta, lawful, c))
    BY DEF Propagate
  <1>5. Piece(p) /\ News(p) = {}
    BY <1>2, ImpactFits
  <1>6. ASSUME NEW s \in targets, lawful
        PROVE  \E i \in DOMAIN p : p[i].do = "patch" /\ p[i].star = s
    <2>1. PICK k \in DOMAIN members : s = members[k] /\ members[k] # source
      BY <1>6
    <2>2. Has(p, [do |-> "patch", star |-> members[k], delta |-> delta])
      BY <1>2, <1>6, <2>1, ImpactFits
    <2>3. QED
      BY <2>1, <2>2 DEF Has
  <1>7. c.members = members
    BY <1>1 DEF Constellations
  <1>8. Propagation(source, delta, lawful, c) = p \o q
    BY <1>7 DEF Propagation
  <1> HIDE DEF targets, no
  <1>9. last \in [call : Nat, stars : SUBSET Stars] /\ last.call = no /\ last.stars = targets
    BY <1>3
  <1> HIDE DEF last
  <1>10. c \in Constellations /\ c.last = last
    BY <1>1, <1>9 DEF Constellations
  <1> HIDE DEF c
  <1>11. Piece(q) /\ Owing(q, "constellation") /\ News(q) \subseteq (IF lawful THEN {last} ELSE {})
    BY <1>10, Nothing, ConstellationFits
  <1> HIDE DEF p, q
  <1> DEFINE r == p \o q
  <1>12. r \in Seq(Items) /\ r \in Seq(LawfulItems) /\ Whole(r) /\ Owing(r, "constellation")
    BY <1>5, <1>11, PieceJoin, OwingJoin, LawfulAgenda DEF Piece
  <1>13. /\ Len(p) \in Nat /\ Len(q) \in Nat
         /\ DOMAIN p = 1 .. Len(p) /\ DOMAIN q = 1 .. Len(q) /\ DOMAIN r = 1 .. Len(p) + Len(q)
         /\ \A i \in 1 .. Len(p) : r[i] = p[i]
         /\ \A k \in 1 .. Len(p) + Len(q) : k > Len(p) => r[k] = q[k - Len(p)] /\ k - Len(p) \in 1 .. Len(q)
    BY <1>5, <1>11, Joined DEF Piece
  <1> HIDE DEF r
  <1>14. Promised(r, no)
    <2> SUFFICES ASSUME NEW j \in DOMAIN r, r[j].do = "constellation"
                 PROVE  /\ r[j].new.last.call = no
                        /\ \A s \in r[j].new.last.stars :
                             \E i \in 1 .. (j - 1) : r[i].do \in {"patch", "write"} /\ r[i].star = s
      BY DEF Promised
    <2>1. j > Len(p)
      <3> SUFFICES ASSUME j <= Len(p) PROVE FALSE
        BY <1>13
      <3>1. j \in DOMAIN p /\ r[j] = p[j]
        BY <1>13
      <3>2. p[j].new.last \in News(p)
        BY <3>1 DEF News
      <3>3. QED
        BY <1>5, <3>2
    <2>2. j - Len(p) \in DOMAIN q /\ r[j] = q[j - Len(p)]
      BY <1>13, <2>1
    <2>3. r[j].new.last \in News(q)
      BY <2>2 DEF News
    <2>4. lawful /\ r[j].new.last = last
      BY <1>11, <2>3
    <2>5. ASSUME NEW s \in targets
          PROVE  \E i \in 1 .. (j - 1) : r[i].do \in {"patch", "write"} /\ r[i].star = s
      <3>1. PICK i \in DOMAIN p : p[i].do = "patch" /\ p[i].star = s
        BY <1>6, <2>4, <2>5
      <3>2. i \in 1 .. (j - 1) /\ r[i] = p[i]
        BY <1>13, <2>1
      <3>3. QED
        BY <3>1, <3>2
    <2>6. QED
      BY <1>9, <2>4, <2>5
  <1>15. r # <<>>
    BY <1>12 DEF Owing
  <1>16. Fits("propagate", r)
    BY <1>12, <1>14, <1>15 DEF Fits, no
  <1>17. Begin("propagate", r)
    BY <1>4, <1>8 DEF r
  <1>18. QED
    BY <1>16, <1>17 DEF Begins, Calls
-------------------------------------------------------------------------------
\* A call is under way as long as it has something to do.
Orderly == Ordered(agenda) /\ (agenda # <<>> => call.status = "running")

\* An epoch is full.
Due == Len(hashes) > 0 /\ Len(hashes) % EpochSize = 0

\* What comes in the place of an item.
Brings(more) ==
    /\ more \in Seq(LawfulItems) /\ Ordered(more) /\ News(more) = {}
    /\ more # <<>> =>
          /\ more[1].do \notin {"tell", "post"}
          /\ more[1].do = "anchor" => Item.do = "tell" /\ Due'
    /\ Item.do = "tell" => more = <<>> \/ (Len(more) = 1 /\ more[1].do = "anchor")
    /\ Item.do = "tell" /\ more = <<>> => ~Due'
    /\ Item.do \in {"write", "anchor"} => more = <<>>
    /\ Item.do \in {"patch", "policy"} => Owing(more, "star")
    /\ Item.do = "signals" => Owing(more, "signal")
    /\ Item.do = "patch" => \E i \in DOMAIN more : more[i].do = "write" /\ more[i].star = Item.star

Moves == \E more : Goes(more) /\ Brings(more)

\* A step at the head of the agenda: an item is done, and others may come in its place, or
\* the call raises.
Works == agenda # <<>> /\ (Moves \/ Raises)

Quiet == UNCHANGED <<objects, emitted, boots>>

\* What a step at the head of the agenda does to the objects.
Does == \/ Quiet /\ (Item.do \in {"patch", "policy", "signals", "skip", "post"} \/ Raises)
        \/ Create \/ Open \/ Decide \/ Rollup \/ Write \/ Tell \/ Anchor
        \/ Signal \/ Constellation \/ Link \/ Propose

\* What the next step works on, by its kind.
LEMMA ItemTypes ==
    ASSUME Typed, agenda # <<>>
    PROVE  /\ Item \in Items
           /\ call.do # "create" => Item \in LawfulItems
           /\ Item.do \in {"create", "signals", "post"} => Item.star \in Stars
           /\ Item.do = "patch" => Item.star \in Stars /\ Item.delta \in Int
           /\ Item.do = "policy" => Item.star \in Stars /\ Item.cap \in Nat
           /\ Item.do = "write" => Item.star \in Stars /\ Item.new \in States
           /\ Item.do = "tell" => Item.new \in States
           /\ Item.do = "signal" => Item.star \in Stars /\ Item.metric \in Metrics /\ Item.new \in States
           /\ Item.do \in {"constellation", "propose"} => Item.new \in Constellations
           /\ Item.do = "link" => Item.from \in Stars /\ Item.to \in Stars
           /\ Item.do = "rollup" => Item.scope \in Scopes
           /\ Item.do = "decide" => /\ Item.uri \in Decisions /\ Item.passed \in BOOLEAN
                                    /\ Item.uri.scope \in Scopes
                                    /\ Item.uri.scope = "star" => Item.passed
  <1>1. Item \in Items /\ (call.do # "create" => Item \in LawfulItems)
    BY DEF Typed, Item
  <1>2. \A u \in Decisions : u.scope \in Scopes
    BY DEF Decisions, Scopes
  <1> HIDE DEF Item
  <1>3. QED
    BY <1>1, <1>2 DEF Items

\* The formula gives a collapse in the unit of the entropy.
LEMMA CollapseType == \A e \in Nat : Collapse(e) \in Nat
  BY SolisAssumption DEF Collapse

LEMMA PieceBrings ==
    ASSUME NEW more, Piece(more), News(more) = {}, Item.do \notin {"patch", "policy", "signals", "tell", "write", "anchor"}
    PROVE  Brings(more)
  BY DEF Piece, Whole, Brings

LEMMA GuardWorks ==
    ASSUME Typed, agenda # <<>>, Item.do \in {"patch", "policy"},
           NEW s \in Stars, s = Item.star, NEW new \in States, Guard(s, new)
    PROVE  Works /\ Quiet
  <1>1. CASE Allowed(star[s], new)
    <2>1. Goes(Commit(s, new))
      BY <1>1 DEF Guard
    <2>2. Brings(Commit(s, new))
      BY <1>1, CommitFits DEF Brings, Piece, Whole
    <2>3. QED
      BY <2>1, <2>2 DEF Guard, Works, Moves, Quiet
  <1>2. CASE ~Allowed(star[s], new)
    BY <1>2 DEF Guard, Works, Quiet
  <1>3. QED
    BY <1>1, <1>2

LEMMA PatchWorks ==
    ASSUME Typed, Patch
    PROVE  Works /\ Quiet
  <1>1. agenda # <<>> /\ Item.do = "patch" /\ star[Item.star] # None
    BY DEF Patch, At
  <1>2. Item.star \in Stars /\ Item.delta \in Int
    BY <1>1, ItemTypes
  <1>3. star[Item.star] \in States
    BY <1>1, <1>2 DEF Typed, TypeOK
  <1> DEFINE old == star[Item.star]
             e == IF old.entropy + Item.delta < 0 THEN 0 ELSE old.entropy + Item.delta
  <1>4. e \in Nat
    BY <1>2, <1>3 DEF States
  <1>5. Projected(old, Item.delta) = [entropy |-> e, collapse |-> Collapse(e)]
    BY DEF Projected
  <1> HIDE DEF e
  <1>6. Projected(old, Item.delta) \in States
    BY <1>4, <1>5, CollapseType DEF States
  <1>7. Guard(Item.star, Projected(old, Item.delta))
    BY DEF Patch
  <1>8. QED
    BY <1>1, <1>2, <1>6, <1>7, GuardWorks

LEMMA PolicyWorks ==
    ASSUME Typed, Policy
    PROVE  Works /\ Quiet
  <1>1. agenda # <<>> /\ Item.do = "policy" /\ star[Item.star] # None
    BY DEF Policy, At
  <1>2. Item.star \in Stars /\ Item.cap \in Nat
    BY <1>1, ItemTypes
  <1>3. star[Item.star] \in States
    BY <1>1, <1>2 DEF Typed, TypeOK
  <1>4. UnderPolicy(star[Item.star], Item.cap) \in States
    BY <1>2, <1>3 DEF UnderPolicy, States
  <1>5. Guard(Item.star, UnderPolicy(star[Item.star], Item.cap))
    BY DEF Policy
  <1>6. QED
    BY <1>1, <1>2, <1>4, <1>5, GuardWorks

\* The timeline of a star, or the star, gives a state.
LEMMA LatestStates ==
    ASSUME Typed, NEW s \in Stars
    PROVE  Latest(s) \subseteq States
  <1>1. \A i \in DOMAIN rows : rows[i].state \in States
    <2> DEFINE R == [star : Stars, state : States, call : Nat, by : Calls, life : Nat, kept : BOOLEAN]
    <2>1. rows \in Seq(R) /\ \A r \in R : r.state \in States
      BY DEF Typed, TypeOK
    <2> HIDE DEF R
    <2>2. \A i \in DOMAIN rows : rows[i] \in R
      BY <2>1, LenProperties, ElementOfSeq
    <2>3. QED
      BY <2>1, <2>2
  <1>2. \A i \in remembered : rows[i].state \in States
    BY <1>1 DEF Typed, TypeOK
  <1>3. {star[s]} \ {None} \subseteq States
    BY DEF Typed, TypeOK
  <1>4. QED
    BY <1>2, <1>3 DEF Latest

LEMMA SignalsWorks ==
    ASSUME Typed, Signals
    PROVE  Works /\ Quiet
  <1>1. agenda # <<>> /\ Item.do = "signals"
    BY DEF Signals, At
  <1>2. Item.star \in Stars
    BY <1>1, ItemTypes
  <1>3. PICK s \in Latest(Item.star) :
           Goes(PreCommit("signal", Item.star, TRUE, Drift(s) <= SignalTolerance,
                   <<[do |-> "signal", star |-> Item.star, metric |-> "drift", new |-> s],
                     [do |-> "signal", star |-> Item.star, metric |-> "reward", new |-> s]>>
                     \o Gate("signal", Item.star, "post", TRUE)))
    BY DEF Signals
  <1> DEFINE d == [do |-> "signal", star |-> Item.star, metric |-> "drift", new |-> s]
             r == [do |-> "signal", star |-> Item.star, metric |-> "reward", new |-> s]
             q == <<d, r>>
             g == Gate("signal", Item.star, "post", TRUE)
             formula == Drift(s) <= SignalTolerance
             more == PreCommit("signal", Item.star, TRUE, formula, q \o g)
  <1>4. s \in States
    BY <1>2, LatestStates
  <1>5. d \in Items /\ r \in Items /\ d.do = "signal" /\ r.do = "signal"
    BY <1>2, <1>4 DEF Items, Metrics
  <1>6. formula \in BOOLEAN
    OBVIOUS
  <1>7. Goes(more)
    BY <1>3
  <1>8. d \in LawfulItems /\ r \in LawfulItems
    BY <1>5, OtherItems
  <1> HIDE DEF d, r
  <1>9. q \in Seq(LawfulItems) /\ DOMAIN q = {1, 2} /\ q[1] = d /\ q[2] = r
    BY <1>8
  <1> HIDE DEF q, formula
  <1>10. Piece(q) /\ News(q) = {}
    BY <1>5, <1>9, PlainPiece DEF Plain, News
  <1>11. Judges("signal", Item.star)
    BY <1>2 DEF Judges
  <1>12. Piece(g) /\ News(g) = {}
    BY <1>11, GateFits
  <1> HIDE DEF g
  <1>13. Piece(q \o g) /\ News(q \o g) = {}
    BY <1>10, <1>12, PieceJoin, NewsJoin DEF Piece
  <1>14. Piece(more) /\ Owing(more, "signal") /\ News(more) = {}
    BY <1>6, <1>11, <1>13, PreCommitFits
  <1> HIDE DEF more
  <1>15. Brings(more)
    BY <1>1, <1>14 DEF Brings, Piece, Whole
  <1>16. QED
    BY <1>1, <1>7, <1>15 DEF Signals, Works, Moves, Quiet

\* The gate after a commit finds its anchor.
LEMMA PostCommitWorks ==
    ASSUME Typed, PostCommit, ~Due \/ emitted.anchored
    PROVE  Works /\ Quiet
  <1>1. agenda # <<>> /\ Item.do = "post" /\ Goes(Passes("star", Item.star, "post", TRUE, <<>>)) /\ Quiet
    BY DEF PostCommit, At, Due, Quiet
  <1>2. Judges("star", Item.star)
    BY <1>1, ItemTypes DEF Judges
  <1>3. /\ Piece(Passes("star", Item.star, "post", TRUE, <<>>))
        /\ News(Passes("star", Item.star, "post", TRUE, <<>>)) = {}
    BY <1>2, Nothing, PassesFits
  <1>4. Brings(Passes("star", Item.star, "post", TRUE, <<>>))
    BY <1>1, <1>3, PieceBrings
  <1>5. QED
    BY <1>1, <1>4 DEF Works, Moves

\* A step that is done with its item, or raises.
LEMMA PopWorks ==
    ASSUME agenda # <<>>, Goes(<<>>) \/ Raises, Item.do \notin {"patch", "policy", "signals", "tell"}
    PROVE  Works
  <1>1. Brings(<<>>)
    BY Nothing DEF Brings, Piece, Whole
  <1>2. QED
    BY <1>1 DEF Works, Moves

LEMMA TellWorks ==
    ASSUME Typed, Tell
    PROVE  Works
  <1>1. agenda # <<>> /\ Item.do = "tell"
    BY DEF Tell, At
  <1> DEFINE a == [do |-> "anchor"]
             more == IF ShouldAnchor(Len(hashes')) THEN <<a>> ELSE <<>>
  <1>2. CASE Raises
    BY <1>1, <1>2 DEF Works
  <1>3. CASE ~Raises
    <2>1. Goes(more)
      BY <1>3 DEF Tell, PatchRaises
    <2>2. a \in LawfulItems /\ a.do = "anchor"
      BY OtherItems DEF Items
    <2> HIDE DEF a
    <2>3. ShouldAnchor(Len(hashes')) <=> Due'
      BY DEF ShouldAnchor, Due
    <2>4. CASE Due'
      <3>1. PICK q : q = <<a>>
        OBVIOUS
      <3>2. q \in Seq(LawfulItems) /\ Len(q) = 1 /\ q[1] = a /\ DOMAIN q = {1}
        BY <2>2, <3>1
      <3>3. Ordered(q) /\ News(q) = {}
        BY <2>2, <3>2 DEF Ordered, News
      <3>4. Brings(q)
        BY <1>1, <2>2, <2>4, <3>2, <3>3 DEF Brings
      <3>5. QED
        BY <1>1, <2>1, <2>3, <2>4, <3>1, <3>4 DEF Works, Moves
    <2>5. CASE ~Due'
      <3>1. Brings(<<>>)
        BY <1>1, <2>5, Nothing DEF Brings, Piece, Whole
      <3>2. QED
        BY <1>1, <2>1, <2>3, <2>5, <3>1 DEF Works, Moves
    <2>6. QED
      BY <2>4, <2>5
  <1>4. QED
    BY <1>2, <1>3

\* Every step is one of these.
LEMMA Steps ==
    ASSUME Typed, [Next]_vars, At("post") => ~Due \/ emitted.anchored
    PROVE  Begins \/ (Works /\ Does) \/ Restart \/ UNCHANGED vars
  <1>1. ASSUME NEW s \in Stars, NEW g \in Given, CreateStar(s, g) PROVE Begins
    <2>1. g \in States
      BY SolisAssumption DEF States
    <2>2. QED
      BY <1>1, <2>1, CreateStarBegins
  <1>2. ASSUME NEW s \in Stars, NEW d \in Deltas,
               PatchStar(s, d) \/ \E lawful \in BOOLEAN : Propagate(s, d, lawful)
        PROVE  Begins
    <2>1. d \in Int
      BY SolisAssumption
    <2>2. QED
      BY <1>2, <2>1, PatchStarBegins, PropagateBegins
  <1>3. ASSUME NEW s \in Stars, NEW c \in Caps, ApplyPolicy(s, c) PROVE Begins
    <2>1. c \in Nat
      BY SolisAssumption
    <2>2. QED
      BY <1>3, <2>1, PolicyBegins
  <1>4. ASSUME NEW s \in Stars, EmitSignals(s) PROVE Begins
    BY <1>4, EmitSignalsBegins
  <1>5. ASSUME NEW m \in MemberLists, CreateConstellation(m) PROVE Begins
    BY <1>5, CreateConstellationBegins
  <1>6. ASSUME Recompute PROVE Begins
    BY <1>6, RecomputeBegins
  <1>7. ASSUME Patch \/ Policy \/ Signals PROVE Works /\ Does
    BY <1>7, PatchWorks, PolicyWorks, SignalsWorks DEF Does, Patch, Policy, Signals, At
  <1>8. ASSUME PostCommit PROVE Works /\ Does
    <2>1. At("post")
      BY <1>8 DEF PostCommit
    <2>2. QED
      BY <1>8, <2>1, PostCommitWorks DEF Does, At
  <1>9. ASSUME Refused \/ StepFails \/ Missing PROVE Works /\ Does
    BY <1>9 DEF Refused, StepFails, Missing, PatchRaises, Works, Does, Quiet, At
  <1>10. ASSUME Skip PROVE Works /\ Does
    BY <1>10, PopWorks DEF Skip, Does, Quiet, At
  <1>11. ASSUME Create \/ Open \/ Link PROVE Works /\ Does
    BY <1>11, PopWorks DEF Create, Open, Link, Does, At
  <1>12. ASSUME Decide \/ Rollup \/ Write PROVE Works /\ Does
    <2>1. agenda # <<>> /\ Item.do \in {"decide", "rollup", "write"} /\ (Goes(<<>>) \/ Raises)
      BY <1>12 DEF Decide, Rollup, Write, Ends, PatchRaises, At
    <2>2. QED
      BY <1>12, <2>1, PopWorks DEF Does
  <1>13. ASSUME Anchor \/ Signal \/ Constellation \/ Propose PROVE Works /\ Does
    <2>1. agenda # <<>> /\ Item.do \in {"anchor", "signal", "constellation", "propose"} /\ (Goes(<<>>) \/ Raises)
      BY <1>13 DEF Anchor, Signal, Constellation, Propose, Ends, PatchRaises, At
    <2>2. QED
      BY <1>13, <2>1, PopWorks DEF Does
  <1>14. ASSUME Tell PROVE Works /\ Does
    BY <1>14, TellWorks DEF Does
  <1>15. Next \/ UNCHANGED vars
    OBVIOUS
  <1>16. QED
    BY <1>1, <1>2, <1>3, <1>4, <1>5, <1>6, <1>7, <1>8, <1>9, <1>10, <1>11, <1>12, <1>13, <1>14, <1>15 DEF Next
-------------------------------------------------------------------------------
\* The agenda, its head and the rest of it.
LEMMA Rests ==
    ASSUME Typed, Orderly, agenda # <<>>
    PROVE  /\ Len(agenda) \in Nat \ {0} /\ DOMAIN agenda = 1 .. Len(agenda) /\ Item = agenda[1]
           /\ Tail(agenda) \in Seq(Items) /\ Len(Tail(agenda)) = Len(agenda) - 1
           /\ \A i \in 1 .. Len(agenda) - 1 : Tail(agenda)[i] = agenda[i + 1] /\ Adjacent(agenda[i], agenda[i + 1])
           /\ Ordered(Tail(agenda))
           /\ call.do # "create" => Tail(agenda) \in Seq(LawfulItems)
           /\ Tail(agenda) = <<>> <=> Len(agenda) = 1
           /\ Item.do \in {"decide", "write"} => Len(agenda) > 1
  <1> DEFINE t == Tail(agenda)
             n == Len(agenda)
  <1>1. agenda \in Seq(Items) /\ Ordered(agenda)
    BY DEF Typed, Orderly
  <1>2. n \in Nat \ {0} /\ DOMAIN agenda = 1 .. n
    BY <1>1, EmptySeq, LenProperties
  <1>3. t \in Seq(Items) /\ Len(t) = n - 1 /\ \A i \in 1 .. n - 1 : t[i] = agenda[i + 1]
    BY <1>1, HeadTailProperties
  <1>4. Item = agenda[1]
    BY <1>1, HeadTailProperties DEF Item
  <1>5. /\ \A i \in 1 .. n - 1 : Adjacent(agenda[i], agenda[i + 1])
        /\ agenda[n].do \notin {"decide", "write"}
    BY <1>1 DEF Ordered
  <1>6. call.do # "create" => t \in Seq(LawfulItems)
    BY HeadTailProperties DEF Typed
  <1>7. t = <<>> <=> n = 1
    <2>1. PICK q \in Seq(Items) : q = t
      BY <1>3
    <2> HIDE DEF t
    <2>2. q = <<>> <=> Len(q) = 0
      BY EmptySeq
    <2>3. QED
      BY <1>2, <1>3, <2>1, <2>2
  <1> HIDE DEF t, n
  <1>8. Ordered(t)
    <2>1. ASSUME NEW i \in 1 .. Len(t) - 1 PROVE Adjacent(t[i], t[i + 1])
      <3>1. i \in 1 .. n - 1 /\ i + 1 \in 1 .. n - 1
        BY <1>2, <1>3
      <3>2. t[i] = agenda[i + 1] /\ t[i + 1] = agenda[(i + 1) + 1]
        BY <1>3, <3>1
      <3>3. QED
        BY <1>5, <3>1, <3>2
    <2>2. ASSUME t # <<>> PROVE t[Len(t)].do \notin {"decide", "write"}
      <3>1. n - 1 \in 1 .. n - 1 /\ Len(t) = n - 1 /\ (n - 1) + 1 = n
        BY <1>2, <1>3, <1>7, <2>2
      <3>2. t[Len(t)] = agenda[n]
        BY <1>3, <3>1
      <3>3. QED
        BY <1>5, <3>2
    <2>3. QED
      BY <2>1, <2>2 DEF Ordered
  <1>9. Item.do \in {"decide", "write"} => n > 1
    BY <1>2, <1>4, <1>5
  <1>10. QED
    BY <1>2, <1>3, <1>4, <1>5, <1>6, <1>7, <1>8, <1>9 DEF t, n

\* An item is done, and others come in its place.
LEMMA GoesTo ==
    ASSUME Typed, Orderly, agenda # <<>>, NEW more, Goes(more), Brings(more)
    PROVE  /\ more \in Seq(Items)
           /\ agenda' \in Seq(Items) /\ Ordered(agenda')
           /\ call.do # "create" => agenda' \in Seq(LawfulItems)
           /\ agenda' = more \o Tail(agenda)
           /\ Len(more) \in Nat /\ DOMAIN more = 1 .. Len(more)
           /\ DOMAIN agenda' = 1 .. Len(more) + (Len(agenda) - 1)
           /\ \A i \in 1 .. Len(more) : agenda'[i] = more[i]
           /\ \A i \in 2 .. Len(agenda) : agenda'[Len(more) + (i - 1)] = agenda[i]
           /\ \A k \in DOMAIN agenda' : k > Len(more) =>
                 agenda'[k] = agenda[(k - Len(more)) + 1] /\ (k - Len(more)) + 1 \in 2 .. Len(agenda)
           /\ agenda' # <<>> => Item' = agenda'[1] /\ 1 \in DOMAIN agenda'
           /\ Len(agenda) \in Nat \ {0} /\ Len(more) + (Len(agenda) - 1) > 0 => agenda' # <<>>
  <1> DEFINE t == Tail(agenda)
             m == Len(more)
             n == Len(agenda)
  <1>1. /\ n \in Nat \ {0} /\ DOMAIN agenda = 1 .. n /\ Item = agenda[1]
        /\ t \in Seq(Items) /\ Len(t) = n - 1
        /\ \A i \in 1 .. n - 1 : t[i] = agenda[i + 1] /\ Adjacent(agenda[i], agenda[i + 1])
        /\ Ordered(t)
        /\ call.do # "create" => t \in Seq(LawfulItems)
        /\ t = <<>> <=> n = 1
    BY Rests
  <1>2. more \in Seq(LawfulItems) /\ more \in Seq(Items) /\ Ordered(more)
    BY LawfulAgenda DEF Brings
  <1>3. agenda' = more \o t
    BY DEF Goes
  <1>4. ASSUME more # <<>>, t # <<>> PROVE Adjacent(more[m], t[1])
    <2>1. 1 \in 1 .. n - 1 /\ t[1] = agenda[2] /\ Adjacent(Item, t[1])
      BY <1>1, <1>4
    <2>2. Item.do \notin {"write", "anchor"}
      BY <1>4 DEF Brings
    <2>3. t[1].do \notin {"tell", "anchor"} /\ (t[1].do = "post" => Item.do = "tell")
      BY <2>1, <2>2 DEF Adjacent
    <2>4. Item.do = "tell" => m = 1 /\ more[1].do = "anchor"
      BY <1>4 DEF Brings
    <2>5. more[m].do \notin {"decide", "write"}
      BY <1>2, <1>4 DEF Ordered
    <2>6. QED
      BY <2>3, <2>4, <2>5 DEF Adjacent
  <1> HIDE DEF t
  <1>5. Ordered(agenda') /\ agenda' \in Seq(Items)
    BY <1>1, <1>2, <1>3, <1>4, OrderedJoin, ConcatProperties
  <1>6. call.do # "create" => agenda' \in Seq(LawfulItems)
    BY <1>1, <1>2, <1>3, ConcatProperties
  <1>7. /\ m \in Nat /\ DOMAIN more = 1 .. m /\ DOMAIN agenda' = 1 .. m + (n - 1)
        /\ \A i \in 1 .. m : agenda'[i] = more[i]
        /\ \A i \in 1 .. n - 1 : agenda'[m + i] = t[i]
        /\ \A k \in 1 .. m + (n - 1) : k > m => agenda'[k] = t[k - m] /\ k - m \in 1 .. n - 1
    <2>1. t \in Seq(Items) /\ Len(t) = n - 1
      BY <1>1
    <2> HIDE DEF m, n
    <2>2. m \in Nat /\ DOMAIN more = 1 .. m /\ DOMAIN (more \o t) = 1 .. m + Len(t)
      BY <1>2, <2>1, Joined DEF m
    <2>3. /\ \A i \in 1 .. m : (more \o t)[i] = more[i]
          /\ \A i \in 1 .. Len(t) : (more \o t)[m + i] = t[i]
          /\ \A k \in 1 .. m + Len(t) : k > m => (more \o t)[k] = t[k - m] /\ k - m \in 1 .. Len(t)
      BY <1>2, <2>1, Joined DEF m
    <2>4. QED
      BY <1>1, <1>3, <2>1, <2>2, <2>3
  <1> HIDE DEF m, n
  <1>8. ASSUME NEW i \in 2 .. n PROVE agenda'[m + (i - 1)] = agenda[i]
    <2>1. i - 1 \in 1 .. n - 1 /\ (i - 1) + 1 = i
      BY <1>1
    <2>2. QED
      BY <1>1, <1>7, <2>1
  <1>9. ASSUME NEW k \in DOMAIN agenda', k > m
        PROVE  agenda'[k] = agenda[(k - m) + 1] /\ (k - m) + 1 \in 2 .. n
    <2>1. agenda'[k] = t[k - m] /\ k - m \in 1 .. n - 1
      BY <1>7, <1>9
    <2>2. QED
      BY <1>1, <2>1
  <1>10. agenda' # <<>> => Item' = agenda'[1] /\ 1 \in DOMAIN agenda'
    <2>1. SUFFICES ASSUME agenda' # <<>> PROVE Item' = agenda'[1] /\ 1 \in DOMAIN agenda'
      OBVIOUS
    <2>2. PICK q \in Seq(Items) : q = agenda'
      BY <1>5
    <2>3. Head(q) = q[1] /\ 1 \in DOMAIN q
      BY <2>1, <2>2, HeadTailProperties, EmptySeq, LenProperties
    <2>4. QED
      BY <2>2, <2>3 DEF Item
  <1>11. m + (n - 1) > 0 => agenda' # <<>>
    <2>1. SUFFICES ASSUME m + (n - 1) > 0, agenda' = <<>> PROVE FALSE
      OBVIOUS
    <2>2. 1 \in DOMAIN agenda'
      BY <1>1, <1>7, <2>1
    <2>3. QED
      BY <2>1, <2>2
  <1>12. QED
    BY <1>1, <1>2, <1>3, <1>5, <1>6, <1>7, <1>8, <1>9, <1>10, <1>11 DEF t, m, n

\* What is done next, by what was just done.
LEMMA NextIs ==
    ASSUME Typed, Orderly, agenda # <<>>, NEW more, Goes(more), Brings(more)
    PROVE  /\ At("tell")' => Item.do = "write"
           /\ At("post")' => Item.do = "anchor" \/ (Item.do = "tell" /\ ~Due')
           /\ At("anchor")' => Item.do = "tell" /\ Due'
           /\ Item.do = "write" => At("tell")' /\ Item'.new = Item.new
           /\ Item.do = "tell" /\ Due' => At("anchor")'
  <1> DEFINE m == Len(more)
             n == Len(agenda)
  <1>1. /\ n \in Nat \ {0} /\ Item = agenda[1]
        /\ \A i \in 1 .. n - 1 : Adjacent(agenda[i], agenda[i + 1])
        /\ Item.do = "write" => n > 1
    BY Rests
  <1>2. /\ more \in Seq(Items) /\ m \in Nat
        /\ DOMAIN agenda' = 1 .. m + (n - 1)
        /\ \A i \in 1 .. m : agenda'[i] = more[i]
        /\ \A i \in 2 .. n : agenda'[m + (i - 1)] = agenda[i]
        /\ agenda' # <<>> => Item' = agenda'[1] /\ 1 \in DOMAIN agenda'
        /\ m + (n - 1) > 0 => agenda' # <<>>
    BY GoesTo
  <1>3. m = 0 <=> more = <<>>
    BY <1>2, EmptySeq
  <1>4. /\ more # <<>> =>
             /\ more[1].do \notin {"tell", "post"}
             /\ more[1].do = "anchor" => Item.do = "tell" /\ Due'
        /\ Item.do = "tell" => more = <<>> \/ (m = 1 /\ more[1].do = "anchor")
        /\ Item.do = "tell" /\ more = <<>> => ~Due'
        /\ Item.do \in {"write", "anchor"} => more = <<>>
    BY DEF Brings
  <1> HIDE DEF m, n
  <1>5. CASE more # <<>>
    <2>1. agenda' # <<>> /\ Item' = more[1]
      BY <1>1, <1>2, <1>3, <1>5
    <2>2. QED
      BY <1>4, <1>5, <2>1 DEF At
  <1>6. CASE more = <<>> /\ n = 1
    <2>1. agenda' = <<>>
      BY <1>1, <1>2, <1>3, <1>6
    <2>2. QED
      BY <1>1, <1>4, <1>6, <2>1 DEF At
  <1>7. CASE more = <<>> /\ n > 1
    <2>1. m = 0 /\ 2 \in 2 .. n /\ 1 \in 1 .. n - 1 /\ m + (2 - 1) = 1
      BY <1>1, <1>3, <1>7
    <2>2. agenda' # <<>> /\ Item' = agenda[2] /\ Adjacent(Item, agenda[2])
      BY <1>1, <1>2, <2>1
    <2>3. QED
      BY <1>4, <1>7, <2>2 DEF Adjacent, At
  <1>8. QED
    BY <1>1, <1>5, <1>6, <1>7

\* The call after the step.
LEMMA CallGoes ==
    ASSUME Typed, Orderly, agenda # <<>>, NEW more, Goes(more)
    PROVE  /\ call'.no = call.no /\ call'.do = call.do /\ failed' = failed
           /\ call.status = "running"
           /\ call'.status = IF agenda' = <<>> THEN "returned" ELSE "running"
  BY DEF Typed, TypeOK, Orderly, Goes

LEMMA CallRaises ==
    ASSUME Typed, Orderly, agenda # <<>>, Raises
    PROVE  /\ call'.no = call.no /\ call'.do = call.do /\ failed' = failed \cup {call.no}
           /\ call.status = "running" /\ call'.status = "raised" /\ agenda' = <<>>
  BY DEF Typed, TypeOK, Orderly, Raises

LEMMA CallEnds ==
    ASSUME Typed, Restart
    PROVE  /\ call'.no = call.no /\ call'.do = call.do /\ call'.status = "crashed" /\ agenda' = <<>>
           /\ failed' = IF call.status = "running" THEN failed \cup {call.no} ELSE failed
  BY DEF Typed, TypeOK, Restart

LEMMA OrderlyStep ==
    ASSUME Typed, Orderly, [Next]_vars, At("post") => ~Due \/ emitted.anchored
    PROVE  Orderly'
  <1>1. CASE Begins
    BY <1>1 DEF Begins, Begin, Fits, Whole, Orderly
  <1>2. CASE Works
    <2>1. CASE Moves
      <3>1. PICK more : Goes(more) /\ Brings(more)
        BY <2>1 DEF Moves
      <3>2. Ordered(agenda')
        BY <1>2, <3>1, GoesTo DEF Works
      <3>3. agenda' # <<>> => call'.status = "running"
        BY <1>2, <3>1, CallGoes DEF Works
      <3>4. QED
        BY <3>2, <3>3 DEF Orderly
    <2>2. CASE Raises
      BY <2>2 DEF Raises, Orderly, Ordered
    <2>3. QED
      BY <1>2, <2>1, <2>2 DEF Works
  <1>3. CASE Restart
    BY <1>3 DEF Restart, Orderly, Ordered
  <1>4. CASE UNCHANGED vars
    BY <1>4 DEF vars, Orderly
  <1>5. QED
    BY <1>1, <1>2, <1>3, <1>4, Steps
-------------------------------------------------------------------------------
\* The agenda and the call after any step of a call.
CallTypes ==
    /\ call \in [no : Nat, do : Calls, status : {"returned", "running", "raised", "crashed"}]
    /\ failed \subseteq Nat

AgendaTypes == agenda \in Seq(Items) /\ (call.do # "create" => agenda \in Seq(LawfulItems))

LEMMA WorksTypes ==
    ASSUME Typed, Orderly, Works
    PROVE  AgendaTypes' /\ CallTypes'
  <1>1. agenda # <<>> /\ CallTypes
    BY DEF Works, Typed, TypeOK, CallTypes
  <1>2. CASE Moves
    <2>1. PICK more : Goes(more) /\ Brings(more)
      BY <1>2 DEF Moves
    <2>2. call'.do = call.do
      BY <1>1, <2>1, CallGoes
    <2>3. AgendaTypes'
      BY <1>1, <2>1, <2>2, GoesTo DEF AgendaTypes
    <2>4. CallTypes'
      BY <1>1, <2>1 DEF Goes, CallTypes
    <2>5. QED
      BY <2>3, <2>4
  <1>3. CASE Raises
    BY <1>1, <1>3 DEF Raises, CallTypes, AgendaTypes
  <1>4. QED
    BY <1>2, <1>3 DEF Works

LEMMA CreateTypes ==
    ASSUME Typed, Create, CallTypes'
    PROVE  TypeOK'
  <1>1. Item.star \in Stars
    BY ItemTypes DEF Create, At
  <1>2. Blank \in States
    BY DEF Blank, States
  <1>3. star' \in [Stars -> States \cup {None}]
    BY <1>1, <1>2 DEF Create, Typed, TypeOK
  <1>4. QED
    BY <1>3 DEF Create, gates, others, CallTypes, Typed, TypeOK

LEMMA OpenTypes ==
    ASSUME Typed, Open, CallTypes'
    PROVE  TypeOK'
  <1>1. BlankConstellation \in Constellations
    BY DEF BlankConstellation, Constellations
  <1>2. constellation' \in Constellations \cup {None}
    BY <1>1 DEF Open, Typed, TypeOK
  <1>3. QED
    BY <1>2 DEF Open, gates, CallTypes, Typed, TypeOK

\* A patch of a star that takes effect.
Row(kept) == [star |-> Item.star, state |-> Item.new, call |-> call.no, by |-> call.do, life |-> boots, kept |-> kept]
Rows == [star : Stars, state : States, call : Nat, by : Calls, life : Nat, kept : BOOLEAN]

LEMMA Written ==
    ASSUME Typed, Write
    PROVE  \E kept \in BOOLEAN :
              /\ Row(kept) \in Rows /\ rows' = Append(rows, Row(kept))
              /\ rows \in Seq(Rows) /\ rows' \in Seq(Rows)
              /\ Len(rows) \in Nat /\ Len(rows') = Len(rows) + 1
              /\ DOMAIN rows = 1 .. Len(rows) /\ DOMAIN rows' = 1 .. Len(rows) + 1
              /\ rows'[Len(rows) + 1] = Row(kept)
              /\ \A i \in DOMAIN rows : rows'[i] = rows[i]
  <1>1. PICK kept \in BOOLEAN : rows' = Append(rows, Row(kept))
    BY DEF Write, Row
  <1>2. Item.star \in Stars /\ Item.new \in States
    BY ItemTypes DEF Write, At
  <1>3. Row(kept) \in Rows
    BY <1>2 DEF Row, Rows, Typed, TypeOK
  <1>4. rows \in Seq(Rows)
    BY DEF Typed, TypeOK, Rows
  <1> DEFINE r == Row(kept)
  <1>5. r \in Rows /\ rows' = Append(rows, r)
    BY <1>1, <1>3
  <1> HIDE DEF r
  <1>6. /\ rows' \in Seq(Rows) /\ Len(rows) \in Nat /\ Len(rows') = Len(rows) + 1
        /\ DOMAIN rows = 1 .. Len(rows) /\ DOMAIN rows' = 1 .. Len(rows) + 1
        /\ rows'[Len(rows) + 1] = r
        /\ \A i \in DOMAIN rows : rows'[i] = rows[i]
    BY <1>4, <1>5
  <1>7. QED
    BY <1>1, <1>3, <1>4, <1>6 DEF r

LEMMA WriteTypes ==
    ASSUME Typed, Write, CallTypes'
    PROVE  TypeOK'
  <1>1. Item.star \in Stars /\ Item.new \in States
    BY ItemTypes DEF Write, At
  <1>2. /\ rows' \in Seq(Rows) /\ Len(rows) \in Nat
        /\ DOMAIN rows = 1 .. Len(rows) /\ DOMAIN rows' = 1 .. Len(rows) + 1
    BY Written
  <1>3. rows' \in Seq([star : Stars, state : States, call : Nat, by : Calls, life : Nat, kept : BOOLEAN])
    BY <1>2 DEF Rows
  <1>4. remembered' \subseteq DOMAIN rows'
    BY <1>2 DEF Write, Typed, TypeOK
  <1>5. star' \in [Stars -> States \cup {None}]
    BY <1>1 DEF Write, Typed, TypeOK
  <1>6. QED
    BY <1>3, <1>4, <1>5 DEF Write, gates, others, CallTypes, Typed, TypeOK

LEMMA TellTypes ==
    ASSUME Typed, Tell, CallTypes'
    PROVE  TypeOK'
  <1>1. Item.new \in States
    BY ItemTypes DEF Tell, At
  <1>2. Len(rows) \in Nat
    BY DEF Typed, TypeOK
  <1>3. told' \subseteq [row : Nat, state : States]
    BY <1>1, <1>2 DEF Tell, Typed, TypeOK
  <1>4. hashes' \in Seq(Nat) /\ emitted' \in [row : Nat, anchored : BOOLEAN]
    <2>1. /\ hashes' = hashes \/ hashes' = Append(hashes, Len(rows))
          /\ emitted' = emitted \/ emitted' = [row |-> Len(rows), anchored |-> FALSE]
      BY DEF Tell
    <2>2. hashes \in Seq(Nat) /\ emitted \in [row : Nat, anchored : BOOLEAN]
      BY DEF Typed, TypeOK
    <2>3. Append(hashes, Len(rows)) \in Seq(Nat)
      BY <1>2, <2>2
    <2>4. [row |-> Len(rows), anchored |-> FALSE] \in [row : Nat, anchored : BOOLEAN]
      BY <1>2
    <2>5. QED
      BY <2>1, <2>2, <2>3, <2>4
  <1>5. QED
    BY <1>3, <1>4 DEF Tell, gates, others, CallTypes, Typed, TypeOK

LEMMA AnchorTypes ==
    ASSUME Typed, Anchor, CallTypes'
    PROVE  TypeOK'
  <1>1. hashes \in Seq(Nat) /\ Len(hashes) \in Nat
    BY DEF Typed, TypeOK
  <1>2. Epoch \in Nat
    BY <1>1, SolisAssumption DEF Epoch
  <1> DEFINE a == [epoch |-> Epoch, root |-> Root, count |-> Len(hashes)]
  <1>3. a \in [epoch : Nat, root : Seq(Nat), count : Nat]
    BY <1>1, <1>2 DEF Root
  <1>4. anchor' = {x \in anchor : x.epoch # Epoch} \cup {a}
    BY DEF Anchor
  <1> HIDE DEF a
  <1>5. anchor' \subseteq [epoch : Nat, root : Seq(Nat), count : Nat]
    BY <1>3, <1>4 DEF Typed, TypeOK
  <1>6. emitted' \in [row : Nat, anchored : BOOLEAN]
    BY DEF Anchor, Typed, TypeOK
  <1>7. QED
    BY <1>5, <1>6 DEF Anchor, gates, others, CallTypes, Typed, TypeOK

\* One decision more in the timeline of its object.
LEMMA OneMoreType ==
    ASSUME NEW counts \in [Decisions -> Counts], NEW u \in Decisions, NEW passed \in BOOLEAN
    PROVE  /\ OneMore(counts, u, passed) \in [Decisions -> Counts]
           /\ \A k \in Decisions : k # u => OneMore(counts, u, passed)[k] = counts[k]
           /\ passed => OneMore(counts, u, passed)[u].failed = counts[u].failed
  <1>1. counts[u] \in Counts
    OBVIOUS
  <1>2. PICK d \in Counts : OneMore(counts, u, passed) = [counts EXCEPT ![u] = d] /\ (passed => d.failed = counts[u].failed)
    <2> DEFINE p == [passed |-> counts[u].passed + 1, failed |-> counts[u].failed]
               f == [passed |-> counts[u].passed, failed |-> counts[u].failed + 1]
    <2>1. p \in Counts /\ f \in Counts /\ p.failed = counts[u].failed
      BY <1>1 DEF Counts
    <2>2. [counts[u] EXCEPT !.passed = @ + 1] = p /\ [counts[u] EXCEPT !.failed = @ + 1] = f
      BY <1>1 DEF Counts
    <2>3. /\ passed => OneMore(counts, u, passed) = [counts EXCEPT ![u] = [counts[u] EXCEPT !.passed = @ + 1]]
          /\ ~passed => OneMore(counts, u, passed) = [counts EXCEPT ![u] = [counts[u] EXCEPT !.failed = @ + 1]]
      BY DEF OneMore
    <2> HIDE DEF p, f
    <2>4. QED
      BY <2>1, <2>2, <2>3
  <1>3. QED
    BY <1>2

LEMMA DecideTypes ==
    ASSUME Typed, Decide, CallTypes'
    PROVE  TypeOK'
  <1>1. Item.uri \in Decisions /\ Item.passed \in BOOLEAN
    BY ItemTypes DEF Decide, At
  <1>2. decided \in [Decisions -> Counts] /\ filed \in [Decisions -> Counts]
    BY DEF Typed, TypeOK
  <1>3. /\ decided' \in {decided, OneMore(decided, Item.uri, Item.passed)}
        /\ filed' \in {filed, OneMore(filed, Item.uri, Item.passed)}
    BY DEF Decide
  <1>4. decided' \in [Decisions -> Counts] /\ filed' \in [Decisions -> Counts]
    BY <1>1, <1>2, <1>3, OneMoreType
  <1>5. known' \subseteq Decisions
    BY <1>1 DEF Decide, Typed, TypeOK
  <1>6. QED
    BY <1>4, <1>5 DEF Decide, others, CallTypes, Typed, TypeOK

LEMMA RollupTypes ==
    ASSUME Typed, Rollup, CallTypes'
    PROVE  TypeOK'
  <1>1. Item.scope \in Scopes
    BY ItemTypes DEF Rollup, At
  <1> DEFINE K == {k \in known : k.scope = Item.scope}
             h == Counted(Item.scope)
  <1>2. K \subseteq Decisions /\ h = [u \in K |-> decided[u]]
    BY DEF Counted, Typed, TypeOK
  <1>3. DOMAIN h = K /\ h \in [K -> Counts]
    BY <1>2 DEF Typed, TypeOK
  <1>4. health' = [health EXCEPT ![Item.scope] = h]
    BY DEF Rollup
  <1> HIDE DEF h, K
  <1>5. DOMAIN h \subseteq Decisions /\ h \in [DOMAIN h -> Counts]
    BY <1>2, <1>3
  <1>6. DOMAIN health' = Scopes /\ \A c \in Scopes : health'[c] = IF c = Item.scope THEN h ELSE health[c]
    BY <1>1, <1>4 DEF Typed, TypeOK
  <1>7. \A c \in Scopes : health'[c] # None =>
           DOMAIN health'[c] \subseteq Decisions /\ health'[c] \in [DOMAIN health'[c] -> Counts]
    BY <1>5, <1>6 DEF Typed, TypeOK
  <1>8. QED
    BY <1>6, <1>7 DEF Rollup, others, CallTypes, Typed, TypeOK

LEMMA SignalTypes ==
    ASSUME Typed, Signal, CallTypes'
    PROVE  TypeOK'
  <1>1. Item.star \in Stars /\ Item.metric \in Metrics /\ Item.new \in States
    BY ItemTypes DEF Signal, At
  <1>2. signal' \in [Stars -> [Metrics -> States \cup {None}]]
    BY <1>1 DEF Signal, Typed, TypeOK
  <1>3. QED
    BY <1>2 DEF Signal, gates, CallTypes, Typed, TypeOK

LEMMA ConstellationTypes ==
    ASSUME Typed, Constellation \/ Propose, CallTypes'
    PROVE  TypeOK'
  <1>1. Item.new \in Constellations
    BY ItemTypes DEF Constellation, Propose, At
  <1>2. constellation' \in Constellations \cup {None}
    BY <1>1 DEF Constellation, Propose, Typed, TypeOK
  <1>3. proposal' \in [hot : SUBSET Nat, cascade : BOOLEAN] \cup {None}
    <2>1. proposal' = proposal \/ proposal' = [hot |-> Item.new.hot, cascade |-> Item.new.cascade]
      BY DEF Constellation, Propose
    <2>2. Item.new.hot \in SUBSET Nat /\ Item.new.cascade \in BOOLEAN
      BY <1>1 DEF Constellations
    <2>3. QED
      BY <2>1, <2>2 DEF Typed, TypeOK
  <1>4. QED
    BY <1>2, <1>3 DEF Constellation, Propose, gates, CallTypes, Typed, TypeOK

LEMMA LinkTypes ==
    ASSUME Typed, Link, CallTypes'
    PROVE  TypeOK'
  <1>1. Item.from \in Stars /\ Item.to \in Stars
    BY ItemTypes DEF Link, At
  <1>2. links' \subseteq Stars \X Stars
    BY <1>1 DEF Link, Typed, TypeOK
  <1>3. QED
    BY <1>2 DEF Link, gates, CallTypes, Typed, TypeOK

LEMMA QuietTypes ==
    ASSUME Typed, Quiet, CallTypes'
    PROVE  TypeOK'
  BY DEF Quiet, objects, gates, others, CallTypes, Typed, TypeOK

LEMMA RestartTypes ==
    ASSUME Typed, Restart
    PROVE  Typed'
  <1>1. CallTypes'
    BY DEF Restart, CallTypes, Typed, TypeOK
  <1>2. /\ star' \in [Stars -> States \cup {None}]
        /\ signal' \in [Stars -> [Metrics -> States \cup {None}]]
    BY DEF Restart, NoStars, NoSignals
  <1>3. DOMAIN health' = Scopes /\ \A c \in Scopes : health'[c] = None
    BY DEF Restart, NoHealth
  <1>4. decided' \in [Decisions -> Counts] /\ filed' \in [Decisions -> Counts]
    <2>1. NoDecisions \in [Decisions -> Counts]
      BY DEF NoDecisions, Counts
    <2>2. QED
      BY <2>1 DEF Restart, Typed, TypeOK
  <1>5. remembered' \subseteq DOMAIN rows' /\ hashes' \in Seq(Nat) /\ links' \subseteq Stars \X Stars
    BY DEF Restart
  <1>6. boots' \in Nat
    BY DEF Restart, Typed, TypeOK
  <1>7. TypeOK'
    BY <1>1, <1>2, <1>3, <1>4, <1>5, <1>6 DEF Restart, CallTypes, Typed, TypeOK
  <1>8. agenda' \in Seq(Items) /\ agenda' \in Seq(LawfulItems)
    BY DEF Restart
  <1>9. QED
    BY <1>7, <1>8 DEF Typed

LEMMA TypedStep ==
    ASSUME Typed, Orderly, [Next]_vars, At("post") => ~Due \/ emitted.anchored
    PROVE  Typed'
  <1>1. CASE Begins
    <2>1. PICK do, what : do \in Calls /\ Begin(do, what) /\ Fits(do, what)
      BY <1>1 DEF Begins
    <2>2. call'.do = do /\ CallTypes'
      BY <2>1 DEF Begin, CallTypes, Typed, TypeOK
    <2>3. TypeOK'
      BY <2>1, <2>2 DEF Begin, objects, gates, others, CallTypes, Typed, TypeOK
    <2>4. QED
      BY <2>1, <2>2, <2>3 DEF Begin, Fits, Typed
  <1>2. CASE Works /\ Does
    <2>1. AgendaTypes' /\ CallTypes'
      BY <1>2, WorksTypes
    <2>2. TypeOK'
      BY <1>2, <2>1, QuietTypes, CreateTypes, OpenTypes, DecideTypes, RollupTypes, WriteTypes, TellTypes,
         AnchorTypes, SignalTypes, ConstellationTypes, LinkTypes DEF Does
    <2>3. QED
      BY <2>1, <2>2 DEF AgendaTypes, Typed
  <1>3. CASE Restart
    BY <1>3, RestartTypes
  <1>4. CASE UNCHANGED vars
    BY <1>4 DEF vars, objects, gates, others, Typed, TypeOK
  <1>5. QED
    BY <1>1, <1>2, <1>3, <1>4, Steps

\* What a call writes stays within the tolerance of the guard.
LEMMA CollapseStep ==
    ASSUME Typed, CollapseHonest, Orderly, [Next]_vars, At("post") => ~Due \/ emitted.anchored
    PROVE  CollapseHonest'
  <1>1. CASE Write
    <2>1. PICK kept \in BOOLEAN :
              /\ DOMAIN rows = 1 .. Len(rows) /\ DOMAIN rows' = 1 .. Len(rows) + 1 /\ Len(rows) \in Nat
              /\ rows'[Len(rows) + 1] = Row(kept)
              /\ \A i \in DOMAIN rows : rows'[i] = rows[i]
      BY <1>1, Written
    <2>2. Row(kept).by # "create" => Drift(Row(kept).state) <= Tolerance
      BY <1>1, ItemTypes DEF Write, At, LawfulItems, Row
    <2>3. ASSUME NEW i \in DOMAIN rows', rows'[i].by # "create"
          PROVE  Drift(rows'[i].state) <= Tolerance
      BY <2>1, <2>2, <2>3 DEF CollapseHonest
    <2>4. QED
      BY <2>3 DEF CollapseHonest, Drift, Distance, Collapse
  <1>2. CASE UNCHANGED rows
    BY <1>2 DEF CollapseHonest, Drift, Distance, Collapse
  <1>3. Write \/ UNCHANGED rows
    BY Steps DEF Begins, Begin, Does, Quiet, Create, Open, Decide, Rollup, Tell, Anchor, Signal, Constellation,
                 Link, Propose, Restart, vars, objects
  <1>4. QED
    BY <1>1, <1>2, <1>3
-------------------------------------------------------------------------------
\* A call broke off behind this patch.
Broken(i) ==
    /\ rows[i].call \in failed
    /\ \A j \in DOMAIN rows : rows[j].call = rows[i].call => j <= i

Told(i) == \E t \in told : t.row = i

\* Every patch is told but the one just made, and those behind which a call broke off.
ToldInv ==
    /\ \A t \in told : t.row \in DOMAIN rows /\ rows[t.row].state = t.state
    /\ \A i \in DOMAIN rows : rows[i].call <= call.no
    /\ \A no \in failed : no <= call.no
    /\ call.status = "running" => call.no \notin failed
    /\ At("tell") => rows # <<>> /\ rows[Len(rows)].state = Item.new /\ rows[Len(rows)].call = call.no
    /\ \A i \in DOMAIN rows : Told(i) \/ Broken(i) \/ (i = Len(rows) /\ At("tell"))

LEMMA RowsDomain ==
    ASSUME Typed
    PROVE  /\ Len(rows) \in Nat /\ DOMAIN rows = 1 .. Len(rows)
           /\ \A i \in DOMAIN rows : rows[i] \in Rows /\ rows[i].call \in Nat
           /\ rows # <<>> => Len(rows) \in DOMAIN rows
  <1>1. rows \in Seq(Rows)
    BY DEF Typed, TypeOK, Rows
  <1>2. Len(rows) \in Nat /\ DOMAIN rows = 1 .. Len(rows) /\ \A i \in DOMAIN rows : rows[i] \in Rows
    BY <1>1, LenProperties, ElementOfSeq
  <1>3. \A r \in Rows : r.call \in Nat
    BY DEF Rows
  <1>4. rows # <<>> => Len(rows) \in DOMAIN rows
    BY <1>1, <1>2, EmptySeq
  <1>5. QED
    BY <1>2, <1>3, <1>4

\* A call that broke off makes no patches any more.
LEMMA BrokenStays ==
    ASSUME rows' = rows, failed \subseteq failed', NEW i, Broken(i)
    PROVE  Broken(i)'
  BY DEF Broken

\* The last patch, when its call raises.
LEMMA BrokenNow ==
    ASSUME Typed, rows' = rows, rows # <<>>, rows[Len(rows)].call \in failed'
    PROVE  Broken(Len(rows))'
  BY RowsDomain DEF Broken

\* No row is written, and no stellar event.
LEMMA ToldStays ==
    ASSUME Typed, Orderly, ToldInv, rows' = rows, told \subseteq told', agenda # <<>>,
           \A t \in told' : t.row \in DOMAIN rows /\ rows[t.row].state = t.state,
           \/ /\ Moves /\ Item.do # "write"
              /\ Item.do = "tell" => Told(Len(rows))'
           \/ Raises
    PROVE  ToldInv'
  <1>1. \A i \in DOMAIN rows : rows[i].call <= call.no
    BY DEF ToldInv
  <1>2. ASSUME NEW i \in DOMAIN rows, Told(i) PROVE Told(i)'
    BY <1>2 DEF Told
  <1>3. call.status = "running" /\ call.no \in Nat
    BY DEF Orderly, Typed, TypeOK
  <1>4. CASE Moves /\ Item.do # "write" /\ (Item.do = "tell" => Told(Len(rows))')
    <2>1. PICK more : Goes(more) /\ Brings(more)
      BY <1>4 DEF Moves
    <2>2. ~At("tell")'
      BY <1>4, <2>1, NextIs
    <2>3. call'.no = call.no /\ failed' = failed
      BY <2>1, CallGoes
    <2>4. ASSUME NEW i \in DOMAIN rows PROVE Told(i)' \/ Broken(i)'
      <3>1. CASE i = Len(rows) /\ At("tell")
        BY <1>4, <3>1 DEF At
      <3>2. CASE Told(i) \/ Broken(i)
        BY <1>2, <2>3, <3>2, BrokenStays
      <3>3. QED
        BY <3>1, <3>2 DEF ToldInv
    <2>5. QED
      BY <1>1, <1>3, <2>2, <2>3, <2>4 DEF ToldInv
  <1>5. CASE Raises
    <2>1. call'.no = call.no /\ failed' = failed \cup {call.no} /\ call'.status = "raised" /\ agenda' = <<>>
      BY <1>5, CallRaises
    <2>2. ~At("tell")'
      BY <2>1 DEF At
    <2>3. ASSUME NEW i \in DOMAIN rows PROVE Told(i)' \/ Broken(i)'
      <3>1. CASE i = Len(rows) /\ At("tell")
        BY <2>1, <3>1, BrokenNow DEF ToldInv
      <3>2. CASE Told(i) \/ Broken(i)
        BY <1>2, <2>1, <3>2, BrokenStays
      <3>3. QED
        BY <3>1, <3>2 DEF ToldInv
    <2>4. QED
      BY <1>1, <1>3, <2>1, <2>2, <2>3 DEF ToldInv
  <1>6. QED
    BY <1>4, <1>5

LEMMA ToldTells ==
    ASSUME Typed, Orderly, ToldInv, Tell, Works
    PROVE  ToldInv'
  <1>1. /\ agenda # <<>> /\ Item.do = "tell" /\ rows' = rows
        /\ told' = told \cup {[row |-> Len(rows), state |-> Item.new]}
    BY DEF Tell, At
  <1>2. rows # <<>> /\ rows[Len(rows)].state = Item.new
    BY <1>1 DEF ToldInv, At
  <1>3. Len(rows) \in DOMAIN rows
    BY <1>2, RowsDomain
  <1>4. \A t \in told' : t.row \in DOMAIN rows /\ rows[t.row].state = t.state
    BY <1>1, <1>2, <1>3 DEF ToldInv
  <1>5. \E t \in told' : t.row = Len(rows)
    <2>1. PICK t : t = [row |-> Len(rows), state |-> Item.new]
      OBVIOUS
    <2>2. t \in told' /\ t.row = Len(rows)
      BY <1>1, <2>1
    <2>3. QED
      BY <2>2
  <1>6. Told(Len(rows))'
    BY <1>1, <1>5 DEF Told
  <1>7. QED
    BY <1>1, <1>4, <1>6, ToldStays DEF Works

LEMMA BrokenWrites ==
    ASSUME Typed, Orderly, ToldInv, Write, Works, NEW i \in DOMAIN rows, Broken(i)
    PROVE  Broken(i)'
  <1>1. agenda # <<>>
    BY DEF Write, At
  <1>2. PICK kept \in BOOLEAN :
            /\ Len(rows) \in Nat /\ DOMAIN rows = 1 .. Len(rows) /\ DOMAIN rows' = 1 .. Len(rows) + 1
            /\ rows'[Len(rows) + 1] = Row(kept)
            /\ \A j \in DOMAIN rows : rows'[j] = rows[j]
    BY Written
  <1>3. rows'[Len(rows) + 1].call = call.no
    BY <1>2 DEF Row
  <1>4. rows[i].call # call.no
    BY <1>1 DEF Orderly, ToldInv, Broken
  <1>5. failed \subseteq failed'
    BY <1>1, CallGoes, CallRaises DEF Works, Moves
  <1>6. \A j \in DOMAIN rows' : rows'[j].call = rows'[i].call => j <= i
    BY <1>2, <1>3, <1>4 DEF Broken
  <1>7. rows'[i].call \in failed'
    BY <1>2, <1>5 DEF Broken
  <1>8. QED
    BY <1>6, <1>7 DEF Broken

LEMMA ToldWrites ==
    ASSUME Typed, Orderly, ToldInv, Write, Works
    PROVE  ToldInv'
  <1>1. agenda # <<>> /\ Item.do = "write" /\ told' = told
    BY DEF Write, At
  <1>n. PICK n : n = Len(rows) + 1
    OBVIOUS
  <1>2. PICK kept \in BOOLEAN :
            /\ rows' \in Seq(Rows) /\ Len(rows) \in Nat /\ Len(rows') = n
            /\ DOMAIN rows = 1 .. Len(rows) /\ DOMAIN rows' = 1 .. n
            /\ rows'[n] = Row(kept)
            /\ \A i \in DOMAIN rows : rows'[i] = rows[i]
    BY <1>n, Written
  <1>3. rows'[n].call = call.no /\ rows'[n].state = Item.new
    BY <1>2 DEF Row
  <1>4. call.status = "running" /\ call.no \notin failed /\ call.no \in Nat
    BY <1>1 DEF Orderly, ToldInv, Typed, TypeOK
  <1>5. call'.no = call.no /\ failed \subseteq failed'
    BY <1>1, CallGoes, CallRaises DEF Works, Moves
  <1>6. ASSUME NEW i \in DOMAIN rows PROVE Told(i)' \/ Broken(i)'
    <2>1. Told(i) \/ Broken(i)
      BY <1>1 DEF ToldInv, At
    <2>2. CASE Told(i)
      BY <1>1, <2>2 DEF Told
    <2>3. CASE Broken(i)
      BY <2>3, BrokenWrites
    <2>4. QED
      BY <2>1, <2>2, <2>3
  <1>7. \A t \in told' : t.row \in DOMAIN rows' /\ rows'[t.row].state = t.state
    BY <1>n, <1>1, <1>2 DEF ToldInv
  <1>8. \A i \in DOMAIN rows' : rows'[i].call <= call'.no
    BY <1>n, <1>2, <1>3, <1>4, <1>5 DEF ToldInv
  <1>9. rows' # <<>>
    BY <1>n, <1>2
  <1>10. CASE Moves
    <2>1. PICK more : Goes(more) /\ Brings(more)
      BY <1>10 DEF Moves
    <2>2. At("tell")' /\ Item'.new = Item.new
      BY <1>1, <2>1, NextIs
    <2>3. failed' = failed
      BY <1>1, <2>1, CallGoes
    <2>4. \A i \in DOMAIN rows' : Told(i)' \/ Broken(i)' \/ i = n
      BY <1>n, <1>2, <1>6
    <2>5. QED
      BY <1>2, <1>3, <1>4, <1>5, <1>7, <1>8, <1>9, <2>2, <2>3, <2>4 DEF ToldInv
  <1>11. CASE Raises
    <2>1. failed' = failed \cup {call.no} /\ call'.status = "raised" /\ agenda' = <<>>
      BY <1>1, <1>11, CallRaises
    <2>2. Broken(n)'
      BY <1>2, <1>3, <2>1 DEF Broken
    <2>3. \A i \in DOMAIN rows' : Told(i)' \/ Broken(i)'
      BY <1>n, <1>2, <1>6, <2>2
    <2>4. ~At("tell")'
      BY <2>1 DEF At
    <2>5. QED
      BY <1>4, <1>5, <1>7, <1>8, <2>1, <2>3, <2>4 DEF ToldInv
  <1>12. QED
    BY <1>10, <1>11 DEF Works

LEMMA ToldStep ==
    ASSUME Typed, Orderly, ToldInv, [Next]_vars, At("post") => ~Due \/ emitted.anchored
    PROVE  ToldInv'
  <1>1. CASE Begins
    <2>1. PICK do, what : do \in Calls /\ Begin(do, what) /\ Fits(do, what)
      BY <1>1 DEF Begins
    <2>2. /\ agenda = <<>> /\ call'.no = call.no + 1 /\ rows' = rows /\ told' = told /\ failed' = failed
          /\ call.no \in Nat /\ agenda' = what
      BY <2>1 DEF Begin, objects, Typed, TypeOK
    <2>3. ~At("tell") /\ ~At("tell")'
      <3>1. what \in Seq(Items) /\ what # <<>> /\ what[1].do # "tell"
        BY <2>1 DEF Fits, Whole
      <3>2. Head(what) = what[1]
        BY <3>1, HeadTailProperties
      <3>3. QED
        BY <2>2, <3>1, <3>2 DEF At, Item
    <2>4. \A i \in DOMAIN rows : Told(i)' \/ Broken(i)'
      BY <2>2, <2>3 DEF ToldInv, Told, Broken
    <2>5. \A i \in DOMAIN rows : rows[i].call <= call.no + 1
      BY <2>2, RowsDomain DEF ToldInv
    <2>6. \A no \in failed : no <= call.no + 1 /\ no # call.no + 1
      <3>1. failed \subseteq Nat
        BY DEF Typed, TypeOK
      <3>2. QED
        BY <2>2, <3>1 DEF ToldInv
    <2>7. QED
      BY <2>2, <2>3, <2>4, <2>5, <2>6 DEF ToldInv
  <1>2. CASE Works /\ Does
    <2>1. CASE Write \/ Tell
      BY <1>2, <2>1, ToldWrites, ToldTells
    <2>2. CASE ~(Write \/ Tell)
      <3>1. /\ rows' = rows /\ told' = told /\ agenda # <<>>
            /\ Item.do \notin {"write", "tell"} \/ Raises
        BY <1>2, <2>2 DEF Works, Does, Quiet, Create, Open, Decide, Rollup, Anchor, Signal, Constellation,
                          Link, Propose, objects, At
      <3>2. \A t \in told' : t.row \in DOMAIN rows /\ rows[t.row].state = t.state
        BY <3>1 DEF ToldInv
      <3>3. QED
        BY <1>2, <3>1, <3>2, ToldStays DEF Works
    <2>3. QED
      BY <2>1, <2>2
  <1>3. CASE Restart
    <2>1. /\ call'.no = call.no /\ call'.status = "crashed" /\ agenda' = <<>> /\ rows' = rows /\ told' = told
          /\ failed' = IF call.status = "running" THEN failed \cup {call.no} ELSE failed
      BY <1>3, CallEnds DEF Restart
    <2>2. ASSUME NEW i \in DOMAIN rows PROVE Told(i)' \/ Broken(i)'
      <3>1. CASE i = Len(rows) /\ At("tell")
        <4>1. call.status = "running" /\ rows # <<>> /\ rows[Len(rows)].call = call.no
          BY <3>1 DEF Orderly, ToldInv, At
        <4>2. QED
          BY <2>1, <3>1, <4>1, BrokenNow
      <3>2. CASE Told(i) \/ Broken(i)
        BY <2>1, <3>2, BrokenStays DEF Told
      <3>3. QED
        BY <3>1, <3>2 DEF ToldInv
    <2>3. ~At("tell")' /\ call.no \in Nat
      BY <2>1 DEF At, Typed, TypeOK
    <2>4. QED
      BY <2>1, <2>2, <2>3 DEF ToldInv
  <1>4. CASE UNCHANGED vars
    BY <1>4 DEF vars, objects, ToldInv, Told, Broken, At, Item
  <1>5. QED
    BY <1>1, <1>2, <1>3, <1>4, Steps
-------------------------------------------------------------------------------
\* The accumulator has the patches of this life in their order, but the one not yet told
\* and those behind which a call broke off.
Hashed(i) == \E k \in DOMAIN hashes : hashes[k] = i

HashInv ==
    /\ \A i, j \in DOMAIN hashes : i < j => hashes[i] < hashes[j]
    /\ \A k \in DOMAIN hashes : hashes[k] \in DOMAIN rows /\ (At("tell") => hashes[k] < Len(rows))
    /\ \A i \in DOMAIN rows : rows[i].life <= boots
    /\ \A i \in DOMAIN rows : rows[i].life = boots => Hashed(i) \/ Broken(i) \/ (i = Len(rows) /\ At("tell"))

LEMMA HashStays ==
    ASSUME Typed, Orderly, ToldInv, HashInv, agenda # <<>>, UNCHANGED <<rows, hashes, boots>>,
           (Moves /\ Item.do \notin {"write", "tell"}) \/ Raises
    PROVE  HashInv'
  <1>1. ~At("tell")' /\ \A i \in DOMAIN rows : (Broken(i) => Broken(i)') /\ (i = Len(rows) /\ At("tell") => Broken(i)')
    <2>1. CASE Moves /\ Item.do \notin {"write", "tell"}
      <3>1. PICK more : Goes(more) /\ Brings(more)
        BY <2>1 DEF Moves
      <3>2. ~At("tell") /\ ~At("tell")'
        BY <2>1, <3>1, NextIs DEF At
      <3>3. failed' = failed
        BY <3>1, CallGoes
      <3>4. QED
        BY <3>2, <3>3, BrokenStays
    <2>2. CASE Raises
      <3>1. failed' = failed \cup {call.no} /\ agenda' = <<>>
        BY <2>2, CallRaises
      <3>2. ASSUME NEW i \in DOMAIN rows, i = Len(rows), At("tell") PROVE Broken(i)'
        BY <3>1, <3>2, BrokenNow DEF ToldInv
      <3>3. QED
        BY <3>1, <3>2, BrokenStays DEF At
    <2>3. QED
      BY <2>1, <2>2
  <1>2. QED
    BY <1>1 DEF HashInv, Hashed

LEMMA HashWrites ==
    ASSUME Typed, Orderly, ToldInv, HashInv, Write, Works
    PROVE  HashInv'
  <1>1. agenda # <<>> /\ Item.do = "write" /\ UNCHANGED <<hashes, boots>> /\ ~At("tell")
    BY DEF Write, At
  <1>n. PICK n : n = Len(rows) + 1
    OBVIOUS
  <1>2. PICK kept \in BOOLEAN :
            /\ Len(rows) \in Nat /\ Len(rows') = n
            /\ DOMAIN rows = 1 .. Len(rows) /\ DOMAIN rows' = 1 .. n
            /\ rows'[n] = Row(kept)
            /\ \A i \in DOMAIN rows : rows'[i] = rows[i]
    BY <1>n, Written
  <1>3. rows'[n].life = boots /\ rows'[n].call = call.no /\ boots \in Nat
    BY <1>2 DEF Row, Typed, TypeOK
  <1>4. ASSUME NEW i \in DOMAIN rows, rows[i].life = boots PROVE Hashed(i)' \/ Broken(i)'
    BY <1>1, <1>4, BrokenWrites DEF HashInv, Hashed
  <1>5. At("tell")' \/ Broken(n)'
    <2>1. CASE Moves
      BY <1>1, <2>1, NextIs DEF Moves
    <2>2. CASE Raises
      <3>1. call.no \in failed'
        BY <1>1, <2>2, CallRaises
      <3>2. QED
        BY <1>n, <1>2, <1>3, <3>1 DEF Broken
    <2>3. QED
      BY <2>1, <2>2 DEF Works
  <1>6. \A i \in DOMAIN rows' : i \in DOMAIN rows \/ i = n
    BY <1>n, <1>2
  <1>7. \A i \in DOMAIN rows' : rows'[i].life <= boots'
    BY <1>1, <1>2, <1>3, <1>6 DEF HashInv
  <1>8. \A i \in DOMAIN rows' : rows'[i].life = boots' => Hashed(i)' \/ Broken(i)' \/ (i = Len(rows') /\ At("tell")')
    BY <1>1, <1>2, <1>4, <1>5, <1>6
  <1>9. \A k \in DOMAIN hashes' : hashes'[k] \in DOMAIN rows' /\ hashes'[k] < Len(rows')
    BY <1>n, <1>1, <1>2 DEF HashInv
  <1>10. QED
    BY <1>1, <1>7, <1>8, <1>9 DEF HashInv

\* The hash of the patch that was just told comes last.
LEMMA Appended ==
    ASSUME Typed, Orderly, Tell, Works, Moves
    PROVE  /\ hashes' = Append(hashes, Len(rows)) /\ emitted' = [row |-> Len(rows), anchored |-> FALSE]
           /\ Len(hashes) \in Nat /\ Len(hashes') = Len(hashes) + 1
           /\ DOMAIN hashes = 1 .. Len(hashes) /\ DOMAIN hashes' = 1 .. Len(hashes) + 1
           /\ \A k \in DOMAIN hashes : hashes'[k] = hashes[k] /\ hashes[k] \in Nat
           /\ hashes'[Len(hashes) + 1] = Len(rows)
  <1>1. ~Raises
    BY CallGoes, CallRaises DEF Moves, Works
  <1>2. hashes' = Append(hashes, Len(rows)) /\ emitted' = [row |-> Len(rows), anchored |-> FALSE]
    BY <1>1 DEF Tell, PatchRaises
  <1>3. hashes \in Seq(Nat) /\ Len(rows) \in Nat
    BY DEF Typed, TypeOK
  <1>4. QED
    BY <1>2, <1>3, AppendProperties, LenProperties, ElementOfSeq

LEMMA HashTells ==
    ASSUME Typed, Orderly, ToldInv, HashInv, Tell, Works, Moves
    PROVE  HashInv'
  <1>1. agenda # <<>> /\ Item.do = "tell" /\ UNCHANGED <<rows, boots>> /\ At("tell")
    BY DEF Tell, At
  <1>2. PICK more : Goes(more) /\ Brings(more)
    BY DEF Moves
  <1>3. ~At("tell")' /\ failed' = failed
    BY <1>1, <1>2, NextIs, CallGoes
  <1>n. PICK n : n = Len(hashes) + 1
    OBVIOUS
  <1>4. /\ Len(hashes) \in Nat /\ DOMAIN hashes = 1 .. Len(hashes) /\ DOMAIN hashes' = 1 .. n
        /\ \A k \in DOMAIN hashes : hashes'[k] = hashes[k] /\ hashes[k] \in Nat
        /\ hashes'[n] = Len(rows)
    BY <1>n, Appended
  <1>5. Len(rows) \in DOMAIN rows /\ Len(rows) \in Nat
    BY <1>1, RowsDomain DEF ToldInv
  <1>6. \A k \in DOMAIN hashes : hashes[k] < Len(rows) /\ hashes[k] \in DOMAIN rows
    BY <1>1 DEF HashInv
  <1>7. \A k \in DOMAIN hashes' : k \in DOMAIN hashes \/ k = n
    BY <1>n, <1>4
  <1>8. \A k \in DOMAIN hashes' : hashes'[k] \in DOMAIN rows'
    BY <1>1, <1>4, <1>5, <1>6, <1>7
  <1>9. ASSUME NEW i \in DOMAIN hashes', NEW j \in DOMAIN hashes', i < j PROVE hashes'[i] < hashes'[j]
    <2>1. i \in DOMAIN hashes
      BY <1>n, <1>4, <1>9
    <2>2. CASE j = n
      BY <1>4, <1>6, <2>1, <2>2
    <2>3. CASE j \in DOMAIN hashes
      BY <1>4, <1>9, <2>1, <2>3 DEF HashInv
    <2>4. QED
      BY <1>7, <2>2, <2>3
  <1>10. ASSUME NEW i \in DOMAIN rows', rows'[i].life = boots' PROVE Hashed(i)' \/ Broken(i)'
    <2>1. CASE i = Len(rows)
      <3>1. n \in DOMAIN hashes' /\ hashes'[n] = i
        BY <1>n, <1>4, <2>1
      <3>2. QED
        BY <3>1 DEF Hashed
    <2>2. CASE Broken(i)
      BY <1>1, <1>3, <2>2, BrokenStays
    <2>3. CASE Hashed(i)
      <3>1. PICK k \in DOMAIN hashes : hashes[k] = i
        BY <2>3 DEF Hashed
      <3>2. k \in DOMAIN hashes' /\ hashes'[k] = i
        BY <1>n, <1>4, <3>1
      <3>3. QED
        BY <3>2 DEF Hashed
    <2>4. QED
      BY <1>1, <1>10, <2>1, <2>2, <2>3 DEF HashInv
  <1>11. QED
    BY <1>1, <1>3, <1>8, <1>9, <1>10 DEF HashInv

LEMMA HashStep ==
    ASSUME Typed, Orderly, ToldInv, HashInv, [Next]_vars, At("post") => ~Due \/ emitted.anchored
    PROVE  HashInv'
  <1>1. CASE Begins
    <2>1. PICK do, what : do \in Calls /\ Begin(do, what) /\ Fits(do, what)
      BY <1>1 DEF Begins
    <2>2. UNCHANGED <<rows, hashes, boots, failed>> /\ agenda = <<>> /\ agenda' = what
      BY <2>1 DEF Begin, objects
    <2>3. ~At("tell") /\ ~At("tell")'
      <3>1. what \in Seq(Items) /\ what # <<>> /\ what[1].do # "tell"
        BY <2>1 DEF Fits, Whole
      <3>2. Head(what) = what[1]
        BY <3>1, HeadTailProperties
      <3>3. QED
        BY <2>2, <3>1, <3>2 DEF At, Item
    <2>4. QED
      BY <2>2, <2>3 DEF HashInv, Hashed, Broken
  <1>2. CASE Works /\ Does
    <2>1. CASE Write
      BY <1>2, <2>1, HashWrites
    <2>2. CASE Tell
      <3>1. CASE Moves
        BY <1>2, <2>2, <3>1, HashTells
      <3>2. CASE Raises
        <4>1. ~(\E more : Goes(more))
          BY <1>2, <3>2, CallGoes, CallRaises DEF Works
        <4>2. UNCHANGED <<rows, hashes, boots>>
          BY <2>2, <4>1 DEF Tell
        <4>3. QED
          BY <1>2, <3>2, <4>2, HashStays DEF Works
      <3>3. QED
        BY <1>2, <3>1, <3>2 DEF Works
    <2>3. CASE ~(Write \/ Tell)
      <3>1. /\ UNCHANGED <<rows, hashes, boots>> /\ agenda # <<>>
            /\ Item.do \notin {"write", "tell"} \/ Raises
        BY <1>2, <2>3 DEF Works, Does, Quiet, Create, Open, Decide, Rollup, Anchor, Signal, Constellation,
                          Link, Propose, objects, At
      <3>2. QED
        BY <1>2, <3>1, HashStays DEF Works
    <2>4. QED
      BY <2>1, <2>2, <2>3
  <1>3. CASE Restart
    <2>1. rows' = rows /\ hashes' = <<>> /\ boots' = boots + 1 /\ boots \in Nat
      BY <1>3 DEF Restart, Typed, TypeOK
    <2>2. \A i \in DOMAIN rows : rows[i].life <= boots /\ rows[i].life \in Nat
      BY RowsDomain DEF HashInv, Rows
    <2>3. \A i \in DOMAIN rows' : rows'[i].life <= boots' /\ rows'[i].life # boots'
      BY <2>1, <2>2
    <2>4. DOMAIN hashes' = {}
      BY <2>1
    <2>5. QED
      BY <2>3, <2>4 DEF HashInv
  <1>4. CASE UNCHANGED vars
    BY <1>4 DEF vars, objects, HashInv, Hashed, Broken, At, Item
  <1>5. QED
    BY <1>1, <1>2, <1>3, <1>4, Steps
-------------------------------------------------------------------------------
\* An anchor is over the first patches the accumulator has, and every whole epoch has one,
\* but the epoch just filled and those whose last call broke off.
Covers(a) ==
    /\ a.count = a.epoch * EpochSize /\ a.count <= Len(hashes)
    /\ Len(a.root) = a.count /\ \A k \in 1 .. a.count : a.root[k] = hashes[k]

Anchored(n) == \E a \in anchor : a.count = n

EpochInv ==
    /\ \A a \in anchor : Covers(a)
    /\ \A n \in DOMAIN hashes : n % EpochSize = 0 =>
          Anchored(n) \/ Broken(hashes[n]) \/ (At("anchor") /\ n = Len(hashes))
    /\ At("anchor") =>
          /\ Due /\ \A a \in anchor : a.count < Len(hashes)
          /\ hashes[Len(hashes)] = Len(rows) /\ rows[Len(rows)].call = call.no
    /\ At("post") => ~Due \/ emitted.anchored

LEMMA EpochStays ==
    ASSUME Typed, HashInv, EpochInv, UNCHANGED <<hashes, anchor>>, ~At("anchor")', ~At("post")',
           \A i \in DOMAIN rows : (Broken(i) => Broken(i)') /\ (At("anchor") /\ i = Len(rows) => Broken(i)')
    PROVE  EpochInv'
  <1>1. ASSUME NEW n \in DOMAIN hashes, n % EpochSize = 0
        PROVE  Anchored(n)' \/ Broken(hashes[n])'
    <2>1. PICK i \in DOMAIN rows : hashes[n] = i
      BY DEF HashInv
    <2>2. CASE Anchored(n)
      BY <2>2 DEF Anchored
    <2>3. CASE Broken(hashes[n])
      <3>1. Broken(i)'
        BY <2>1, <2>3
      <3>2. QED
        BY <2>1, <3>1
    <2>4. CASE At("anchor") /\ n = Len(hashes)
      <3>1. i = Len(rows)
        BY <2>1, <2>4 DEF EpochInv
      <3>2. Broken(i)'
        BY <2>4, <3>1
      <3>3. QED
        BY <2>1, <3>2
    <2>5. QED
      BY <1>1, <2>2, <2>3, <2>4 DEF EpochInv
  <1>2. \A a \in anchor' : Covers(a)'
    BY DEF EpochInv, Covers
  <1>3. QED
    BY <1>1, <1>2 DEF EpochInv

\* A whole epoch is a multiple of the epoch size.
LEMMA WholeEpoch ==
    ASSUME NEW n \in Nat, NEW k \in Nat \ {0}, n % k = 0
    PROVE  n = (n \div k) * k /\ n \div k \in Nat
  OBVIOUS

LEMMA EpochAnchors ==
    ASSUME Typed, Orderly, ToldInv, HashInv, EpochInv, Anchor, Works
    PROVE  EpochInv' /\ anchor \subseteq anchor'
  <1>1. /\ At("anchor") /\ Due /\ \A a \in anchor : a.count < Len(hashes)
        /\ agenda # <<>> /\ Item.do = "anchor"
    BY DEF Anchor, At, EpochInv
  <1>2. UNCHANGED <<rows, hashes>> /\ emitted'.anchored
    BY DEF Anchor, Typed, TypeOK
  <1>3. /\ hashes \in Seq(Nat) /\ Len(hashes) \in Nat /\ Len(hashes) > 0 /\ EpochSize \in Nat \ {0}
        /\ DOMAIN hashes = 1 .. Len(hashes)
    BY <1>1, SolisAssumption DEF Typed, TypeOK, Due
  <1>4. Len(hashes) = Epoch * EpochSize /\ Epoch \in Nat
    BY <1>1, <1>3, WholeEpoch DEF Due, Epoch
  <1>5. PICK x : x = [epoch |-> Epoch, root |-> hashes, count |-> Len(hashes)]
    OBVIOUS
  <1>6. anchor' = {a \in anchor : a.epoch # Epoch} \cup {x}
    BY <1>5 DEF Anchor, Root
  <1>7. Covers(x)' /\ x.count = Len(hashes)
    BY <1>2, <1>3, <1>4, <1>5 DEF Covers
  <1>8. anchor \subseteq anchor'
    <2> SUFFICES ASSUME NEW a \in anchor PROVE a \in anchor'
      OBVIOUS
    <2>1. a.count < Len(hashes) /\ a.count = a.epoch * EpochSize
      BY <1>1 DEF EpochInv, Covers
    <2>2. a.epoch # Epoch
      BY <1>3, <1>4, <2>1
    <2>3. QED
      BY <1>6, <2>2
  <1>9. \A a \in anchor' : Covers(a)'
    <2>1. \A a \in anchor : Covers(a)'
      BY <1>2 DEF EpochInv, Covers
    <2>2. QED
      BY <1>6, <1>7, <2>1
  <1>10. ASSUME NEW i \in DOMAIN rows, Broken(i) PROVE Broken(i)'
    BY <1>1, <1>2, <1>10, BrokenStays, CallGoes, CallRaises DEF Works, Moves
  <1>11. ASSUME NEW n \in DOMAIN hashes, n % EpochSize = 0 PROVE Anchored(n)' \/ Broken(hashes[n])'
    <2>1. CASE n = Len(hashes)
      BY <1>6, <1>7, <2>1 DEF Anchored
    <2>2. CASE Anchored(n)
      BY <1>8, <2>2 DEF Anchored
    <2>3. CASE Broken(hashes[n])
      <3>1. PICK i \in DOMAIN rows : hashes[n] = i
        BY DEF HashInv
      <3>2. Broken(i)'
        BY <1>10, <2>3, <3>1
      <3>3. QED
        BY <1>2, <3>1, <3>2
    <2>4. QED
      BY <1>11, <2>1, <2>2, <2>3 DEF EpochInv
  <1>12. ~At("anchor")'
    BY <1>1, NextIs, CallRaises DEF Works, Moves, At
  <1>13. EpochInv'
    BY <1>2, <1>9, <1>11, <1>12 DEF EpochInv
  <1>14. QED
    BY <1>8, <1>13

LEMMA EpochTells ==
    ASSUME Typed, Orderly, ToldInv, HashInv, EpochInv, Tell, Works, Moves
    PROVE  EpochInv'
  <1>1. agenda # <<>> /\ Item.do = "tell" /\ At("tell") /\ ~At("anchor") /\ UNCHANGED <<rows, anchor>>
    BY DEF Tell, At
  <1>2. PICK more : Goes(more) /\ Brings(more)
    BY DEF Moves
  <1>3. (At("post")' => ~Due') /\ (Due' => At("anchor")') /\ (At("anchor")' => Due')
    BY <1>1, <1>2, NextIs
  <1>4. failed' = failed /\ call'.no = call.no
    BY <1>1, <1>2, CallGoes
  <1>n. PICK n : n = Len(hashes) + 1
    OBVIOUS
  <1>5. /\ Len(hashes) \in Nat /\ DOMAIN hashes = 1 .. Len(hashes) /\ DOMAIN hashes' = 1 .. n /\ Len(hashes') = n
        /\ \A k \in DOMAIN hashes : hashes'[k] = hashes[k] /\ hashes[k] \in Nat
        /\ hashes'[n] = Len(rows)
    BY <1>n, Appended
  <1>6. rows[Len(rows)].call = call.no
    BY <1>1 DEF ToldInv
  <1>7. ASSUME NEW a \in anchor PROVE Covers(a)' /\ a.count < n
    <2>1. Covers(a) /\ a.count \in Nat
      BY DEF EpochInv, Typed, TypeOK
    <2>2. a.count < n /\ \A k \in 1 .. a.count : k \in DOMAIN hashes
      BY <1>n, <1>5, <2>1 DEF Covers
    <2>3. QED
      BY <1>5, <2>1, <2>2 DEF Covers
  <1>8. ASSUME NEW k \in DOMAIN hashes', k % EpochSize = 0
        PROVE  Anchored(k)' \/ Broken(hashes[k])' \/ (At("anchor")' /\ k = n)
    <2>1. CASE k = n
      <3>1. Due'
        BY <1>n, <1>5, <1>8, <2>1 DEF Due
      <3>2. QED
        BY <1>3, <2>1, <3>1
    <2>2. CASE k \in DOMAIN hashes
      <3>1. Anchored(k) \/ Broken(hashes[k])
        BY <1>1, <1>8, <2>2 DEF EpochInv
      <3>2. PICK i : hashes[k] = i /\ hashes'[k] = i
        BY <1>5, <2>2
      <3>3. Broken(i) => Broken(i)'
        BY <1>1, <1>4, BrokenStays
      <3>4. QED
        BY <1>1, <3>1, <3>2, <3>3 DEF Anchored
    <2>3. QED
      BY <1>n, <1>5, <2>1, <2>2
  <1>9. At("anchor")' => /\ Due' /\ \A a \in anchor' : a.count < Len(hashes')
                         /\ hashes'[Len(hashes')] = Len(rows') /\ rows'[Len(rows')].call = call'.no
    BY <1>1, <1>3, <1>4, <1>5, <1>6, <1>7
  <1>10. QED
    BY <1>1, <1>3, <1>5, <1>7, <1>8, <1>9 DEF EpochInv

LEMMA EpochStep ==
    ASSUME Typed, Orderly, ToldInv, HashInv, EpochInv, [Next]_vars
    PROVE  EpochInv' /\ (boots' = boots => anchor \subseteq anchor')
  <1>0. At("post") => ~Due \/ emitted.anchored
    BY DEF EpochInv
  <1>1. CASE Begins
    <2>1. PICK do, what : do \in Calls /\ Begin(do, what) /\ Fits(do, what)
      BY <1>1 DEF Begins
    <2>2. UNCHANGED <<rows, hashes, anchor, failed>> /\ agenda = <<>> /\ agenda' = what
      BY <2>1 DEF Begin, objects
    <2>3. ~At("anchor") /\ ~At("anchor")' /\ ~At("post")'
      <3>1. what \in Seq(Items) /\ what # <<>> /\ what[1].do \notin {"anchor", "post"}
        BY <2>1 DEF Fits, Whole
      <3>2. Head(what) = what[1]
        BY <3>1, HeadTailProperties
      <3>3. QED
        BY <2>2, <3>1, <3>2 DEF At, Item
    <2>4. \A i \in DOMAIN rows : Broken(i) => Broken(i)'
      BY <2>2, BrokenStays
    <2>5. QED
      BY <2>2, <2>3, <2>4, EpochStays
  <1>2. CASE Works /\ Does
    <2>1. CASE Anchor
      BY <1>2, <2>1, EpochAnchors
    <2>2. CASE Tell /\ Moves
      BY <1>2, <2>2, EpochTells DEF Tell
    <2>3. CASE ~Anchor /\ ~(Tell /\ Moves)
      <3>1. UNCHANGED <<hashes, anchor>>
        <4>1. CASE Tell
          <5>1. ~(\E more : Goes(more))
            BY <1>2, <2>3, <4>1, CallGoes, CallRaises DEF Works
          <5>2. QED
            BY <4>1, <5>1 DEF Tell
        <4>2. CASE ~Tell
          BY <1>2, <2>3, <4>2 DEF Does, Quiet, Create, Open, Decide, Rollup, Write, Signal, Constellation,
                                 Link, Propose, objects
        <4>3. QED
          BY <4>1, <4>2
      <3>2. agenda # <<>> /\ (rows' = rows \/ Write)
        BY <1>2, <2>3 DEF Works, Does, Quiet, Create, Open, Decide, Rollup, Tell, Signal, Constellation,
                          Link, Propose, objects
      <3>3. ASSUME NEW i \in DOMAIN rows, Broken(i) PROVE Broken(i)'
        <4>1. failed \subseteq failed'
          BY <1>2, <3>2, CallGoes, CallRaises DEF Works, Moves
        <4>2. QED
          BY <1>2, <3>2, <3>3, <4>1, BrokenStays, BrokenWrites
      <3>4. CASE Raises
        <4>1. failed' = failed \cup {call.no} /\ agenda' = <<>>
          BY <3>2, <3>4, CallRaises
        <4>2. ASSUME NEW i \in DOMAIN rows, At("anchor"), i = Len(rows) PROVE Broken(i)'
          <5>1. rows' = rows /\ rows # <<>> /\ rows[Len(rows)].call = call.no
            BY <3>2, <4>2, RowsDomain DEF EpochInv, At, Write
          <5>2. QED
            BY <4>1, <4>2, <5>1, BrokenNow
        <4>3. QED
          BY <3>1, <3>3, <4>1, <4>2, EpochStays DEF At
      <3>5. CASE Moves /\ ~Raises
        <4>1. Item.do \notin {"tell", "anchor"}
          BY <1>2, <2>3, <3>5 DEF Does, Create, Open, Decide, Rollup, Write, Tell, Signal, Constellation,
                                  Link, Propose, At
        <4>2. ~At("anchor")' /\ ~At("post")' /\ ~At("anchor")
          BY <3>2, <3>5, <4>1, NextIs DEF Moves, At
        <4>3. QED
          BY <3>1, <3>3, <4>2, EpochStays
      <3>6. QED
        BY <1>2, <3>4, <3>5 DEF Works
    <2>4. QED
      BY <2>1, <2>2, <2>3
  <1>3. CASE Restart
    <2>1. anchor' = {} /\ DOMAIN hashes' = {} /\ agenda' = <<>> /\ boots' # boots
      BY <1>3 DEF Restart, Typed, TypeOK
    <2>2. QED
      BY <2>1 DEF EpochInv, At
  <1>4. CASE UNCHANGED vars
    BY <1>4 DEF vars, objects, EpochInv, Covers, Anchored, Broken, Due, At, Item
  <1>5. QED
    BY <1>0, <1>1, <1>2, <1>3, <1>4, Steps

LEMMA Cancel ==
    ASSUME NEW x \in Nat, NEW y \in Nat, NEW k \in Nat \ {0}, x * k = y * k
    PROVE  x = y
  <1>1. ASSUME NEW u \in Nat, NEW v \in Nat, u < v PROVE u * k < v * k
    <2>1. PICK d \in Nat : v = u + 1 + d
      <3>1. v - u - 1 \in Nat /\ v = u + 1 + (v - u - 1)
        BY <1>1
      <3>2. QED
        BY <3>1
    <2>2. v * k = u * k + k + d * k
      BY <2>1
    <2>3. d * k >= 0
      OBVIOUS
    <2>4. QED
      BY <2>2, <2>3
  <1>2. CASE x < y
    BY <1>1, <1>2
  <1>3. CASE y < x
    BY <1>1, <1>3
  <1>4. QED
    BY <1>2, <1>3

\* What the accumulator and the anchors promise of each other follows.
LEMMA Anchors ==
    ASSUME Typed, Orderly, ToldInv, HashInv, EpochInv
    PROVE  AnchorsCoverAll
  <1>1. /\ hashes \in Seq(Nat) /\ Len(hashes) \in Nat /\ DOMAIN hashes = 1 .. Len(hashes)
        /\ EpochSize \in Nat \ {0}
    BY SolisAssumption DEF Typed, TypeOK
  <1>2. ASSUME NEW i, Broken(i) PROVE BrokenOff(i)
    BY <1>2 DEF Broken, BrokenOff
  <1>3. ASSUME rows # <<>>, rows[Len(rows)].call = call.no, call.status = "running"
        PROVE  BrokenOff(Len(rows))
    BY <1>3, RowsDomain DEF BrokenOff
  <1>4. ASSUME NEW i \in DOMAIN rows, rows[i].life = boots
        PROVE  (\E k \in DOMAIN hashes : hashes[k] = i) \/ BrokenOff(i)
    <2>1. CASE i = Len(rows) /\ At("tell")
      BY <1>3, <2>1 DEF Orderly, ToldInv, At
    <2>2. QED
      BY <1>2, <1>4, <2>1 DEF HashInv, Hashed
  <1>5. ASSUME NEW a \in anchor PROVE a.root = SubSeq(hashes, 1, a.count)
    <2>1. a.root \in Seq(Nat) /\ a.count \in Nat /\ Covers(a)
      BY DEF EpochInv, Typed, TypeOK
    <2>2. PICK s : s = SubSeq(hashes, 1, a.count)
      OBVIOUS
    <2>3. s \in Seq(Nat) /\ Len(s) = a.count /\ \A k \in 1 .. a.count : s[k] = hashes[k]
      BY <1>1, <2>1, <2>2, SubSeqProperties DEF Covers
    <2>4. Len(a.root) = Len(s) /\ \A k \in 1 .. Len(a.root) : a.root[k] = s[k]
      BY <2>1, <2>3 DEF Covers
    <2>5. a.root = s
      BY <2>1, <2>3, <2>4, SeqEqual
    <2>6. QED
      BY <2>2, <2>5
  <1>6. ASSUME NEW e \in 1 .. Len(hashes) \div EpochSize
        PROVE  (\E a \in anchor : a.epoch = e) \/ BrokenOff(hashes[e * EpochSize])
    <2>1. PICK n : n = e * EpochSize
      OBVIOUS
    <2>2. n \in DOMAIN hashes /\ n % EpochSize = 0 /\ e \in Nat
      BY <1>1, <2>1
    <2>3. CASE Anchored(n)
      <3>1. PICK a \in anchor : a.count = n
        BY <2>3 DEF Anchored
      <3>2. a.epoch * EpochSize = e * EpochSize /\ a.epoch \in Nat
        BY <2>1, <3>1 DEF EpochInv, Covers, Typed, TypeOK
      <3>3. a.epoch = e
        BY <1>1, <2>2, <3>2, Cancel
      <3>4. QED
        BY <3>3
    <2>4. CASE Broken(hashes[n])
      BY <1>2, <2>1, <2>4
    <2>5. CASE At("anchor") /\ n = Len(hashes)
      <3>1. hashes[n] = Len(rows) /\ rows[Len(rows)].call = call.no /\ call.status = "running"
        BY <2>5 DEF Orderly, EpochInv, At
      <3>2. rows # <<>>
        BY <2>2, RowsDomain DEF HashInv
      <3>3. QED
        BY <1>3, <2>1, <3>1, <3>2
    <2>6. QED
      BY <2>2, <2>3, <2>4, <2>5 DEF EpochInv
  <1>7. \A a \in anchor : a.count = a.epoch * EpochSize
    BY DEF EpochInv, Covers
  <1>8. \A i, j \in DOMAIN hashes : i < j => hashes[i] < hashes[j]
    BY DEF HashInv
  <1>9. QED
    BY <1>4, <1>5, <1>6, <1>7, <1>8 DEF AnchorsCoverAll
-------------------------------------------------------------------------------
\* No gate of the stars ever refused, in memory or in the file.
Guarded == \A u \in Decisions : u.scope = "star" => decided[u].failed = 0 /\ filed[u].failed = 0

\* A decision is recorded.
LEMMA Decided ==
    ASSUME Typed, Decide
    PROVE  /\ Item.uri \in Decisions /\ Item.passed \in BOOLEAN
           /\ Item.uri.scope = "star" => Item.passed
           /\ decided' \in {decided, OneMore(decided, Item.uri, Item.passed)}
           /\ filed' \in {filed, OneMore(filed, Item.uri, Item.passed)}
           /\ known' = known \cup {Item.uri} /\ health' = health
           /\ \A k \in Decisions : k # Item.uri => decided'[k] = decided[k]
  <1>1. /\ Item.uri \in Decisions /\ Item.passed \in BOOLEAN
        /\ Item.uri.scope = "star" => Item.passed
    BY ItemTypes DEF Decide, At
  <1>2. /\ decided' \in {decided, OneMore(decided, Item.uri, Item.passed)}
        /\ filed' \in {filed, OneMore(filed, Item.uri, Item.passed)}
        /\ known' = known \cup {Item.uri} /\ health' = health
    BY DEF Decide
  <1>3. decided \in [Decisions -> Counts]
    BY DEF Typed, TypeOK
  <1>4. QED
    BY <1>1, <1>2, <1>3, OneMoreType

LEMMA GuardedStep ==
    ASSUME Typed, Guarded, [Next]_vars, At("post") => ~Due \/ emitted.anchored
    PROVE  Guarded'
  <1>1. CASE Decide
    <2>1. /\ Item.uri \in Decisions /\ Item.passed \in BOOLEAN
          /\ Item.uri.scope = "star" => Item.passed
          /\ decided' \in {decided, OneMore(decided, Item.uri, Item.passed)}
          /\ filed' \in {filed, OneMore(filed, Item.uri, Item.passed)}
      BY <1>1, Decided
    <2>2. ASSUME NEW counts \in {decided, filed}, NEW u \in Decisions, u.scope = "star"
          PROVE  OneMore(counts, Item.uri, Item.passed)[u].failed = 0
      <3>1. counts \in [Decisions -> Counts] /\ counts[u].failed = 0
        BY <2>2 DEF Guarded, Typed, TypeOK
      <3>2. CASE u = Item.uri
        BY <2>1, <2>2, <3>1, <3>2, OneMoreType
      <3>3. CASE u # Item.uri
        BY <2>1, <3>1, <3>3, OneMoreType
      <3>4. QED
        BY <3>2, <3>3
    <2>3. QED
      BY <2>1, <2>2 DEF Guarded
  <1>2. CASE Restart
    BY <1>2 DEF Restart, Guarded, NoDecisions
  <1>3. CASE UNCHANGED <<decided, filed>>
    BY <1>3 DEF Guarded
  <1>4. Decide \/ Restart \/ UNCHANGED <<decided, filed>>
    BY Steps DEF Begins, Begin, Does, Quiet, Create, Open, Rollup, Write, Tell, Anchor, Signal, Constellation,
                 Link, Propose, vars, objects, gates
  <1>5. QED
    BY <1>1, <1>2, <1>3, <1>4
-------------------------------------------------------------------------------
\* The health of the scope is up to date, or the call is still to bring it there.
Level(scope) == UpToDate(scope) \/ Owing(agenda, scope)

HealthInv ==
    call.status \in {"running", "returned"} =>
        /\ call.do \in {"patch", "policy"} => Level("star")
        /\ call.do = "signals" => Level("signal")
        /\ call.do \in {"constellation", "recompute", "propagate"} => Level("constellation")

LEMMA UpToDateStays ==
    ASSUME NEW scope \in Scopes, UpToDate(scope), health'[scope] = health[scope],
           {k \in known' : k.scope = scope} = {k \in known : k.scope = scope},
           \A k \in known : k.scope = scope => decided'[k] = decided[k]
    PROVE  UpToDate(scope)'
  <1>1. PICK K : K = {k \in known : k.scope = scope} /\ K = {k \in known' : k.scope = scope}
    OBVIOUS
  <1>2. [u \in K |-> decided[u]] = [u \in K |-> decided'[u]]
    BY <1>1
  <1>3. health[scope] = [u \in K |-> decided[u]]
    BY <1>1 DEF UpToDate
  <1>4. health'[scope] = [u \in K |-> decided'[u]]
    BY <1>2, <1>3
  <1>5. QED
    BY <1>1, <1>4 DEF UpToDate

LEMMA RollupUpdates ==
    ASSUME Typed, Rollup, NEW scope \in Scopes
    PROVE  /\ Item.scope = scope => UpToDate(scope)'
           /\ Item.scope # scope => health'[scope] = health[scope]
           /\ UNCHANGED <<known, decided>>
  <1>1. health' = [health EXCEPT ![Item.scope] = Counted(Item.scope)] /\ UNCHANGED <<known, decided>>
    BY DEF Rollup
  <1>2. DOMAIN health = Scopes
    BY DEF Typed, TypeOK
  <1>3. health'[scope] = IF Item.scope = scope THEN Counted(scope) ELSE health[scope]
    BY <1>1, <1>2
  <1>4. ASSUME Item.scope = scope PROVE health'[scope] = [u \in {k \in known' : k.scope = scope} |-> decided'[u]]
    BY <1>1, <1>3, <1>4 DEF Counted
  <1>5. QED
    BY <1>1, <1>3, <1>4 DEF UpToDate

\* An item that is still to come, or what came in the place of another, is in the agenda.
LEMMA OwingStays ==
    ASSUME Typed, Orderly, agenda # <<>>, NEW more, Goes(more), Brings(more), NEW scope,
           Owing(more, scope) \/ \E i \in 2 .. Len(agenda) : Owes(agenda[i], scope)
    PROVE  Owing(agenda', scope)
  <1> DEFINE m == Len(more)
             n == Len(agenda)
  <1>1. /\ m \in Nat /\ n \in Nat /\ DOMAIN more = 1 .. m /\ DOMAIN agenda' = 1 .. m + (n - 1)
        /\ \A i \in 1 .. m : agenda'[i] = more[i]
        /\ \A i \in 2 .. n : agenda'[m + (i - 1)] = agenda[i]
    BY GoesTo
  <1> HIDE DEF m, n
  <1>2. CASE Owing(more, scope)
    <2>1. PICK i \in 1 .. m : Owes(more[i], scope)
      BY <1>1, <1>2 DEF Owing
    <2>2. i \in 1 .. m + (n - 1) \/ n = 0
      BY <1>1
    <2>3. n # 0
      BY EmptySeq DEF Typed, n
    <2>4. i \in DOMAIN agenda' /\ Owes(agenda'[i], scope)
      BY <1>1, <2>1, <2>2, <2>3
    <2>5. QED
      BY <2>4 DEF Owing
  <1>3. CASE \E i \in 2 .. n : Owes(agenda[i], scope)
    <2>1. PICK i \in 2 .. n : Owes(agenda[i], scope)
      BY <1>3
    <2>2. m + (i - 1) \in DOMAIN agenda' /\ Owes(agenda'[m + (i - 1)], scope)
      BY <1>1, <2>1
    <2>3. QED
      BY <2>2 DEF Owing
  <1>4. QED
    BY <1>2, <1>3 DEF n

LEMMA LevelStep ==
    ASSUME Typed, Orderly, Works, Does, ~Raises, NEW scope \in Scopes, Level(scope)
    PROVE  Level(scope)'
  <1>1. agenda # <<>>
    BY DEF Works
  <1>2. PICK more : Goes(more) /\ Brings(more)
    BY DEF Works, Moves
  <1>3. /\ Item = agenda[1] /\ Len(agenda) \in Nat \ {0} /\ DOMAIN agenda = 1 .. Len(agenda)
        /\ \A i \in 1 .. Len(agenda) - 1 : Adjacent(agenda[i], agenda[i + 1])
        /\ Item.do \in {"decide", "write"} => Len(agenda) > 1
    BY <1>1, Rests
  <1>4. CASE Item.do = "rollup" /\ Item.scope = scope
    <2>1. Rollup
      BY <1>4 DEF Does, Create, Open, Decide, Write, Tell, Anchor, Signal, Constellation, Link, Propose, At
    <2>2. QED
      BY <1>4, <2>1, RollupUpdates DEF Level
  <1>5. CASE Owing(agenda, scope) /\ ~(Item.do = "rollup" /\ Item.scope = scope)
    <2>1. PICK i \in 1 .. Len(agenda) : Owes(agenda[i], scope)
      BY <1>3, <1>5 DEF Owing
    <2>2. CASE i = 1
      <3>1. Owing(more, scope)
        BY <1>2, <1>3, <1>5, <2>1, <2>2 DEF Owes, Brings
      <3>2. QED
        BY <1>1, <1>2, <3>1, OwingStays DEF Level
    <2>3. CASE i # 1
      <3>1. i \in 2 .. Len(agenda)
        BY <1>3, <2>1, <2>3
      <3>2. QED
        BY <1>1, <1>2, <2>1, <3>1, OwingStays DEF Level
    <2>4. QED
      BY <2>2, <2>3
  <1>6. CASE UpToDate(scope) /\ ~(Item.do = "rollup" /\ Item.scope = scope)
    <2>1. CASE Decide
      <3>1. /\ Item.uri \in Decisions /\ known' = known \cup {Item.uri} /\ health' = health
            /\ \A k \in Decisions : k # Item.uri => decided'[k] = decided[k]
        BY <2>1, Decided
      <3>2. CASE Item.uri.scope = scope
        <4>1. Item.do = "decide" /\ Len(agenda) > 1
          BY <1>3, <2>1 DEF Decide, At
        <4>2. 1 \in 1 .. Len(agenda) - 1 /\ 2 \in 2 .. Len(agenda)
          BY <1>3, <4>1
        <4>3. Adjacent(Item, agenda[2])
          BY <1>3, <4>2
        <4>4. Owes(agenda[2], scope)
          BY <3>2, <4>1, <4>3 DEF Adjacent, Owes
        <4>5. QED
          BY <1>1, <1>2, <4>2, <4>4, OwingStays DEF Level
      <3>3. CASE Item.uri.scope # scope
        <4>1. {k \in known' : k.scope = scope} = {k \in known : k.scope = scope}
          BY <3>1, <3>3
        <4>2. \A k \in known : k.scope = scope => decided'[k] = decided[k]
          BY <3>1, <3>3 DEF Typed, TypeOK
        <4>3. QED
          BY <1>6, <3>1, <4>1, <4>2, UpToDateStays DEF Level
      <3>4. QED
        BY <3>2, <3>3
    <2>2. CASE Rollup
      <3>1. UNCHANGED <<known, decided>> /\ health'[scope] = health[scope]
        BY <1>6, <2>2, RollupUpdates DEF Rollup, At
      <3>2. QED
        BY <1>6, <3>1, UpToDateStays DEF Level
    <2>3. CASE ~Decide /\ ~Rollup
      <3>1. UNCHANGED <<known, decided, health>>
        BY <2>3 DEF Does, Quiet, Create, Open, Write, Tell, Anchor, Signal, Constellation, Link, Propose, objects,
                    gates
      <3>2. QED
        BY <1>6, <3>1, UpToDateStays DEF Level
    <2>4. QED
      BY <2>1, <2>2, <2>3
  <1>7. QED
    BY <1>4, <1>5, <1>6 DEF Level

LEMMA HealthStep ==
    ASSUME Typed, Orderly, HealthInv, [Next]_vars, At("post") => ~Due \/ emitted.anchored
    PROVE  HealthInv'
  <1>1. CASE Begins
    <2>1. PICK do, what : do \in Calls /\ Begin(do, what) /\ Fits(do, what)
      BY <1>1 DEF Begins
    <2>2. call'.do = do /\ agenda' = what
      BY <2>1 DEF Begin
    <2>3. /\ do \in {"patch", "policy"} => Owing(agenda', "star")
          /\ do = "signals" => Owing(agenda', "signal")
          /\ do \in {"constellation", "recompute", "propagate"} => Owing(agenda', "constellation")
      BY <2>1, <2>2 DEF Fits
    <2>4. QED
      BY <2>2, <2>3 DEF HealthInv, Level
  <1>2. CASE Works /\ Does /\ ~Raises
    <2>1. agenda # <<>> /\ \E more : Goes(more)
      BY <1>2 DEF Works, Moves
    <2>2. call'.do = call.do /\ call.status = "running"
      BY <2>1, CallGoes
    <2>3. \A scope \in Scopes : Level(scope) => Level(scope)'
      BY <1>2, LevelStep
    <2>4. {"star", "signal", "constellation"} = Scopes
      BY DEF Scopes
    <2>5. (Level("star") => Level("star")') /\ (Level("signal") => Level("signal")')
             /\ (Level("constellation") => Level("constellation")')
      BY <2>3, <2>4
    <2>6. QED
      BY <2>2, <2>5 DEF HealthInv
  <1>3. CASE Works /\ Raises
    BY <1>3, CallRaises DEF Works, HealthInv
  <1>4. CASE Restart
    BY <1>4, CallEnds DEF HealthInv
  <1>5. CASE UNCHANGED vars
    BY <1>5 DEF vars, objects, gates, HealthInv, Level, UpToDate
  <1>6. QED
    BY <1>1, <1>2, <1>3, <1>4, <1>5, Steps

\* A call that is over owes nothing.
LEMMA Health ==
    ASSUME Typed, Orderly, HealthInv
    PROVE  HealthCatchesUp
  <1>1. call.status = "returned" => agenda = <<>>
    BY DEF Orderly
  <1>2. \A scope : agenda = <<>> => ~Owing(agenda, scope)
    BY DEF Owing
  <1>3. QED
    BY <1>1, <1>2 DEF HealthInv, Level, HealthCatchesUp
-------------------------------------------------------------------------------
\* A star that a propagation names was patched by it, or will be before it is told.
Patched(s, no) == \E i \in DOMAIN rows : rows[i].call = no /\ rows[i].star = s

PatchedThen(s, no) == \E i \in DOMAIN rows' : rows'[i].call = no /\ rows'[i].star = s

Reaching(last, before) ==
    \A s \in last.stars :
        \/ Patched(s, last.call)
        \/ last.call = call.no /\ \E i \in before : agenda[i].do \in {"patch", "write"} /\ agenda[i].star = s

ReachedInv ==
    /\ PropagationReached
    /\ \A j \in DOMAIN agenda : agenda[j].do = "constellation" /\ agenda[j].new.last # None =>
          Reaching(agenda[j].new.last, 1 .. (j - 1))

\* Rows are only added.
LEMMA RowsThen ==
    ASSUME Typed, [Next]_vars, At("post") => ~Due \/ emitted.anchored
    PROVE  \A s, no : Patched(s, no) => PatchedThen(s, no)
  <1> SUFFICES ASSUME NEW s, NEW no, Patched(s, no) PROVE PatchedThen(s, no)
    OBVIOUS
  <1>1. PICK i \in DOMAIN rows : rows[i].call = no /\ rows[i].star = s
    BY DEF Patched
  <1>2. CASE Write
    <2>1. i \in DOMAIN rows' /\ rows'[i] = rows[i]
      BY <1>2, Written
    <2>2. QED
      BY <1>1, <2>1 DEF PatchedThen
  <1>3. CASE UNCHANGED rows
    BY <1>1, <1>3 DEF PatchedThen
  <1>4. Write \/ UNCHANGED rows
    BY Steps DEF Begins, Begin, Does, Quiet, Create, Open, Decide, Rollup, Tell, Anchor, Signal, Constellation,
                 Link, Propose, Restart, vars, objects
  <1>5. QED
    BY <1>2, <1>3, <1>4

\* The same of a place in the agenda that stays, with what was before it.
LEMMA ReachingStays ==
    ASSUME NEW last, NEW before, NEW after, Reaching(last, before), call'.no = call.no,
           \A s, no : Patched(s, no) => PatchedThen(s, no),
           \A i \in before : agenda[i].do \in {"patch", "write"} =>
              \/ PatchedThen(agenda[i].star, call.no)
              \/ \E k \in after : agenda'[k].do \in {"patch", "write"} /\ agenda'[k].star = agenda[i].star
    PROVE  \A s \in last.stars :
              \/ PatchedThen(s, last.call)
              \/ last.call = call'.no /\ \E i \in after : agenda'[i].do \in {"patch", "write"} /\ agenda'[i].star = s
  <1> SUFFICES ASSUME NEW s \in last.stars, ~PatchedThen(s, last.call)
               PROVE  /\ last.call = call'.no
                      /\ \E i \in after : agenda'[i].do \in {"patch", "write"} /\ agenda'[i].star = s
    OBVIOUS
  <1>1. ~Patched(s, last.call)
    OBVIOUS
  <1>2. last.call = call.no /\ \E i \in before : agenda[i].do \in {"patch", "write"} /\ agenda[i].star = s
    BY <1>1 DEF Reaching
  <1>3. PICK i \in before : agenda[i].do \in {"patch", "write"} /\ agenda[i].star = s
    BY <1>2
  <1>4. ~PatchedThen(agenda[i].star, call.no)
    BY <1>2, <1>3
  <1>5. QED
    BY <1>2, <1>3, <1>4

\* What ReachedInv says after the step.
LEMMA ReachedThen ==
    ASSUME constellation' # None /\ constellation'.last # None =>
              \A s \in constellation'.last.stars : PatchedThen(s, constellation'.last.call),
           \A j \in DOMAIN agenda' : agenda'[j].do = "constellation" /\ agenda'[j].new.last # None =>
              \A s \in agenda'[j].new.last.stars :
                 \/ PatchedThen(s, agenda'[j].new.last.call)
                 \/ /\ agenda'[j].new.last.call = call'.no
                    /\ \E i \in 1 .. (j - 1) : agenda'[i].do \in {"patch", "write"} /\ agenda'[i].star = s
    PROVE  ReachedInv'
  BY DEF ReachedInv, PropagationReached, Reaching, Patched, PatchedThen

\* The constellation that stays has nothing new to tell.
LEMMA ReachedSame ==
    ASSUME ReachedInv, constellation' = constellation, \A s, no : Patched(s, no) => PatchedThen(s, no)
    PROVE  constellation' # None /\ constellation'.last # None =>
              \A s \in constellation'.last.stars : PatchedThen(s, constellation'.last.call)
  BY DEF ReachedInv, PropagationReached, Patched

LEMMA BeginReaches ==
    ASSUME Typed, ReachedInv, Begins
    PROVE  ReachedInv'
  <1>1. PICK do, what : do \in Calls /\ Begin(do, what) /\ Fits(do, what)
    BY DEF Begins
  <1>2. agenda' = what /\ call'.no = call.no + 1 /\ UNCHANGED <<rows, constellation>>
    BY <1>1 DEF Begin, objects, others
  <1>3. \A s, no : Patched(s, no) => PatchedThen(s, no)
    BY <1>2 DEF Patched, PatchedThen
  <1>4. constellation' # None /\ constellation'.last # None =>
              \A s \in constellation'.last.stars : PatchedThen(s, constellation'.last.call)
    BY <1>2, <1>3, ReachedSame
  <1>5. ASSUME NEW j \in DOMAIN what, what[j].do = "constellation", what[j].new.last # None,
               NEW s \in what[j].new.last.stars
        PROVE  \/ PatchedThen(s, what[j].new.last.call)
               \/ /\ what[j].new.last.call = call'.no
                  /\ \E i \in 1 .. (j - 1) : what[i].do \in {"patch", "write"} /\ what[i].star = s
    <2>1. CASE constellation # None /\ what[j].new.last = constellation.last
      BY <2>1, <1>2, <1>4, <1>5
    <2>2. CASE ~(constellation # None /\ what[j].new.last = constellation.last)
      BY <2>2, <1>1, <1>2, <1>5 DEF Fits, Promised
    <2>3. QED
      BY <2>1, <2>2
  <1>6. QED
    BY <1>2, <1>4, <1>5, ReachedThen

\* What the constellation tells of after a step of a call.
LEMMA ConstellationReaches ==
    ASSUME Typed, Orderly, ReachedInv, agenda # <<>>, Does, \A s, no : Patched(s, no) => PatchedThen(s, no)
    PROVE  constellation' # None /\ constellation'.last # None =>
              \A s \in constellation'.last.stars : PatchedThen(s, constellation'.last.call)
  <1>1. CASE Constellation
    <2>1. constellation' = agenda[1].new /\ agenda[1].do = "constellation" /\ 1 \in DOMAIN agenda
      BY <1>1, Rests DEF Constellation, At
    <2>2. agenda[1].new.last # None => Reaching(agenda[1].new.last, 1 .. (1 - 1))
      BY <2>1 DEF ReachedInv
    <2>3. agenda[1].new.last # None =>
             \A s \in agenda[1].new.last.stars : Patched(s, agenda[1].new.last.call)
      BY <2>2 DEF Reaching
    <2>4. QED
      BY <2>1, <2>3
  <1>2. CASE Open
    <2>1. BlankConstellation.last = None
      BY DEF BlankConstellation
    <2>2. CASE constellation = None
      BY <1>2, <2>1, <2>2 DEF Open
    <2>3. CASE constellation # None
      BY <1>2, <2>3, ReachedSame DEF Open
    <2>4. QED
      BY <2>2, <2>3
  <1>3. CASE constellation' = constellation
    BY <1>3, ReachedSame
  <1>4. Constellation \/ Open \/ constellation' = constellation
    BY DEF Does, Quiet, Create, Decide, Rollup, Write, Tell, Anchor, Signal, Link, Propose, objects, others
  <1>5. QED
    BY <1>1, <1>2, <1>3, <1>4

LEMMA WorkReaches ==
    ASSUME Typed, Orderly, ReachedInv, Works, Does, ~Raises,
           \A s, no : Patched(s, no) => PatchedThen(s, no)
    PROVE  ReachedInv'
  <1>1. agenda # <<>>
    BY DEF Works
  <1>2. PICK more : Goes(more) /\ Brings(more)
    BY DEF Works, Moves
  <1>3. call'.no = call.no
    BY <1>1, <1>2, CallGoes
  <1> DEFINE m == Len(more)
             n == Len(agenda)
  <1>4. n \in Nat \ {0} /\ DOMAIN agenda = 1 .. n /\ Item = agenda[1]
    BY <1>1, Rests
  <1>5. /\ m \in Nat /\ DOMAIN more = 1 .. m /\ DOMAIN agenda' = 1 .. m + (n - 1)
        /\ \A i \in 1 .. m : agenda'[i] = more[i]
        /\ \A i \in 2 .. n : agenda'[m + (i - 1)] = agenda[i]
        /\ \A k \in DOMAIN agenda' : k > m => agenda'[k] = agenda[(k - m) + 1] /\ (k - m) + 1 \in 2 .. n
    BY <1>1, <1>2, GoesTo
  <1> HIDE DEF m, n
  <1>6. ASSUME Item.do = "write" PROVE PatchedThen(Item.star, call.no)
    <2>1. Write
      BY <1>6 DEF Does, Create, Open, Decide, Rollup, Tell, Anchor, Signal, Constellation, Link, Propose, At
    <2>2. PICK kept \in BOOLEAN :
             Len(rows) \in Nat /\ DOMAIN rows' = 1 .. Len(rows) + 1 /\ rows'[Len(rows) + 1] = Row(kept)
      BY <2>1, Written
    <2>3. QED
      BY <2>2 DEF Row, PatchedThen
  <1>7. ASSUME NEW j \in DOMAIN agenda', agenda'[j].do = "constellation", agenda'[j].new.last # None
        PROVE  \A s \in agenda'[j].new.last.stars :
                 \/ PatchedThen(s, agenda'[j].new.last.call)
                 \/ /\ agenda'[j].new.last.call = call'.no
                    /\ \E i \in 1 .. (j - 1) : agenda'[i].do \in {"patch", "write"} /\ agenda'[i].star = s
    <2>1. j > m
      <3> SUFFICES ASSUME ~(j > m) PROVE FALSE
        OBVIOUS
      <3>1. j \in DOMAIN more /\ more[j] = agenda'[j]
        BY <1>4, <1>5
      <3>2. more[j].new.last \in News(more)
        BY <1>7, <3>1 DEF News
      <3>3. QED
        BY <1>2, <3>2 DEF Brings
    <2>h. PICK h : h = (j - m) + 1
      OBVIOUS
    <2>2. h \in 2 .. n /\ h \in DOMAIN agenda /\ agenda'[j] = agenda[h] /\ j = m + (h - 1) /\ j \in Nat
      BY <1>4, <1>5, <2>1, <2>h
    <2>3. Reaching(agenda[h].new.last, 1 .. (h - 1))
      BY <1>7, <2>2 DEF ReachedInv
    <2>4. ASSUME NEW i \in 1 .. (h - 1), agenda[i].do \in {"patch", "write"}
          PROVE  \/ PatchedThen(agenda[i].star, call.no)
                 \/ \E k \in 1 .. (j - 1) : agenda'[k].do \in {"patch", "write"} /\ agenda'[k].star = agenda[i].star
      <3>1. CASE i = 1 /\ Item.do = "write"
        BY <1>4, <1>6, <3>1
      <3>2. CASE i = 1 /\ Item.do = "patch"
        <4>1. PICK k \in DOMAIN more : more[k].do = "write" /\ more[k].star = Item.star
          BY <1>2, <3>2 DEF Brings
        <4>2. k \in 1 .. (j - 1) /\ agenda'[k] = more[k]
          BY <1>5, <2>1, <2>2
        <4>3. QED
          BY <1>4, <3>2, <4>1, <4>2
      <3>3. CASE i # 1
        <4>1. i \in 2 .. n /\ m + (i - 1) \in 1 .. (j - 1)
          BY <1>4, <1>5, <2>2, <3>3
        <4>2. agenda'[m + (i - 1)] = agenda[i]
          BY <1>5, <4>1
        <4>3. QED
          BY <2>4, <4>1, <4>2
      <3>4. QED
        BY <1>4, <2>4, <3>1, <3>2, <3>3
    <2>5. PICK last, before, after :
             last = agenda[h].new.last /\ before = 1 .. (h - 1) /\ after = 1 .. (j - 1)
      OBVIOUS
    <2>6. \A i \in before : agenda[i].do \in {"patch", "write"} =>
             \/ PatchedThen(agenda[i].star, call.no)
             \/ \E k \in after : agenda'[k].do \in {"patch", "write"} /\ agenda'[k].star = agenda[i].star
      BY <2>4, <2>5
    <2>7. Reaching(last, before)
      BY <2>3, <2>5
    <2>8. \A s \in last.stars :
             \/ PatchedThen(s, last.call)
             \/ last.call = call'.no /\ \E i \in after : agenda'[i].do \in {"patch", "write"} /\ agenda'[i].star = s
      BY <1>3, <2>6, <2>7, ReachingStays
    <2>9. QED
      BY <2>2, <2>5, <2>8
  <1>8. QED
    BY <1>1, <1>7, ConstellationReaches, ReachedThen

LEMMA ReachedStep ==
    ASSUME Typed, Orderly, ReachedInv, [Next]_vars, At("post") => ~Due \/ emitted.anchored
    PROVE  ReachedInv'
  <1>1. \A s, no : Patched(s, no) => PatchedThen(s, no)
    BY RowsThen
  <1>2. CASE Begins
    BY <1>2, BeginReaches
  <1>3. CASE Works /\ Does /\ ~Raises
    BY <1>1, <1>3, WorkReaches
  <1>4. CASE Works /\ Does /\ Raises
    <2>1. agenda' = <<>> /\ agenda # <<>>
      BY <1>4 DEF Raises, Works
    <2>2. QED
      BY <1>1, <1>4, <2>1, ConstellationReaches, ReachedThen
  <1>5. CASE Restart
    <2>1. agenda' = <<>> /\ constellation' = None
      BY <1>5 DEF Restart
    <2>2. QED
      BY <2>1, ReachedThen
  <1>6. CASE UNCHANGED vars
    BY <1>6 DEF vars, objects, others, ReachedInv, PropagationReached, Reaching, Patched
  <1>7. QED
    BY <1>2, <1>3, <1>4, <1>5, <1>6, Steps
-------------------------------------------------------------------------------
\* All that holds between two steps of a call.
CallInv ==
    /\ Typed /\ CollapseHonest /\ Orderly /\ ToldInv /\ HashInv /\ EpochInv
    /\ Guarded /\ HealthInv /\ ReachedInv

LEMMA InitCallInv == Init => CallInv
  <1> SUFFICES ASSUME Init PROVE CallInv
    OBVIOUS
  <1>1. agenda = <<>> /\ rows = <<>> /\ told = {} /\ hashes = <<>> /\ anchor = {} /\ constellation = None
           /\ failed = {} /\ call = [no |-> 0, do |-> "none", status |-> "returned"]
    BY DEF Init
  <1>2. TypeOK
    <2>1. NoDecisions \in [Decisions -> Counts]
      BY DEF NoDecisions, Counts
    <2>2. NoStars \in [Stars -> States \cup {None}] /\ NoSignals \in [Stars -> [Metrics -> States \cup {None}]]
      BY DEF NoStars, NoSignals
    <2>3. DOMAIN NoHealth = Scopes /\ \A c \in Scopes : NoHealth[c] = None
      BY DEF NoHealth
    <2>4. rows \in Seq([star : Stars, state : States, call : Nat, by : Calls, life : Nat, kept : BOOLEAN])
             /\ hashes \in Seq(Nat)
      BY <1>1
    <2>5. QED
      BY <2>1, <2>2, <2>3, <2>4 DEF Init, TypeOK, Calls
  <1>3. Typed
    BY <1>1, <1>2 DEF Typed
  <1>4. CollapseHonest /\ Orderly
    BY <1>1 DEF CollapseHonest, Orderly, Ordered
  <1>5. ToldInv /\ HashInv /\ EpochInv
    BY <1>1 DEF ToldInv, HashInv, EpochInv, At
  <1>6. Guarded
    BY DEF Init, Guarded, NoDecisions
  <1>7. HealthInv /\ ReachedInv
    BY <1>1 DEF HealthInv, ReachedInv, PropagationReached
  <1>8. QED
    BY <1>3, <1>4, <1>5, <1>6, <1>7 DEF CallInv

LEMMA NextCallInv == CallInv /\ [Next]_vars => CallInv'
  <1> SUFFICES ASSUME CallInv, [Next]_vars PROVE CallInv'
    OBVIOUS
  <1>1. At("post") => ~Due \/ emitted.anchored
    BY DEF CallInv, EpochInv
  <1>2. Typed' /\ CollapseHonest' /\ Orderly'
    BY <1>1, TypedStep, CollapseStep, OrderlyStep DEF CallInv
  <1>3. ToldInv' /\ HashInv' /\ EpochInv'
    BY <1>1, ToldStep, HashStep, EpochStep DEF CallInv
  <1>4. Guarded' /\ HealthInv' /\ ReachedInv'
    BY <1>1, GuardedStep, HealthStep, ReachedStep DEF CallInv
  <1>5. QED
    BY <1>2, <1>3, <1>4 DEF CallInv

LEMMA CallInvariant == Spec => []CallInv
  BY InitCallInv, NextCallInv, PTL DEF Spec

\* Objects, counts, signals and anchors keep their types whatever fails half way.
THEOREM SolisTypes == Spec => []TypeOK
  <1>1. CallInv => TypeOK
    BY DEF CallInv, Typed
  <1>2. QED
    BY <1>1, CallInvariant, PTL

\* Neither a patch, a policy, a propagation nor a cascade ever leaves a star with a
\* declared collapse beyond the guard's tolerance (solis/agent/runtime/policy_guard.py).
THEOREM SolisCollapse == Spec => []CollapseHonest
  <1>1. CallInv => CollapseHonest
    BY DEF CallInv
  <1>2. QED
    BY <1>1, CallInvariant, PTL

\* In every call and every life of the process a patch of a star has its stellar event, but
\* for the last patch of a call that raised, was cut short or is still running; and no event
\* tells another state than its patch wrote (solis_star_service.py, _emit_stellar_event).
THEOREM SolisTold == Spec => []PatchesAreTold
  <1>1. CallInv => PatchesAreTold
    <2> SUFFICES ASSUME CallInv PROVE PatchesAreTold
      OBVIOUS
    <2>1. ASSUME NEW i \in DOMAIN rows PROVE (\E t \in told : t.row = i) \/ BrokenOff(i)
      <3>1. CASE i = Len(rows) /\ At("tell")
        <4>1. rows[i].call = call.no /\ call.status = "running"
          BY <3>1 DEF CallInv, Orderly, ToldInv, At
        <4>2. \A j \in DOMAIN rows : j <= i
          BY <3>1, RowsDomain DEF CallInv
        <4>3. QED
          BY <4>1, <4>2 DEF BrokenOff
      <3>2. QED
        BY <3>1 DEF CallInv, ToldInv, Told, Broken, BrokenOff
    <2>2. QED
      BY <2>1 DEF CallInv, ToldInv, PatchesAreTold
  <1>2. QED
    BY <1>1, CallInvariant, PTL

\* The accumulator has every patch of this life of the process in its order, and the anchor
\* of every whole epoch is there and is over all the patches up to it; both but for what a
\* call that raised or was cut short left undone, which is at its last patch only, also when
\* the exception came after a patch had taken effect (merkle_anchor.py).
THEOREM SolisAnchors == Spec => []AnchorsCoverAll
  <1>1. CallInv => AnchorsCoverAll
    BY Anchors DEF CallInv
  <1>2. QED
    BY <1>1, CallInvariant, PTL

\* Within one life of the process no anchor is ever written over.
THEOREM SolisAnchorsStay == Spec => AnchorsStay
  <1>1. CallInv /\ [Next]_vars => [boots' = boots => anchor \subseteq anchor']_vars
    BY EpochStep DEF CallInv
  <1>2. QED
    BY <1>1, CallInvariant, PTL DEF Spec, AnchorsStay

\* What the policy guard allowed no gate before or after its commit refuses: the timelines
\* of the decisions on stars never hold a failed one, not even after a restart.
THEOREM SolisGates == Spec => []GuardedPatchesPass
  <1>1. CallInv => GuardedPatchesPass
    BY DEF CallInv, Guarded, GuardedPatchesPass
  <1>2. QED
    BY <1>1, CallInvariant, PTL

\* When a call that ran the gates of a scope returns, the health object counts the whole
\* timeline of every decision object the registry has, those of calls that raised before
\* their own rollup included (gate_health_rollup.py).
THEOREM SolisHealth == Spec => []HealthCatchesUp
  <1>1. CallInv => HealthCatchesUp
    BY Health DEF CallInv
  <1>2. QED
    BY <1>1, CallInvariant, PTL

\* A propagation the constellation tells of has patched every star it names.
THEOREM SolisPropagation == Spec => []PropagationReached
  <1>1. CallInv => PropagationReached
    BY DEF CallInv, ReachedInv
  <1>2. QED
    BY <1>1, CallInvariant, PTL
===============================================================================
