----------------------------- MODULE StreamsProofs -----------------------------
(***************************************************************************)
(* What the streams promise, for any number of objects, streams, events,   *)
(* links and any size of the queues: a blocking stream loses nothing, no   *)
(* stream shows an event of its object twice, streams that may drop keep   *)
(* the order, and drop_oldest keeps the latest event.  And what the graph  *)
(* of links promises: it stays a DAG, for any set of objects and any       *)
(* number of links, until a caller passes allow_cycle=True.                *)
(***************************************************************************)
EXTENDS Streams, SequenceTheorems, WellFoundedInduction, TLAPS

-------------------------------------------------------------------------------
\* The graph of links.

GraphInv == GraphTypeOK /\ Acyclic

\* Adding a link adds its target to the targets of its source, and nothing else.
LEMMA AddedTargets ==
    ASSUME GraphTypeOK, NEW src \in Uris, NEW dst \in Uris, links' = WithLink(src, dst)
    PROVE  /\ links' \in [Uris -> Seq(Uris)]
           /\ \A u \in Uris : Targets(u)' = Targets(u) \cup (IF u = src THEN {dst} ELSE {})
<1>1. links' \in [Uris -> Seq(Uris)]
  BY DEF WithLink, GraphTypeOK
<1>2. SUFFICES ASSUME NEW u \in Uris
               PROVE  Targets(u)' = Targets(u) \cup (IF u = src THEN {dst} ELSE {})
  BY <1>1
<1>3. CASE u = src
  <2>1. links'[u] = Append(links[u], dst) /\ links[u] \in Seq(Uris)
    BY <1>3 DEF WithLink, GraphTypeOK
  <2>2. DOMAIN links'[u] = DOMAIN links[u] \cup {Len(links[u]) + 1}
    BY <2>1
  <2>3. links'[u][Len(links[u]) + 1] = dst /\ \A i \in DOMAIN links[u] : links'[u][i] = links[u][i]
    BY <2>1
  <2> QED BY <1>3, <2>2, <2>3 DEF Targets
<1>4. CASE u # src
  <2>1. links'[u] = links[u]
    BY <1>4 DEF WithLink, GraphTypeOK
  <2> QED BY <1>4, <2>1 DEF Targets
<1> QED BY <1>3, <1>4

\* A link from src to dst does not close a cycle when dst does not reach src.
LEMMA LinkKeepsDag ==
    ASSUME GraphTypeOK, NoCycle, NEW src \in Uris, NEW dst \in Uris,
           ~HasPath(dst, src), links' = WithLink(src, dst)
    PROVE  NoCycle'
<1>1. \A u \in Uris : Targets(u)' = Targets(u) \cup (IF u = src THEN {dst} ELSE {})
  BY AddedTargets
<1>2. PICK T \in SUBSET Uris : dst \in T /\ Closed(T) /\ src \notin T
  BY DEF HasPath
\* A set that src is not in is closed after the step when it was before.
<1>3. \A S \in SUBSET Uris : src \notin S /\ Closed(S) => Closed(S)'
  BY <1>1 DEF Closed
<1>4. SUFFICES ASSUME NEW u \in Uris, NEW v \in Targets(u)'
               PROVE  \E S \in SUBSET Uris : v \in S /\ Closed(S)' /\ u \notin S
  BY DEF NoCycle, HasPath
<1>5. CASE u = src /\ v = dst
  BY <1>2, <1>3, <1>5
<1>6. CASE v \in Targets(u)
  <2>1. PICK S \in SUBSET Uris : v \in S /\ Closed(S) /\ u \notin S
    BY <1>6 DEF NoCycle, HasPath
  <2>2. CASE src \notin S
    BY <1>3, <2>1, <2>2
  \* dst reaches u, hence v: what both v and dst reach is closed and without u.
  <2>3. CASE u \in T
    <3>1. v \in T
      BY <1>2, <1>6, <2>3 DEF Closed
    <3>2. Closed(S \cap T)
      BY <1>2, <2>1 DEF Closed
    <3> QED BY <1>2, <1>3, <2>1, <3>1, <3>2
  \* The new link leads from S into T, and neither has u.
  <2>4. CASE u \notin T
    <3>1. Closed(S \cup T)'
      BY <1>1, <1>2, <2>1 DEF Closed
    <3> QED BY <2>1, <2>4, <3>1
  <2> QED BY <2>2, <2>3, <2>4
<1> QED BY <1>1, <1>4, <1>5, <1>6

LEMMA GraphInvInit == GraphInit => GraphInv
<1> SUFFICES ASSUME GraphInit PROVE GraphInv
  OBVIOUS
<1>1. GraphTypeOK
  <2>1. <<>> \in Seq(Uris)
    OBVIOUS
  <2> QED BY <2>1 DEF GraphInit, GraphTypeOK
<1>2. \A u \in Uris : links[u] = <<>>
  BY DEF GraphInit
<1>3. \A u \in Uris : Targets(u) = {}
  BY <1>2 DEF Targets
<1> QED BY <1>1, <1>3 DEF GraphInv, Acyclic, NoCycle

LEMMA GraphInvNext == GraphInv /\ [Entangle]_graphVars => GraphInv'
<1> SUFFICES ASSUME GraphInv, [Entangle]_graphVars PROVE GraphInv'
  OBVIOUS
<1> USE DEF GraphInv
<1>1. ASSUME NEW src \in Uris, NEW dst \in Uris, NEW allow \in BOOLEAN,
             EntangleForward(src, dst, allow)
      PROVE  GraphInv'
  <2>1. links' = WithLink(src, dst) /\ waived' = (waived \/ allow)
    BY <1>1 DEF EntangleForward
  <2>2. GraphTypeOK'
    BY <2>1, AddedTargets DEF GraphTypeOK
  <2>3. CASE ~waived /\ ~allow
    <3>1. ~HasPath(dst, src) /\ NoCycle
      BY <1>1, <2>3 DEF EntangleForward, Acyclic
    <3> QED BY <2>1, <2>2, <3>1, LinkKeepsDag DEF Acyclic
  <2>4. CASE waived \/ allow
    BY <2>1, <2>2, <2>4 DEF Acyclic
  <2> QED BY <2>3, <2>4
<1>2. ASSUME NEW src \in Uris, NEW dst \in Uris, EntangleBothWays(src, dst)
      PROVE  GraphInv'
  <2>1. WithLink(src, dst) \in [Uris -> Seq(Uris)]
    BY DEF WithLink, GraphTypeOK
  <2>2. links' \in [Uris -> Seq(Uris)] /\ waived' = TRUE
    BY <1>2, <2>1 DEF EntangleBothWays
  <2> QED BY <2>2 DEF GraphTypeOK, Acyclic
<1>3. CASE UNCHANGED graphVars
  <2> USE <1>3 DEF graphVars
  <2>1. \A u \in Uris : Targets(u)' = Targets(u)
    BY DEF Targets
  <2>2. \A S \in SUBSET Uris : Closed(S)' <=> Closed(S)
    BY <2>1 DEF Closed
  <2>3. \A u, v \in Uris : HasPath(v, u)' <=> HasPath(v, u)
    BY <2>2 DEF HasPath
  <2>4. \A u \in Uris : Targets(u) \subseteq Uris
    BY DEF Targets, GraphTypeOK
  <2> QED BY <2>1, <2>3, <2>4 DEF GraphTypeOK, Acyclic, NoCycle
<1> QED BY <1>1, <1>2, <1>3, AllowCycleAssumption DEF Entangle

\* entangle's check (a path from the target back to the source) is enough: until a
\* caller allows a cycle, no sequence of calls, refused or not, closes one.
THEOREM DagForever == GraphSpec => []Acyclic
BY GraphInvInit, GraphInvNext, PTL DEF GraphSpec, GraphInv

-------------------------------------------------------------------------------
\* Lemmas about sequences.

Smaller == OpToRel(<, Nat)

\* A set of numbers has a least one.
LEMMA LeastNumber ==
    ASSUME NEW T \in SUBSET Nat, T # {}
    PROVE  \E n \in T : \A m \in T : n <= m
<1>1. IsWellFoundedOn(Smaller, Nat)
  BY NatLessThanWellFounded DEF OpToRel, Smaller
<1>2. \A x, y \in Nat : x < y => <<x, y>> \in Smaller
  BY DEF Smaller, OpToRel
<1>3. PICK n \in T : \A m \in T : ~(<<m, n>> \in Smaller)
  BY <1>1, WFMin
<1>4. ASSUME NEW m \in T PROVE n <= m
  <2>1. m \in Nat /\ n \in Nat
    OBVIOUS
  <2>2. ~(m < n)
    BY <1>2, <1>3, <2>1
  <2> QED BY <2>1, <2>2
<1> QED BY <1>4

\* A sequence without repetitions.
Distinct(t) == \A i, j \in DOMAIN t : i # j => t[i] # t[j]

LEMMA AppendedElements ==
    ASSUME NEW S, NEW t \in Seq(S), NEW e \in S
    PROVE  /\ Append(t, e) \in Seq(S)
           /\ ToSet(Append(t, e)) = ToSet(t) \cup {e}
           /\ Distinct(t) /\ e \notin ToSet(t) => Distinct(Append(t, e))
<1>1. /\ Append(t, e) \in Seq(S) /\ Len(Append(t, e)) = Len(t) + 1
      /\ Append(t, e)[Len(t) + 1] = e
      /\ \A i \in 1..Len(t) : Append(t, e)[i] = t[i]
  OBVIOUS
<1>2. DOMAIN Append(t, e) = 1..(Len(t) + 1) /\ DOMAIN t = 1..Len(t) /\ Len(t) \in Nat
  BY <1>1
<1>3. ToSet(Append(t, e)) = ToSet(t) \cup {e}
  BY <1>1, <1>2 DEF ToSet
<1>4. ASSUME Distinct(t), e \notin ToSet(t) PROVE Distinct(Append(t, e))
  BY <1>1, <1>2, <1>4 DEF ToSet, Distinct
<1> QED BY <1>1, <1>3, <1>4

LEMMA TailElements ==
    ASSUME NEW S, NEW t \in Seq(S), t # <<>>
    PROVE  /\ Head(t) \in S /\ Tail(t) \in Seq(S)
           /\ ToSet(t) = {Head(t)} \cup ToSet(Tail(t))
           /\ Distinct(t) => Distinct(Tail(t)) /\ Head(t) \notin ToSet(Tail(t))
<1>1. /\ Head(t) \in S /\ Tail(t) \in Seq(S) /\ Len(Tail(t)) = Len(t) - 1 /\ Len(t) \in Nat \ {0}
      /\ Head(t) = t[1] /\ \A i \in 1..Len(Tail(t)) : Tail(t)[i] = t[i + 1]
  BY HeadTailProperties, EmptySeq
<1>2. DOMAIN Tail(t) = 1..(Len(t) - 1) /\ DOMAIN t = 1..Len(t)
  BY <1>1
<1>3. \A i \in 1..Len(t) : i = 1 \/ (i - 1 \in 1..(Len(t) - 1) /\ t[i] = Tail(t)[i - 1])
  BY <1>1
<1>4. ToSet(t) = {Head(t)} \cup ToSet(Tail(t))
  <2>1. \A i \in DOMAIN t : i = 1 \/ \E j \in DOMAIN Tail(t) : t[i] = Tail(t)[j]
    BY <1>2, <1>3
  <2>4. ToSet(t) \subseteq {Head(t)} \cup ToSet(Tail(t))
    BY <1>1, <2>1 DEF ToSet
  <2>2. \A i \in DOMAIN Tail(t) : i + 1 \in DOMAIN t /\ Tail(t)[i] = t[i + 1]
    BY <1>1, <1>2
  <2>3. {Head(t)} \cup ToSet(Tail(t)) \subseteq ToSet(t)
    BY <1>1, <1>2, <2>2 DEF ToSet
  <2> QED BY <2>3, <2>4
<1>5. ASSUME Distinct(t) PROVE Distinct(Tail(t)) /\ Head(t) \notin ToSet(Tail(t))
  BY <1>1, <1>2, <1>5 DEF ToSet, Distinct
<1> QED BY <1>1, <1>4, <1>5

LEMMA JoinedElements ==
    ASSUME NEW S, NEW t \in Seq(S), NEW w \in Seq(S)
    PROVE  /\ t \o w \in Seq(S)
           /\ ToSet(t \o w) = ToSet(t) \cup ToSet(w)
           /\ Distinct(t) /\ Distinct(w) /\ ToSet(t) \cap ToSet(w) = {} => Distinct(t \o w)
<1>1. /\ t \o w \in Seq(S) /\ Len(t \o w) = Len(t) + Len(w)
      /\ \A i \in 1..(Len(t) + Len(w)) : (t \o w)[i] = IF i <= Len(t) THEN t[i] ELSE w[i - Len(t)]
  BY ConcatProperties
<1>2. /\ DOMAIN (t \o w) = 1..(Len(t) + Len(w)) /\ DOMAIN t = 1..Len(t) /\ DOMAIN w = 1..Len(w)
      /\ Len(t) \in Nat /\ Len(w) \in Nat
  BY <1>1
<1>3. \A i \in 1..Len(t) : (t \o w)[i] = t[i]
  BY <1>1, <1>2
<1>4. \A i \in 1..Len(w) : i + Len(t) \in DOMAIN (t \o w) /\ (t \o w)[i + Len(t)] = w[i]
  BY <1>1, <1>2
<1>5. \A i \in DOMAIN (t \o w) : i \in DOMAIN t \/ (i - Len(t) \in DOMAIN w /\ (t \o w)[i] = w[i - Len(t)])
  BY <1>1, <1>2
<1>6. ToSet(t \o w) = ToSet(t) \cup ToSet(w)
  <2>1. ToSet(t \o w) \subseteq ToSet(t) \cup ToSet(w)
    BY <1>2, <1>3, <1>5 DEF ToSet
  <2>2. \A i \in DOMAIN t : i \in DOMAIN (t \o w) /\ (t \o w)[i] = t[i]
    BY <1>2, <1>3
  <2>3. ToSet(t) \subseteq ToSet(t \o w)
    BY <2>2 DEF ToSet
  <2>4. ToSet(w) \subseteq ToSet(t \o w)
    BY <1>2, <1>4 DEF ToSet
  <2> QED BY <2>1, <2>3, <2>4
<1>7. ASSUME Distinct(t), Distinct(w), ToSet(t) \cap ToSet(w) = {} PROVE Distinct(t \o w)
  <2> SUFFICES ASSUME NEW i \in DOMAIN (t \o w), NEW j \in DOMAIN (t \o w), i # j, (t \o w)[i] = (t \o w)[j]
               PROVE  FALSE
    BY DEF Distinct
  <2>1. CASE i \in DOMAIN t /\ j \in DOMAIN t
    BY <1>2, <1>3, <1>7, <2>1 DEF Distinct
  <2>2. CASE i \in DOMAIN t /\ j \notin DOMAIN t
    BY <1>2, <1>3, <1>5, <1>7, <2>2 DEF ToSet
  <2>3. CASE i \notin DOMAIN t /\ j \in DOMAIN t
    BY <1>2, <1>3, <1>5, <1>7, <2>3 DEF ToSet
  <2>4. CASE i \notin DOMAIN t /\ j \notin DOMAIN t
    BY <1>2, <1>5, <1>7, <2>4 DEF Distinct
  <2> QED BY <2>1, <2>2, <2>3, <2>4
<1> QED BY <1>1, <1>6, <1>7

\* A sequence cut in two.
LEMMA CutElements ==
    ASSUME NEW S, NEW t \in Seq(S), NEW n \in 0..Len(t)
    PROVE  LET a == SubSeq(t, 1, n)
               b == SubSeq(t, n + 1, Len(t))
           IN  /\ a \in Seq(S) /\ b \in Seq(S)
               /\ Len(a) = n /\ Len(b) = Len(t) - n
               /\ \A i \in DOMAIN a : i \in DOMAIN t /\ a[i] = t[i]
               /\ \A i \in DOMAIN b : n + i \in DOMAIN t /\ b[i] = t[n + i]
               /\ ToSet(t) = ToSet(a) \cup ToSet(b)
               /\ Distinct(t) => Distinct(a) /\ Distinct(b) /\ ToSet(a) \cap ToSet(b) = {}
<1> DEFINE a == SubSeq(t, 1, n)
           b == SubSeq(t, n + 1, Len(t))
<1>0. Len(t) \in Nat /\ n \in Nat /\ n <= Len(t) /\ DOMAIN t = 1..Len(t) /\ \A i \in 1..Len(t) : t[i] \in S
  OBVIOUS
<1>1. a \in Seq(S) /\ Len(a) = n /\ \A i \in 1..n : a[i] = t[i]
  <2>1. \A i \in 1..n : t[i] \in S
    BY <1>0
  <2>2. /\ a \in Seq(S) /\ Len(a) = (IF 1 <= n THEN n - 1 + 1 ELSE 0)
        /\ \A i \in 1..(n - 1 + 1) : a[i] = t[1 + i - 1]
    BY <1>0, <2>1, SubSeqProperties
  <2> QED BY <1>0, <2>2
<1>2. b \in Seq(S) /\ Len(b) = Len(t) - n /\ \A i \in 1..(Len(t) - n) : b[i] = t[n + i]
  <2>1. \A i \in (n + 1)..Len(t) : t[i] \in S
    BY <1>0
  <2>2. /\ b \in Seq(S) /\ Len(b) = (IF n + 1 <= Len(t) THEN Len(t) - (n + 1) + 1 ELSE 0)
        /\ \A i \in 1..(Len(t) - (n + 1) + 1) : b[i] = t[n + 1 + i - 1]
    BY <1>0, <2>1, SubSeqProperties
  <2>5. \A x, y \in Nat : y <= x => x - (y + 1) + 1 = x - y /\ (y + 1 <= x \/ x - y = 0)
    OBVIOUS
  <2>3. Len(t) - (n + 1) + 1 = Len(t) - n /\ (n + 1 <= Len(t) \/ Len(t) - n = 0)
    BY ONLY <1>0, <2>5
  <2>4. \A i \in 1..(Len(t) - n) : n + 1 + i - 1 = n + i
    BY <1>0
  <2> HIDE DEF b
  <2> QED BY <2>2, <2>3, <2>4
<1>3. DOMAIN a = 1..n /\ DOMAIN b = 1..(Len(t) - n)
  BY <1>1, <1>2
<1> HIDE DEF a, b
<1>4. \A i \in DOMAIN t : (i \in DOMAIN a /\ t[i] = a[i]) \/ (i - n \in DOMAIN b /\ t[i] = b[i - n])
  BY <1>0, <1>1, <1>2, <1>3
<1>5. \A i \in DOMAIN a : i \in DOMAIN t /\ a[i] = t[i]
  BY <1>0, <1>1, <1>3
<1>6. \A i \in DOMAIN b : n + i \in DOMAIN t /\ b[i] = t[n + i]
  BY <1>0, <1>2, <1>3
<1>7. ToSet(t) = ToSet(a) \cup ToSet(b)
  BY <1>4, <1>5, <1>6 DEF ToSet
<1>8. ASSUME Distinct(t) PROVE Distinct(a) /\ Distinct(b) /\ ToSet(a) \cap ToSet(b) = {}
  <2>1. Distinct(a)
    BY <1>5, <1>8 DEF Distinct
  <2>2. Distinct(b)
    BY <1>0, <1>3, <1>6, <1>8 DEF Distinct
  <2>3. \A i \in DOMAIN a, j \in DOMAIN b : i # n + j
    BY <1>0, <1>3
  <2>4. ToSet(a) \cap ToSet(b) = {}
    BY <1>5, <1>6, <1>8, <2>3 DEF Distinct, ToSet
  <2> QED BY <2>1, <2>2, <2>4
<1> QED BY <1>1, <1>2, <1>5, <1>6, <1>7, <1>8 DEF a, b

LEMMA MinIsLeast ==
    ASSUME NEW T \in SUBSET Nat, T # {}
    PROVE  Min(T) \in T /\ \A m \in T : Min(T) <= m
BY LeastNumber DEF Min

LEMMA RemovedElements ==
    ASSUME NEW S, NEW t \in Seq(S), NEW e
    PROVE  /\ RemoveFirst(t, e) \in Seq(S)
           /\ ToSet(RemoveFirst(t, e)) \subseteq ToSet(t)
           /\ ToSet(t) \ {e} \subseteq ToSet(RemoveFirst(t, e))
           /\ Distinct(t) => Distinct(RemoveFirst(t, e))
<1>1. CASE ~\E i \in 1..Len(t) : t[i] = e
  BY <1>1 DEF RemoveFirst
<1>2. CASE \E i \in 1..Len(t) : t[i] = e
  <2> DEFINE I == {i \in 1..Len(t) : t[i] = e}
             k == Min(I)
             a == SubSeq(t, 1, k - 1)
             b == SubSeq(t, k + 1, Len(t))
  <2>0. Len(t) \in Nat /\ DOMAIN t = 1..Len(t)
    OBVIOUS
  <2>1. I # {} /\ I \in SUBSET Nat
    BY <1>2
  <2>2. k \in 1..Len(t) /\ t[k] = e
    BY <2>1, MinIsLeast
  <2>3. RemoveFirst(t, e) = a \o b
    BY <1>2, <2>1 DEF RemoveFirst, RemoveAt, SelectInSeq
  <2> HIDE DEF k, I
  <2>4. k - 1 \in 0..Len(t) /\ k \in 0..Len(t) /\ (k - 1) + 1 = k
    BY <2>0, <2>2
  <2>5. /\ a \in Seq(S) /\ Len(a) = k - 1 /\ \A i \in DOMAIN a : i \in DOMAIN t /\ a[i] = t[i]
        /\ Distinct(t) => Distinct(a)
    BY <2>4, CutElements
  <2>6. /\ b \in Seq(S) /\ Len(b) = Len(t) - k /\ \A i \in DOMAIN b : k + i \in DOMAIN t /\ b[i] = t[k + i]
        /\ Distinct(t) => Distinct(b)
    BY <2>4, CutElements
  <2>7. DOMAIN a = 1..(k - 1) /\ DOMAIN b = 1..(Len(t) - k)
    BY <2>5, <2>6
  <2> HIDE DEF a, b
  <2>8. a \o b \in Seq(S) /\ ToSet(a \o b) = ToSet(a) \cup ToSet(b)
    BY <2>5, <2>6, JoinedElements
  <2>9. ToSet(a) \cup ToSet(b) \subseteq ToSet(t)
    BY <2>5, <2>6 DEF ToSet
  <2>10. ToSet(t) \ {e} \subseteq ToSet(a) \cup ToSet(b)
    <3>1. \A i \in DOMAIN t : i = k \/ i \in DOMAIN a \/ (i - k \in DOMAIN b /\ k + (i - k) = i)
      BY <2>0, <2>2, <2>7
    <3>2. \A i \in DOMAIN t : i = k \/ t[i] \in ToSet(a) \/ t[i] \in ToSet(b)
      BY <2>5, <2>6, <3>1 DEF ToSet
    <3> QED BY <2>2, <3>2 DEF ToSet
  <2>11. ASSUME Distinct(t) PROVE Distinct(a \o b)
    <3>1. \A i \in DOMAIN a, j \in DOMAIN b : i # k + j
      BY <2>0, <2>2, <2>7
    <3>2. ToSet(a) \cap ToSet(b) = {}
      BY <2>5, <2>6, <2>11, <3>1 DEF Distinct, ToSet
    <3> QED BY <2>5, <2>6, <2>11, <3>2, JoinedElements
  <2> QED BY <2>3, <2>8, <2>9, <2>10, <2>11
<1> QED BY <1>1, <1>2

-------------------------------------------------------------------------------
\* The types, and how the registrations, the streams and the publishers fit together.

Payloads == [uri : Uris, index : Nat]

StreamStates ==
    [phase : {"new"}] \cup [phase : {"early", "closed"}, uri : Uris, mode : Modes]
    \cup [phase : {"open", "closed"}, uri : Uris, mode : Modes, start : Nat, next : Nat, cutoff : Nat]

StreamTypes ==
    /\ GraphTypeOK
    /\ logged \in [Uris -> Nat]
    /\ subscribers \in [Uris -> Seq(Subs)]
    /\ sub \in [Subs -> StreamStates]
    /\ queue \in [Subs -> Seq(Payloads)]
    /\ got \in [Subs -> Seq(Payloads)]
    /\ putters \in [Subs -> Seq(Publishers)]
    /\ ready \in Seq(Publishers)
    /\ running \in Publishers \cup {None}

LEMMA PhasesOfStreams ==
    ASSUME NEW x \in StreamStates
    PROVE  /\ x.phase \in {"new", "early", "open", "closed"}
           /\ x.phase # "new" => x.uri \in Uris /\ x.mode \in Modes
           /\ x.phase = "open" => x \in [phase : {"open", "closed"}, uri : Uris, mode : Modes,
                                         start : Nat, next : Nat, cutoff : Nat]
BY DEF StreamStates

\* What a step never takes back.
Grows ==
    /\ \A u \in Uris : logged[u] <= logged'[u] /\ Targets(u) \subseteq Targets(u)'
    /\ \A s \in Subs : sub[s].phase # "new" =>
          sub'[s].phase # "new" /\ sub'[s].uri = sub[s].uri /\ sub'[s].mode = sub[s].mode

LEMMA LinksGrow ==
    ASSUME GraphTypeOK, Entangle
    PROVE  GraphTypeOK' /\ \A u \in Uris : Targets(u) \subseteq Targets(u)'
<1>1. PICK src \in Uris, dst \in Uris, allow \in AllowCycle :
          EntangleForward(src, dst, allow) \/ (allow /\ EntangleBothWays(src, dst))
  BY DEF Entangle
<1>2. waived \in BOOLEAN /\ allow \in BOOLEAN
  BY AllowCycleAssumption DEF GraphTypeOK
<1>3. CASE EntangleForward(src, dst, allow)
  <2>1. waived' \in BOOLEAN /\ links' = WithLink(src, dst)
    BY <1>2, <1>3 DEF EntangleForward
  <2> QED BY <2>1, AddedTargets DEF GraphTypeOK
<1>4. CASE EntangleBothWays(src, dst)
  <2>1. waived' \in BOOLEAN
    BY <1>4 DEF EntangleBothWays
  <2> DEFINE mid == WithLink(src, dst)
  <2>2. /\ mid \in [Uris -> Seq(Uris)]
        /\ \A u \in Uris : mid[u] = IF u = src THEN Append(links[u], dst) ELSE links[u]
    BY DEF WithLink, GraphTypeOK
  <2>3. links' = [mid EXCEPT ![dst] = Append(@, src)]
    BY <1>4 DEF EntangleBothWays
  <2> HIDE DEF mid
  <2>4. /\ links' \in [Uris -> Seq(Uris)]
        /\ \A u \in Uris : links'[u] = IF u = dst THEN Append(mid[u], src) ELSE mid[u]
    BY <2>2, <2>3
  <2>5. ASSUME NEW u \in Uris PROVE Targets(u) \subseteq Targets(u)'
    <3>0. links[u] \in Seq(Uris) /\ mid[u] \in Seq(Uris) /\ links'[u] \in Seq(Uris)
      BY <2>2, <2>4 DEF GraphTypeOK
    <3>1. ToSet(links[u]) \subseteq ToSet(mid[u])
      <4>1. CASE u = src
        <5>1. ToSet(Append(links[u], dst)) = ToSet(links[u]) \cup {dst}
          BY <3>0, AppendedElements
        <5> QED BY <2>2, <4>1, <5>1
      <4> QED BY <2>2, <4>1
    <3>2. ToSet(mid[u]) \subseteq ToSet(links'[u])
      <4>1. CASE u = dst
        <5>1. ToSet(Append(mid[u], src)) = ToSet(mid[u]) \cup {src}
          BY <3>0, AppendedElements
        <5> QED BY <2>4, <4>1, <5>1
      <4> QED BY <2>4, <4>1
    <3> QED BY <3>1, <3>2 DEF Targets, ToSet
  <2> QED BY <2>1, <2>4, <2>5 DEF GraphTypeOK
<1> QED BY <1>1, <1>3, <1>4

\* What a take gets from the queue and whom it wakes.
TakenUpTo(s, gets, woken) ==
    /\ \A k \in 1..(gets - 1) : ~Passes(s, queue[s][k])
    /\ \/ ~Passes(s, queue[s][gets]) /\ gets = Len(queue[s]) /\ got' = got
       \/ Passes(s, queue[s][gets]) /\ got' = [got EXCEPT ![s] = Append(@, queue[s][gets])]
    /\ queue' = [queue EXCEPT ![s] = SubSeq(@, gets + 1, Len(@))]
    /\ putters' = [putters EXCEPT ![s] = SubSeq(@, woken + 1, Len(@))]
    /\ ready' = ready \o SubSeq(putters[s], 1, woken)

LEMMA TakeEffect ==
    ASSUME StreamTypes, NEW s \in Subs, Take(s)
    PROVE  \E gets \in 1..Len(queue[s]), woken \in 0..Len(putters[s]) : TakenUpTo(s, gets, woken)
<1> DEFINE I == {k \in 1..Len(queue[s]) : Passes(s, queue[s][k])}
           n == IF I # {} THEN Min(I) ELSE 0
           gets == IF n = 0 THEN Len(queue[s]) ELSE n
           woken == IF gets < Len(putters[s]) THEN gets ELSE Len(putters[s])
<1>1. /\ queue[s] # <<>>
      /\ IF n = 0 THEN UNCHANGED got ELSE Deliver(s, queue[s][n])
      /\ queue' = [queue EXCEPT ![s] = SubSeq(@, gets + 1, Len(@))]
      /\ putters' = [putters EXCEPT ![s] = SubSeq(@, woken + 1, Len(@))]
      /\ ready' = ready \o SubSeq(putters[s], 1, woken)
  BY DEF Take, SelectInSeq
<1>2. Len(queue[s]) \in Nat \ {0} /\ Len(putters[s]) \in Nat
  BY <1>1, EmptySeq, LenProperties DEF StreamTypes
<1>3. I \in SUBSET Nat
  OBVIOUS
<1>4. \/ n = 0 /\ \A k \in 1..Len(queue[s]) : ~Passes(s, queue[s][k])
      \/ n \in 1..Len(queue[s]) /\ Passes(s, queue[s][n]) /\ \A k \in 1..(n - 1) : ~Passes(s, queue[s][k])
  <2>1. CASE I = {}
    BY <2>1
  <2>2. CASE I # {}
    <3>1. Min(I) \in I /\ \A m \in I : Min(I) <= m
      BY <1>3, <2>2, MinIsLeast
    <3>2. n = Min(I)
      BY <2>2
    <3> HIDE DEF n
    <3>3. n \in 1..Len(queue[s]) /\ Passes(s, queue[s][n])
      BY <3>1, <3>2
    <3>4. ASSUME NEW k \in 1..(n - 1) PROVE ~Passes(s, queue[s][k])
      <4>1. k \in 1..Len(queue[s]) /\ ~(n <= k)
        BY <1>2, <3>3
      <4> QED BY <3>1, <3>2, <4>1
    <3> QED BY <3>3, <3>4
  <2> QED BY <2>1, <2>2
<1> HIDE DEF n, I
<1>5. gets \in 1..Len(queue[s])
  BY <1>2, <1>4
<1>6. woken \in 0..Len(putters[s])
  BY <1>2, <1>5
<1>7. \A k \in 1..(gets - 1) : ~Passes(s, queue[s][k])
  BY <1>2, <1>4
<1>8. \/ ~Passes(s, queue[s][gets]) /\ gets = Len(queue[s]) /\ got' = got
      \/ Passes(s, queue[s][gets]) /\ got' = [got EXCEPT ![s] = Append(@, queue[s][gets])]
  <2>1. CASE n = 0
    BY <1>1, <1>2, <1>4, <2>1
  <2>2. CASE n # 0
    <3>1. n \in 1..Len(queue[s]) /\ Passes(s, queue[s][n]) /\ gets = n
      BY <1>4, <2>2
    <3>2. got' = [got EXCEPT ![s] = Append(@, queue[s][n])]
      BY <1>1, <2>2 DEF Deliver
    <3> QED BY <3>1, <3>2
  <2> QED BY <2>1, <2>2
<1> HIDE DEF gets, woken
<1>9. TakenUpTo(s, gets, woken)
  BY <1>1, <1>7, <1>8 DEF TakenUpTo
<1> QED BY <1>5, <1>6, <1>9

\* The next subscriber of the publisher that runs gets its payload, or the mode of the
\* subscriber says what is dropped.
HandsTo(h) ==
    /\ running' = [running EXCEPT !.todo = Tail(@)]
    /\ \/ queue' = [queue EXCEPT ![h] = Append(@, Payload(running))]
       \/ queue' = queue /\ sub[h].mode = "drop_newest"
       \/ /\ queue' = [queue EXCEPT ![h] = Append(Tail(@), Payload(running))]
          /\ queue[h] # <<>> /\ sub[h].mode = "drop_oldest"
    /\ putters' = putters

WaitsFor(h) ==
    /\ running' = None
    /\ sub[h].mode = "block"
    /\ queue' = queue
    /\ putters' = [putters EXCEPT ![h] = Append(@, running)]

LEMMA EnqueueEffect ==
    ASSUME StreamTypes, EnqueueNext
    PROVE  /\ running \in Publishers /\ running # None /\ running.todo # <<>>
           /\ Head(running.todo) \in Subs
           /\ HandsTo(Head(running.todo)) \/ WaitsFor(Head(running.todo))
           /\ UNCHANGED <<graphVars, logged, subscribers, sub, ready, got>>
<1> DEFINE h == Head(running.todo)
<1>1. running # None /\ running.todo # <<>>
  BY DEF EnqueueNext
<1>2. running \in Publishers
  BY <1>1 DEF StreamTypes
<1>3. running.todo \in Seq(Subs)
  BY <1>2 DEF Publishers
<1>4. h \in Subs
  BY <1>1, <1>3, TailElements
<1>5. Enqueue(h) \/ EnqueueWaits(h) \/ EnqueueDropsNewest(h) \/ EnqueueDropsOldest(h)
  BY DEF EnqueueNext
<1>6. UNCHANGED <<graphVars, logged, subscribers, sub, ready, got>>
  BY DEF EnqueueNext
<1> HIDE DEF h
<1>7. HandsTo(h) \/ WaitsFor(h)
  <2>1. CASE Enqueue(h)
    BY <2>1 DEF Enqueue, Handed, HandsTo
  <2>2. CASE EnqueueWaits(h)
    BY <2>2 DEF EnqueueWaits, WaitsFor
  <2>3. CASE EnqueueDropsNewest(h)
    BY <2>3 DEF EnqueueDropsNewest, Handed, HandsTo
  <2>4. CASE EnqueueDropsOldest(h)
    <3>1. Len(queue[h]) >= QueueSize
      BY <2>4 DEF EnqueueDropsOldest, Full
    <3>2. queue[h] # <<>>
      BY <3>1, QueueAssumption
    <3> QED BY <2>4, <3>2 DEF EnqueueDropsOldest, Handed, HandsTo
  <2> QED BY <1>5, <2>1, <2>2, <2>3, <2>4
<1> QED BY <1>1, <1>2, <1>4, <1>6, <1>7 DEF h

\* What NextList takes up.
TakesUp(u) ==
    /\ u = (IF running.lists = 0 THEN running.uri ELSE links[running.uri][running.lists])
    /\ running' = [running EXCEPT !.lists = @ + 1, !.todo = subscribers[u]]

LEMMA NextListEffect ==
    ASSUME StreamTypes, NextList
    PROVE  /\ running \in Publishers /\ running # None /\ running.todo = <<>>
           /\ \E u \in Uris :
                 /\ TakesUp(u)
                 /\ running.lists = 0 => u = running.uri
                 /\ running.lists # 0 => u \in Targets(running.uri)
           /\ UNCHANGED <<graphVars, logged, subscribers, sub, queue, putters, ready, got>>
<1> DEFINE u == IF running.lists = 0 THEN running.uri ELSE links[running.uri][running.lists]
<1>1. running # None /\ running.todo = <<>> /\ running.lists <= Len(links[running.uri])
  BY DEF NextList
<1>2. running \in Publishers /\ running.uri \in Uris /\ running.lists \in Nat
  BY <1>1 DEF StreamTypes, Publishers
<1>3. running.lists # 0 => running.lists \in DOMAIN links[running.uri] /\ links[running.uri] \in Seq(Uris)
  BY <1>1, <1>2 DEF StreamTypes, GraphTypeOK
<1>4. u \in Uris /\ (running.lists # 0 => u \in Targets(running.uri))
  BY <1>2, <1>3 DEF Targets
<1>5. TakesUp(u)
  BY DEF NextList, TakesUp
<1>6. UNCHANGED <<graphVars, logged, subscribers, sub, queue, putters, ready, got>>
  BY DEF NextList
<1> QED BY <1>1, <1>2, <1>4, <1>5, <1>6

\* The publisher that runs, after it handed its payload to one, or took up a list.
LEMMA HandedOn ==
    ASSUME running \in Publishers, running.todo # <<>>, NEW h, HandsTo(h)
    PROVE  /\ running' \in Publishers /\ running' # None
           /\ running'.uri = running.uri /\ running'.index = running.index
           /\ running'.lists = running.lists /\ running'.todo = Tail(running.todo)
<1>1. running' = [running EXCEPT !.todo = Tail(@)]
  BY DEF HandsTo
<1>2. running \in [uri : Uris, index : Nat, lists : Nat, todo : Seq(Subs)]
  BY DEF Publishers
<1>3. Tail(running.todo) \in Seq(Subs)
  BY <1>2, TailElements
<1>4. /\ running' \in [uri : Uris, index : Nat, lists : Nat, todo : Seq(Subs)]
      /\ running'.uri = running.uri /\ running'.index = running.index
      /\ running'.lists = running.lists /\ running'.todo = Tail(running.todo)
  BY <1>1, <1>2, <1>3
<1>5. running' # None
  BY <1>4, NoneAssumption DEF Publishers
<1> QED BY <1>4, <1>5 DEF Publishers

LEMMA TookUp ==
    ASSUME StreamTypes, running \in Publishers, NEW u \in Uris, TakesUp(u)
    PROVE  /\ running' \in Publishers /\ running' # None
           /\ running'.uri = running.uri /\ running'.index = running.index
           /\ running'.lists = running.lists + 1 /\ running'.todo = subscribers[u]
<1>1. running' = [running EXCEPT !.lists = @ + 1, !.todo = subscribers[u]]
  BY DEF TakesUp
<1>2. running \in [uri : Uris, index : Nat, lists : Nat, todo : Seq(Subs)]
  BY DEF Publishers
<1>3. subscribers[u] \in Seq(Subs) /\ running.lists + 1 \in Nat
  BY <1>2 DEF StreamTypes
<1>4. /\ running' \in [uri : Uris, index : Nat, lists : Nat, todo : Seq(Subs)]
      /\ running'.uri = running.uri /\ running'.index = running.index
      /\ running'.lists = running.lists + 1 /\ running'.todo = subscribers[u]
  BY ONLY <1>1, <1>2, <1>3
<1>5. running' # None
  BY <1>4, NoneAssumption DEF Publishers
<1> QED BY <1>4, <1>5 DEF Publishers

LEMMA LoopTypes ==
    ASSUME StreamTypes, LoopStep
    PROVE  StreamTypes' /\ Grows
<1>1. CASE RunNext
  <2>1. ready \in Seq(Publishers) /\ ready # <<>>
    BY <1>1 DEF RunNext, StreamTypes
  <2>2. running' \in Publishers /\ ready' \in Seq(Publishers)
    BY <1>1, <2>1, TailElements DEF RunNext
  <2> QED BY <1>1, <2>2 DEF RunNext, StreamTypes, GraphTypeOK, graphVars, Grows, Targets
<1>2. CASE NextList
  <2>1. PICK u \in Uris : TakesUp(u)
    BY <1>2, NextListEffect
  <2>2. /\ running \in Publishers
        /\ UNCHANGED <<graphVars, logged, subscribers, sub, queue, putters, ready, got>>
    BY <1>2, NextListEffect
  <2>3. running' \in Publishers
    BY <2>1, <2>2, TookUp
  <2> QED BY <2>2, <2>3 DEF StreamTypes, GraphTypeOK, graphVars, Grows, Targets
<1>3. CASE EnqueueNext
  <2> DEFINE h == Head(running.todo)
  <2>1. /\ running \in Publishers /\ h \in Subs /\ running.todo # <<>>
        /\ HandsTo(h) \/ WaitsFor(h)
        /\ UNCHANGED <<graphVars, logged, subscribers, sub, ready, got>>
    BY <1>3, EnqueueEffect
  <2>2. Payload(running) \in Payloads /\ Tail(running.todo) \in Seq(Subs)
    BY <2>1, TailElements DEF Publishers, Payload, Payloads
  <2> HIDE DEF h
  <2>3. CASE HandsTo(h)
    <3>1. running' \in Publishers
      BY <2>1, <2>3, HandedOn
    <3>2. Append(queue[h], Payload(running)) \in Seq(Payloads)
      BY <2>1, <2>2 DEF StreamTypes
    <3>3. queue[h] # <<>> => Append(Tail(queue[h]), Payload(running)) \in Seq(Payloads)
      BY <2>1, <2>2, TailElements, AppendedElements DEF StreamTypes
    <3>4. queue' \in [Subs -> Seq(Payloads)]
      BY <2>1, <2>3, <3>2, <3>3 DEF HandsTo, StreamTypes
    <3> QED BY <2>1, <2>3, <3>1, <3>4 DEF HandsTo, StreamTypes, GraphTypeOK, graphVars, Grows, Targets
  <2>4. CASE WaitsFor(h)
    <3>1. Append(putters[h], running) \in Seq(Publishers)
      BY <2>1 DEF StreamTypes
    <3>2. putters' \in [Subs -> Seq(Publishers)]
      BY <2>1, <2>4, <3>1 DEF WaitsFor, StreamTypes
    <3> QED BY <2>1, <2>4, <3>2 DEF WaitsFor, StreamTypes, GraphTypeOK, graphVars, Grows, Targets
  <2> QED BY <2>1, <2>3, <2>4
<1>4. CASE PublishDone
  BY <1>4 DEF PublishDone, StreamTypes, GraphTypeOK, graphVars, Grows, Targets
<1> QED BY <1>1, <1>2, <1>3, <1>4 DEF LoopStep

LEMMA PatchTypes ==
    ASSUME StreamTypes, NEW u \in Uris, Patch(u)
    PROVE  /\ StreamTypes' /\ Grows
           /\ NewPublisher(u, logged[u]) \in Publishers
           /\ \A v \in Uris : logged'[v] = IF v = u THEN logged[v] + 1 ELSE logged[v]
<1>1. \A v \in Uris : logged'[v] = IF v = u THEN logged[v] + 1 ELSE logged[v]
  BY DEF Patch, StreamTypes
<1>2. logged' \in [Uris -> Nat]
  BY DEF Patch, StreamTypes
<1>3. NewPublisher(u, logged[u]) \in Publishers
  BY DEF NewPublisher, Publishers, StreamTypes
<1>4. ready' \in Seq(Publishers)
  BY <1>3 DEF Patch, StreamTypes
<1>5. \A v \in Uris : logged[v] <= logged'[v]
  <2>1. \A v \in Uris : logged[v] \in Nat
    BY DEF StreamTypes
  <2> QED BY ONLY <1>1, <2>1
<1> QED BY <1>1, <1>2, <1>3, <1>4, <1>5 DEF Patch, StreamTypes, GraphTypeOK, graphVars, Grows, Targets

\* The steps that change what a stream is.
LEMMA SubTypes ==
    ASSUME StreamTypes, NEW s \in Subs, NEW x, sub' = [sub EXCEPT ![s] = x], x \in StreamStates,
           x.phase # "new", sub[s].phase # "new" => x.uri = sub[s].uri /\ x.mode = sub[s].mode,
           UNCHANGED <<graphVars, logged>>
    PROVE  /\ sub' \in [Subs -> StreamStates]
           /\ \A t \in Subs : sub'[t] = IF t = s THEN x ELSE sub[t]
           /\ GraphTypeOK' /\ logged' \in [Uris -> Nat] /\ Grows
<1>1. \A t \in Subs : sub'[t] = IF t = s THEN x ELSE sub[t]
  BY DEF StreamTypes
<1>2. sub' \in [Subs -> StreamStates]
  BY DEF StreamTypes
<1> QED BY <1>1, <1>2 DEF StreamTypes, GraphTypeOK, graphVars, Grows, Targets

Registers(s, u) == subscribers' = [subscribers EXCEPT ![u] = Append(@, s)]

LEMMA RegisterTypes ==
    ASSUME StreamTypes, NEW s \in Subs, NEW u \in Uris, Registers(s, u)
    PROVE  /\ subscribers' \in [Uris -> Seq(Subs)]
           /\ \A v \in Uris : subscribers'[v] = IF v = u THEN Append(subscribers[v], s) ELSE subscribers[v]
<1>1. Append(subscribers[u], s) \in Seq(Subs)
  BY DEF StreamTypes
<1> QED BY <1>1 DEF Registers, StreamTypes

Opened(u, mode, start, cutoff) ==
    [phase |-> "open", uri |-> u, mode |-> mode, start |-> start, next |-> start, cutoff |-> cutoff]

LEMMA SubscribeTypes ==
    ASSUME StreamTypes, NEW s \in Subs, NEW u \in Uris, NEW mode \in Modes, NEW start \in 0..logged[u],
           NEW replay \in BOOLEAN, Subscribe(s, u, mode, start, replay)
    PROVE  /\ StreamTypes' /\ Grows
           /\ sub[s].phase = "new"
           /\ replay \/ start = logged[u]
           /\ \A t \in Subs : sub'[t] = IF t = s THEN Opened(u, mode, start, IF replay THEN logged[u] ELSE 0)
                                                 ELSE sub[t]
           /\ \A v \in Uris : subscribers'[v] = IF v = u THEN Append(subscribers[v], s) ELSE subscribers[v]
           /\ UNCHANGED <<graphVars, logged, queue, putters, ready, running, got>>
<1> DEFINE x == Opened(u, mode, start, IF replay THEN logged[u] ELSE 0)
<1>1. /\ sub[s].phase = "new" /\ Registers(s, u) /\ sub' = [sub EXCEPT ![s] = x]
      /\ replay \/ start = logged[u]
      /\ UNCHANGED <<graphVars, logged, queue, putters, ready, running, got>>
  BY DEF Subscribe, Registers, Opened
<1>2. x \in StreamStates /\ x.phase # "new"
  BY DEF StreamStates, StreamTypes, Opened
<1> HIDE DEF x
<1>3. /\ sub' \in [Subs -> StreamStates] /\ GraphTypeOK' /\ logged' \in [Uris -> Nat] /\ Grows
      /\ \A t \in Subs : sub'[t] = IF t = s THEN x ELSE sub[t]
  BY <1>1, <1>2, SubTypes
<1>4. /\ subscribers' \in [Uris -> Seq(Subs)]
      /\ \A v \in Uris : subscribers'[v] = IF v = u THEN Append(subscribers[v], s) ELSE subscribers[v]
  BY <1>1, RegisterTypes
<1>5. StreamTypes'
  BY <1>1, <1>3, <1>4 DEF StreamTypes
<1> QED BY <1>1, <1>3, <1>4, <1>5 DEF x

LEMMA ProjectTypes ==
    ASSUME StreamTypes, NEW s \in Subs, NEW u \in Uris, NEW mode \in Modes, Project(s, u, mode)
    PROVE  /\ StreamTypes' /\ Grows
           /\ sub[s].phase = "new"
           /\ \A t \in Subs : sub'[t] = IF t = s THEN [phase |-> "early", uri |-> u, mode |-> mode] ELSE sub[t]
           /\ \A v \in Uris : subscribers'[v] = IF v = u THEN Append(subscribers[v], s) ELSE subscribers[v]
           /\ UNCHANGED <<graphVars, logged, queue, putters, ready, running, got>>
<1> DEFINE x == [phase |-> "early", uri |-> u, mode |-> mode]
<1>1. /\ sub[s].phase = "new" /\ Registers(s, u) /\ sub' = [sub EXCEPT ![s] = x]
      /\ UNCHANGED <<graphVars, logged, queue, putters, ready, running, got>>
  BY DEF Project, Registers
<1>2. x \in StreamStates /\ x.phase # "new"
  BY DEF StreamStates
<1> HIDE DEF x
<1>3. /\ sub' \in [Subs -> StreamStates] /\ GraphTypeOK' /\ logged' \in [Uris -> Nat] /\ Grows
      /\ \A t \in Subs : sub'[t] = IF t = s THEN x ELSE sub[t]
  BY <1>1, <1>2, SubTypes
<1>4. /\ subscribers' \in [Uris -> Seq(Subs)]
      /\ \A v \in Uris : subscribers'[v] = IF v = u THEN Append(subscribers[v], s) ELSE subscribers[v]
  BY <1>1, RegisterTypes
<1>5. StreamTypes'
  BY <1>1, <1>3, <1>4 DEF StreamTypes
<1> QED BY <1>1, <1>3, <1>4, <1>5 DEF x

LEMMA BeginTypes ==
    ASSUME StreamTypes, NEW s \in Subs, NEW start \in 0..MaxEvents, Begin(s, start)
    PROVE  /\ StreamTypes' /\ Grows
           /\ sub[s].phase = "early" /\ start \in Nat /\ start <= logged[sub[s].uri]
           /\ \A t \in Subs : sub'[t] = IF t = s THEN Opened(sub[s].uri, sub[s].mode, start, logged[sub[s].uri])
                                                 ELSE sub[t]
           /\ UNCHANGED <<graphVars, logged, subscribers, queue, putters, ready, running, got>>
<1> DEFINE x == Opened(sub[s].uri, sub[s].mode, start, logged[sub[s].uri])
<1>0. sub[s] \in StreamStates /\ start \in Nat
  BY StreamsBounds DEF StreamTypes
<1>1. /\ sub[s].phase = "early" /\ sub' = [sub EXCEPT ![s] = x] /\ start <= logged[sub[s].uri]
      /\ UNCHANGED <<graphVars, logged, subscribers, queue, putters, ready, running, got>>
  BY DEF Begin, Opened
<1>2. sub[s].uri \in Uris /\ sub[s].mode \in Modes
  BY <1>0, <1>1, PhasesOfStreams
<1>3. x \in StreamStates /\ x.phase # "new" /\ x.uri = sub[s].uri /\ x.mode = sub[s].mode
  BY <1>0, <1>2 DEF StreamStates, StreamTypes, Opened
<1> HIDE DEF x
<1>4. /\ sub' \in [Subs -> StreamStates] /\ GraphTypeOK' /\ logged' \in [Uris -> Nat] /\ Grows
      /\ \A t \in Subs : sub'[t] = IF t = s THEN x ELSE sub[t]
  BY <1>1, <1>3, SubTypes
<1>5. StreamTypes'
  BY <1>1, <1>4 DEF StreamTypes
<1> QED BY <1>0, <1>1, <1>4, <1>5 DEF x

LEMMA ReplayTypes ==
    ASSUME StreamTypes, NEW s \in Subs, Replay(s)
    PROVE  /\ StreamTypes' /\ Grows
           /\ sub[s].phase = "open" /\ sub[s].next < sub[s].cutoff
           /\ \A t \in Subs : sub'[t] = IF t = s THEN [sub[s] EXCEPT !.next = @ + 1] ELSE sub[t]
           /\ \A t \in Subs : got'[t] = IF t = s THEN Append(got[s], [uri |-> sub[s].uri, index |-> sub[s].next])
                                                 ELSE got[t]
           /\ UNCHANGED <<graphVars, logged, subscribers, queue, putters, ready, running>>
<1> DEFINE x == [sub[s] EXCEPT !.next = @ + 1]
           e == [uri |-> sub[s].uri, index |-> sub[s].next]
<1>1. /\ sub[s].phase = "open" /\ sub[s].next < sub[s].cutoff
      /\ sub' = [sub EXCEPT ![s].next = @ + 1] /\ got' = [got EXCEPT ![s] = Append(@, e)]
      /\ UNCHANGED <<graphVars, logged, subscribers, queue, putters, ready, running>>
  BY DEF Replay, Open, Replaying, Deliver
<1>2. sub' = [sub EXCEPT ![s] = x]
  BY <1>1
<1>3. sub[s] \in [phase : {"open", "closed"}, uri : Uris, mode : Modes, start : Nat, next : Nat, cutoff : Nat]
  BY <1>1, PhasesOfStreams DEF StreamTypes
<1>4. x \in StreamStates /\ x.phase # "new" /\ x.uri = sub[s].uri /\ x.mode = sub[s].mode
  BY <1>1, <1>3 DEF StreamStates
<1>5. e \in Payloads
  BY <1>3 DEF Payloads
<1> HIDE DEF x, e
<1>6. /\ sub' \in [Subs -> StreamStates] /\ GraphTypeOK' /\ logged' \in [Uris -> Nat] /\ Grows
      /\ \A t \in Subs : sub'[t] = IF t = s THEN x ELSE sub[t]
  BY <1>1, <1>2, <1>4, SubTypes
<1>7. Append(got[s], e) \in Seq(Payloads)
  BY <1>5 DEF StreamTypes
<1>8. got' \in [Subs -> Seq(Payloads)] /\ \A t \in Subs : got'[t] = IF t = s THEN Append(got[s], e) ELSE got[t]
  BY <1>1, <1>7 DEF StreamTypes
<1>9. StreamTypes'
  BY <1>1, <1>6, <1>8 DEF StreamTypes
<1> QED BY <1>1, <1>6, <1>8, <1>9 DEF x, e

LEMMA TakeTypes ==
    ASSUME StreamTypes, NEW s \in Subs, Take(s)
    PROVE  /\ StreamTypes' /\ Grows
           /\ \E gets \in 1..Len(queue[s]), woken \in 0..Len(putters[s]) :
                 /\ TakenUpTo(s, gets, woken)
                 /\ \A t \in Subs : queue'[t] = IF t = s THEN SubSeq(queue[s], gets + 1, Len(queue[s])) ELSE queue[t]
                 /\ \A t \in Subs : putters'[t] = IF t = s THEN SubSeq(putters[s], woken + 1, Len(putters[s]))
                                                           ELSE putters[t]
           /\ sub[s].phase = "open" /\ sub[s].next >= sub[s].cutoff
           /\ UNCHANGED <<graphVars, logged, subscribers, sub, running>>
<1>1. PICK gets \in 1..Len(queue[s]), woken \in 0..Len(putters[s]) : TakenUpTo(s, gets, woken)
  BY TakeEffect
<1>2. /\ sub[s].phase = "open" /\ ~(sub[s].next < sub[s].cutoff)
      /\ UNCHANGED <<graphVars, logged, subscribers, sub, running>>
  BY DEF Take, Open, Replaying
<1>3. queue[s] \in Seq(Payloads) /\ putters[s] \in Seq(Publishers) /\ gets \in 0..Len(queue[s])
  BY DEF StreamTypes
<1> DEFINE rest == SubSeq(queue[s], gets + 1, Len(queue[s]))
           left == SubSeq(putters[s], woken + 1, Len(putters[s]))
           woke == SubSeq(putters[s], 1, woken)
<1>4. rest \in Seq(Payloads) /\ left \in Seq(Publishers) /\ woke \in Seq(Publishers)
  BY <1>3, CutElements
<1>5. queue' = [queue EXCEPT ![s] = rest] /\ putters' = [putters EXCEPT ![s] = left] /\ ready' = ready \o woke
  BY <1>1 DEF TakenUpTo
<1> HIDE DEF rest, left, woke
<1>6. /\ queue' \in [Subs -> Seq(Payloads)]
      /\ \A t \in Subs : queue'[t] = IF t = s THEN rest ELSE queue[t]
  BY <1>4, <1>5 DEF StreamTypes
<1>7. /\ putters' \in [Subs -> Seq(Publishers)]
      /\ \A t \in Subs : putters'[t] = IF t = s THEN left ELSE putters[t]
  BY <1>4, <1>5 DEF StreamTypes
<1>8. ready' \in Seq(Publishers)
  BY <1>4, <1>5, JoinedElements DEF StreamTypes
<1>9. got' \in [Subs -> Seq(Payloads)]
  <2>1. queue[s][gets] \in Payloads
    BY <1>3
  <2>2. Append(got[s], queue[s][gets]) \in Seq(Payloads)
    BY <2>1 DEF StreamTypes
  <2>3. got' = got \/ got' = [got EXCEPT ![s] = Append(@, queue[s][gets])]
    BY <1>1 DEF TakenUpTo
  <2> QED BY <2>2, <2>3 DEF StreamTypes
<1>10. StreamTypes' /\ Grows
  <2>1. \A u \in Uris : logged[u] \in Nat
    BY DEF StreamTypes
  <2> QED BY <1>2, <1>6, <1>7, <1>8, <1>9, <2>1 DEF StreamTypes, GraphTypeOK, graphVars, Grows, Targets
<1>11. sub[s].next >= sub[s].cutoff
  <2>1. sub[s] \in [phase : {"open", "closed"}, uri : Uris, mode : Modes, start : Nat, next : Nat, cutoff : Nat]
    BY <1>2, PhasesOfStreams DEF StreamTypes
  <2> QED BY <1>2, <2>1
<1> QED BY <1>1, <1>2, <1>6, <1>7, <1>10, <1>11 DEF rest, left

Closes(s) == sub'[s].phase = "closed" /\ \A t \in Subs : t # s => sub'[t] = sub[t]

LEMMA CloseTypes ==
    ASSUME StreamTypes, NEW s \in Subs, Close(s)
    PROVE  /\ StreamTypes' /\ Grows /\ Closes(s)
           /\ sub[s].phase = "open" /\ sub[s].uri \in Uris
           /\ \A v \in Uris : subscribers'[v] = IF v = sub[s].uri THEN RemoveFirst(subscribers[v], s)
                                                                  ELSE subscribers[v]
           /\ UNCHANGED <<graphVars, logged, queue, putters, ready, running, got>>
<1> DEFINE x == [sub[s] EXCEPT !.phase = "closed"]
<1>1. /\ sub[s].phase = "open" /\ sub' = [sub EXCEPT ![s].phase = "closed"]
      /\ subscribers' = [subscribers EXCEPT ![sub[s].uri] = RemoveFirst(@, s)]
      /\ UNCHANGED <<graphVars, logged, queue, putters, ready, running, got>>
  BY DEF Close, Open
<1>2. sub' = [sub EXCEPT ![s] = x]
  BY <1>1
<1>3. sub[s] \in [phase : {"open", "closed"}, uri : Uris, mode : Modes, start : Nat, next : Nat, cutoff : Nat]
  BY <1>1, PhasesOfStreams DEF StreamTypes
<1>4. x \in StreamStates /\ x.phase # "new" /\ x.uri = sub[s].uri /\ x.mode = sub[s].mode
      /\ x.phase = "closed" /\ sub[s].uri \in Uris
  BY <1>3 DEF StreamStates
<1>5. RemoveFirst(subscribers[sub[s].uri], s) \in Seq(Subs)
  BY <1>4, RemovedElements DEF StreamTypes
<1>6. /\ subscribers' \in [Uris -> Seq(Subs)]
      /\ \A v \in Uris : subscribers'[v] = IF v = sub[s].uri THEN RemoveFirst(subscribers[v], s) ELSE subscribers[v]
  BY <1>1, <1>4, <1>5 DEF StreamTypes
<1> HIDE DEF x
<1>7. /\ sub' \in [Subs -> StreamStates] /\ GraphTypeOK' /\ logged' \in [Uris -> Nat] /\ Grows
      /\ \A t \in Subs : sub'[t] = IF t = s THEN x ELSE sub[t]
  BY <1>1, <1>2, <1>4, SubTypes
<1>8. StreamTypes'
  BY <1>1, <1>6, <1>7 DEF StreamTypes
<1> QED BY <1>1, <1>4, <1>6, <1>7, <1>8 DEF x, Closes

LEMMA AbandonTypes ==
    ASSUME StreamTypes, NEW s \in Subs, Abandon(s)
    PROVE  /\ StreamTypes' /\ Grows /\ Closes(s)
           /\ sub[s].phase = "early"
           /\ UNCHANGED <<graphVars, logged, subscribers, queue, putters, ready, running, got>>
<1> DEFINE x == [sub[s] EXCEPT !.phase = "closed"]
<1>1. /\ sub[s].phase = "early" /\ sub' = [sub EXCEPT ![s].phase = "closed"]
      /\ UNCHANGED <<graphVars, logged, subscribers, queue, putters, ready, running, got>>
  BY DEF Abandon
<1>2. sub' = [sub EXCEPT ![s] = x]
  BY <1>1
<1>3. sub[s] \in [phase : {"early", "closed"}, uri : Uris, mode : Modes]
  BY <1>1 DEF StreamTypes, StreamStates
<1>4. x \in StreamStates /\ x.phase # "new" /\ x.uri = sub[s].uri /\ x.mode = sub[s].mode
      /\ x.phase = "closed"
  BY <1>3 DEF StreamStates
<1> HIDE DEF x
<1>5. /\ sub' \in [Subs -> StreamStates] /\ GraphTypeOK' /\ logged' \in [Uris -> Nat] /\ Grows
      /\ \A t \in Subs : sub'[t] = IF t = s THEN x ELSE sub[t]
  BY <1>1, <1>2, <1>4, SubTypes
<1>6. StreamTypes'
  BY <1>1, <1>5 DEF StreamTypes
<1> QED BY <1>1, <1>5, <1>6 DEF x, Closes

-------------------------------------------------------------------------------
\* The registrations and what the streams hold.

Registered ==
    /\ \A u \in Uris : Distinct(subscribers[u])
                       /\ \A s \in ToSet(subscribers[u]) : sub[s].phase # "new" /\ sub[s].uri = u
    /\ \A s \in Subs : sub[s].phase \in {"early", "open"} => s \in ToSet(subscribers[sub[s].uri])

Quiet ==
    \A s \in Subs : /\ sub[s].phase = "new" => queue[s] = <<>>
                    /\ sub[s].phase \in {"new", "early"} => got[s] = <<>>

Logged(t) == \A i \in DOMAIN t : t[i].index < logged[t[i].uri]

Within ==
    \A s \in Subs : /\ sub[s].phase = "open" => sub[s].cutoff <= logged[sub[s].uri] /\ sub[s].start <= sub[s].next
                    /\ Logged(queue[s]) /\ Logged(got[s])

\* The steps of a stream that change what it is.
Changes(s) ==
    \/ \E u \in Uris, mode \in Modes, replay \in BOOLEAN :
          \E start \in 0..logged[u] : Subscribe(s, u, mode, start, replay)
    \/ \E u \in Uris, mode \in Modes : Project(s, u, mode)
    \/ \E start \in 0..MaxEvents : Begin(s, start)
    \/ Replay(s) \/ Close(s) \/ Abandon(s)

LEMMA StepKinds ==
    ASSUME StreamTypes, [StreamNext]_vars
    PROVE  \/ (Entangle \/ UNCHANGED graphVars) /\ UNCHANGED streamVars
           \/ \E u \in Uris : Patch(u)
           \/ LoopStep
           \/ \E s \in Subs : Take(s) \/ Changes(s)
BY DEF StreamNext, vars, AddEntanglement, ClientStep, Changes

LEMMA LoopKeeps ==
    ASSUME StreamTypes, LoopStep
    PROVE  UNCHANGED <<logged, subscribers, sub, got>>
<1>1. CASE EnqueueNext
  BY <1>1, EnqueueEffect
<1>2. CASE ~EnqueueNext
  BY <1>2 DEF LoopStep, RunNext, NextList, PublishDone
<1> QED BY <1>1, <1>2

LEMMA TypesNext ==
    ASSUME StreamTypes, [StreamNext]_vars
    PROVE  StreamTypes' /\ Grows
<1>1. CASE (Entangle \/ UNCHANGED graphVars) /\ UNCHANGED streamVars
  <2>1. GraphTypeOK' /\ \A u \in Uris : Targets(u) \subseteq Targets(u)'
    <3>1. CASE Entangle
      BY <3>1, LinksGrow DEF StreamTypes
    <3>2. CASE UNCHANGED graphVars
      BY <3>2 DEF StreamTypes, GraphTypeOK, graphVars, Targets
    <3> QED BY <1>1, <3>1, <3>2
  <2>2. \A u \in Uris : logged[u] \in Nat
    BY DEF StreamTypes
  <2> QED BY <1>1, <2>1, <2>2 DEF StreamTypes, streamVars, Grows
<1>2. CASE \E u \in Uris : Patch(u)
  BY <1>2, PatchTypes
<1>3. CASE LoopStep
  BY <1>3, LoopTypes
<1>4. CASE \E s \in Subs : Take(s)
  BY <1>4, TakeTypes
<1>5. CASE \E s \in Subs : Changes(s)
  BY <1>5, SubscribeTypes, ProjectTypes, BeginTypes, ReplayTypes, CloseTypes, AbandonTypes DEF Changes
<1> QED BY <1>1, <1>2, <1>3, <1>4, <1>5, StepKinds

\* A stream registers.
LEMMA RegisteredMore ==
    ASSUME StreamTypes, StreamTypes', Registered, NEW s \in Subs, NEW u \in Uris, sub[s].phase = "new",
           sub'[s].phase # "new", sub'[s].uri = u, \A t \in Subs : t # s => sub'[t] = sub[t],
           \A v \in Uris : subscribers'[v] = IF v = u THEN Append(subscribers[v], s) ELSE subscribers[v]
    PROVE  Registered'
<1>1. \A v \in Uris : subscribers[v] \in Seq(Subs) /\ ToSet(subscribers[v]) \subseteq Subs
  BY DEF StreamTypes, ToSet
<1>2. \A v \in Uris : s \notin ToSet(subscribers[v])
  BY DEF Registered
<1>3. /\ ToSet(Append(subscribers[u], s)) = ToSet(subscribers[u]) \cup {s}
      /\ Distinct(Append(subscribers[u], s))
  BY <1>1, <1>2, AppendedElements DEF Registered
<1>4. ASSUME NEW v \in Uris
      PROVE  Distinct(subscribers'[v]) /\ \A t \in ToSet(subscribers'[v]) : sub'[t].phase # "new" /\ sub'[t].uri = v
  <2>1. CASE v = u
    <3>1. subscribers'[v] = Append(subscribers[u], s)
      BY <2>1
    <3> QED BY <1>1, <1>3, <2>1, <3>1 DEF Registered
  <2>2. CASE v # u
    BY <1>1, <1>2, <2>2 DEF Registered
  <2> QED BY <2>1, <2>2
<1>5. ASSUME NEW t \in Subs, sub'[t].phase \in {"early", "open"}
      PROVE  t \in ToSet(subscribers'[sub'[t].uri])
  <2>1. CASE t = s
    BY <1>3, <2>1
  <2>2. CASE t # s
    <3>1. sub'[t] = sub[t] /\ sub[t].uri \in Uris /\ t \in ToSet(subscribers[sub[t].uri])
      BY <1>5, <2>2, PhasesOfStreams DEF Registered, StreamTypes
    <3> QED BY <1>3, <3>1
  <2> QED BY <2>1, <2>2
<1> QED BY <1>4, <1>5 DEF Registered

\* A stream that was registered stays so or is closed.
LEMMA RegisteredStill ==
    ASSUME StreamTypes, StreamTypes', Registered, Grows,
           \A t \in Subs : sub'[t].phase \in {"early", "open"} => sub[t].phase \in {"early", "open"},
           UNCHANGED subscribers
    PROVE  Registered'
<1>1. \A v \in Uris : ToSet(subscribers[v]) \subseteq Subs
  BY DEF StreamTypes, ToSet
<1>2. \A t \in Subs : sub'[t].phase \in {"early", "open"} => sub'[t].uri = sub[t].uri
  BY DEF Grows
<1> QED BY <1>1, <1>2 DEF Registered, Grows

LEMMA RegisteredNext ==
    ASSUME StreamTypes, Registered, [StreamNext]_vars
    PROVE  Registered'
<1>0. StreamTypes' /\ Grows
  BY TypesNext
<1>1. CASE UNCHANGED <<subscribers, sub>>
  BY <1>1 DEF Registered
<1>2. ASSUME NEW s \in Subs, Changes(s) PROVE Registered'
  <2>1. ASSUME NEW u \in Uris, NEW mode \in Modes, NEW replay \in BOOLEAN, NEW start \in 0..logged[u],
               Subscribe(s, u, mode, start, replay)
        PROVE  Registered'
    <3>1. /\ sub[s].phase = "new" /\ \A t \in Subs : t # s => sub'[t] = sub[t]
          /\ sub'[s] = Opened(u, mode, start, IF replay THEN logged[u] ELSE 0)
          /\ \A v \in Uris : subscribers'[v] = IF v = u THEN Append(subscribers[v], s) ELSE subscribers[v]
      BY <2>1, SubscribeTypes
    <3>2. sub'[s].phase # "new" /\ sub'[s].uri = u
      BY <3>1 DEF Opened
    <3> QED BY <1>0, <3>1, <3>2, RegisteredMore
  <2>2. ASSUME NEW u \in Uris, NEW mode \in Modes, Project(s, u, mode) PROVE Registered'
    <3>1. /\ sub[s].phase = "new" /\ \A t \in Subs : t # s => sub'[t] = sub[t]
          /\ sub'[s] = [phase |-> "early", uri |-> u, mode |-> mode]
          /\ \A v \in Uris : subscribers'[v] = IF v = u THEN Append(subscribers[v], s) ELSE subscribers[v]
      BY <2>2, ProjectTypes
    <3>2. sub'[s].phase # "new" /\ sub'[s].uri = u
      BY <3>1
    <3> QED BY <1>0, <3>1, <3>2, RegisteredMore
  <2>3. ASSUME NEW start \in 0..MaxEvents, Begin(s, start) PROVE Registered'
    BY <1>0, <2>3, BeginTypes, RegisteredStill
  <2>4. CASE Replay(s)
    <3>1. \A t \in Subs : sub'[t].phase \in {"early", "open"} => sub[t].phase \in {"early", "open"}
      BY <2>4, ReplayTypes
    <3> QED BY <1>0, <2>4, <3>1, ReplayTypes, RegisteredStill
  <2>5. CASE Close(s)
    <3> DEFINE u == sub[s].uri
    <3>1. /\ Closes(s) /\ u \in Uris /\ sub[s].phase = "open"
          /\ \A v \in Uris : subscribers'[v] = IF v = u THEN RemoveFirst(subscribers[v], s) ELSE subscribers[v]
      BY <2>5, CloseTypes
    <3> HIDE DEF u
    <3>2. /\ ToSet(RemoveFirst(subscribers[u], s)) \subseteq ToSet(subscribers[u])
          /\ ToSet(subscribers[u]) \ {s} \subseteq ToSet(RemoveFirst(subscribers[u], s))
          /\ Distinct(RemoveFirst(subscribers[u], s))
      BY <3>1, RemovedElements DEF Registered, StreamTypes
    <3>3. \A v \in Uris : ToSet(subscribers[v]) \subseteq Subs
      BY DEF StreamTypes, ToSet
    <3>4. sub'[s].phase = "closed"
      BY <3>1 DEF Closes
    <3>5. \A t \in Subs : t # s => sub'[t] = sub[t]
      BY <3>1 DEF Closes
    <3>6. ASSUME NEW v \in Uris
          PROVE  /\ Distinct(subscribers'[v])
                 /\ \A t \in ToSet(subscribers'[v]) : sub'[t].phase # "new" /\ sub'[t].uri = v
      <4>1. Distinct(subscribers'[v]) /\ ToSet(subscribers'[v]) \subseteq ToSet(subscribers[v])
        BY <3>1, <3>2 DEF Registered
      <4> QED BY <1>0, <3>3, <4>1 DEF Registered, Grows
    <3>7. ASSUME NEW t \in Subs, sub'[t].phase \in {"early", "open"}
          PROVE  t \in ToSet(subscribers'[sub'[t].uri])
      <4>1. t # s /\ sub'[t] = sub[t]
        BY <3>4, <3>5, <3>7
      <4>2. sub[t].uri \in Uris /\ t \in ToSet(subscribers[sub[t].uri])
        BY <3>7, <4>1, PhasesOfStreams DEF Registered, StreamTypes
      <4> QED BY <3>1, <3>2, <4>1, <4>2
    <3> QED BY <3>6, <3>7 DEF Registered
  <2>6. CASE Abandon(s)
    <3>1. /\ Closes(s) /\ UNCHANGED subscribers
      BY <2>6, AbandonTypes
    <3>2. \A t \in Subs : sub'[t].phase \in {"early", "open"} => sub[t].phase \in {"early", "open"}
      BY <3>1 DEF Closes
    <3> QED BY <1>0, <3>1, <3>2, RegisteredStill
  <2> QED BY <1>2, <2>1, <2>2, <2>3, <2>4, <2>5, <2>6 DEF Changes
<1>3. CASE \E s \in Subs : Take(s)
  BY <1>1, <1>3, TakeTypes
<1>4. CASE LoopStep
  BY <1>1, <1>4, LoopKeeps
<1>5. CASE \E u \in Uris : Patch(u)
  BY <1>1, <1>5 DEF Patch
<1>6. CASE UNCHANGED streamVars
  BY <1>1, <1>6 DEF streamVars
<1> QED BY <1>2, <1>3, <1>4, <1>5, <1>6, StepKinds

-------------------------------------------------------------------------------
\* The publishers on their way.

Resting == ToSet(ready) \cup UNION {Waiting(s) : s \in Subs}

LEMMA CarryingParts ==
    ASSUME StreamTypes
    PROVE  /\ Carrying = Resting \cup (IF running = None THEN {} ELSE {running})
           /\ Carrying \subseteq Publishers /\ Resting \subseteq Publishers
           /\ running # None => running \in Publishers
<1>1. ToSet(ready) \subseteq Publishers
  BY DEF StreamTypes, ToSet
<1>2. \A s \in Subs : Waiting(s) \subseteq Publishers
  BY DEF StreamTypes, ToSet, Waiting
<1>3. running # None => running \in Publishers
  BY DEF StreamTypes
<1>4. UNION {Waiting(s) : s \in Subs} \subseteq Publishers
  BY <1>2
<1> QED BY <1>1, <1>3, <1>4 DEF Carrying, Resting

LEMMA PatchCarries ==
    ASSUME StreamTypes, NEW u \in Uris, Patch(u)
    PROVE  /\ Carrying' = Carrying \cup {NewPublisher(u, logged[u])}
           /\ ToSet(ready') = ToSet(ready) \cup {NewPublisher(u, logged[u])}
<1>1. NewPublisher(u, logged[u]) \in Publishers /\ ready \in Seq(Publishers)
  BY PatchTypes DEF StreamTypes
<1>2. ready' = Append(ready, NewPublisher(u, logged[u])) /\ UNCHANGED <<putters, running>>
  BY DEF Patch
<1>3. ToSet(ready') = ToSet(ready) \cup {NewPublisher(u, logged[u])}
  BY <1>1, <1>2, AppendedElements
<1>4. \A s \in Subs : Waiting(s)' = Waiting(s)
  BY <1>2 DEF Waiting
<1> QED BY <1>2, <1>3, <1>4 DEF Carrying

LEMMA RunNextCarries ==
    ASSUME StreamTypes, RunNext
    PROVE  Carrying' = Carrying /\ running = None /\ running' # None
           /\ ToSet(ready) = {running'} \cup ToSet(ready') /\ (Distinct(ready) => running' \notin ToSet(ready'))
           /\ (Distinct(ready) => Distinct(ready'))
<1>1. ready \in Seq(Publishers) /\ ready # <<>> /\ running = None
      /\ running' = Head(ready) /\ ready' = Tail(ready) /\ putters' = putters
  BY DEF RunNext, StreamTypes
<1>2. /\ ToSet(ready) = {running'} \cup ToSet(ready')
      /\ running' \in Publishers
      /\ Distinct(ready) => Distinct(ready') /\ running' \notin ToSet(ready')
  BY <1>1, TailElements
<1>3. running' # None
  BY <1>2, NoneAssumption
<1>4. \A s \in Subs : Waiting(s)' = Waiting(s)
  BY <1>1 DEF Waiting
<1> QED BY <1>1, <1>2, <1>3, <1>4 DEF Carrying

LEMMA RunningCarries ==
    ASSUME StreamTypes, StreamTypes', running # None, running' # None, UNCHANGED <<ready, putters>>
    PROVE  /\ Carrying = Resting \cup {running} /\ Carrying' = Resting \cup {running'}
           /\ Resting' = Resting
<1>1. \A s \in Subs : Waiting(s)' = Waiting(s)
  BY DEF Waiting
<1>2. Resting' = Resting
  BY <1>1 DEF Resting
<1> QED BY <1>2, CarryingParts DEF Carrying, Resting

LEMMA WaitsCarries ==
    ASSUME StreamTypes, NEW h \in Subs, WaitsFor(h), running \in Publishers, ready' = ready
    PROVE  /\ Carrying' = Carrying
           /\ \A s \in Subs : Waiting(s)' = IF s = h THEN Waiting(s) \cup {running} ELSE Waiting(s)
           /\ \A s \in Subs : s # h => putters'[s] = putters[s]
           /\ Distinct(putters[h]) /\ running \notin Waiting(h) => Distinct(putters'[h])
<1>1. running # None /\ running' = None
  BY NoneAssumption DEF WaitsFor
<1>2. \A s \in Subs : putters'[s] = IF s = h THEN Append(putters[s], running) ELSE putters[s]
  BY DEF WaitsFor, StreamTypes
<1>3. /\ ToSet(Append(putters[h], running)) = ToSet(putters[h]) \cup {running}
      /\ Distinct(putters[h]) /\ running \notin ToSet(putters[h]) => Distinct(Append(putters[h], running))
  BY AppendedElements DEF StreamTypes
<1>4. \A s \in Subs : Waiting(s)' = IF s = h THEN Waiting(s) \cup {running} ELSE Waiting(s)
  BY <1>2, <1>3 DEF Waiting
<1>5. UNION {Waiting(s)' : s \in Subs} = {running} \cup UNION {Waiting(s) : s \in Subs}
  BY <1>4
<1> QED BY <1>1, <1>2, <1>3, <1>4, <1>5 DEF Carrying, Waiting

LEMMA DoneCarries ==
    ASSUME StreamTypes, PublishDone
    PROVE  /\ running \in Publishers /\ running # None /\ running' = None
           /\ running.todo = <<>> /\ running.lists \in Nat \ {0}
           /\ Carrying = Resting \cup {running} /\ Carrying' = Resting /\ Resting' = Resting
<1>1. running # None /\ running' = None /\ running.todo = <<>> /\ UNCHANGED <<putters, ready>>
      /\ running.lists > Len(links[running.uri])
  BY DEF PublishDone
<1>2. running \in Publishers
  BY <1>1 DEF StreamTypes
<1>3. running.lists \in Nat \ {0}
  <2>1. running.lists \in Nat /\ running.uri \in Uris
    BY <1>2 DEF Publishers
  <2>2. Len(links[running.uri]) \in Nat
    BY <2>1 DEF StreamTypes, GraphTypeOK
  <2> QED BY <1>1, <2>1, <2>2
<1>4. \A s \in Subs : Waiting(s)' = Waiting(s)
  BY <1>1 DEF Waiting
<1>5. Resting' = Resting
  BY <1>1, <1>4 DEF Resting
<1> QED BY <1>1, <1>2, <1>3, <1>5, CarryingParts DEF Carrying, Resting

LEMMA TakeCarries ==
    ASSUME StreamTypes, NEW s \in Subs, Take(s)
    PROVE  /\ Carrying' = Carrying
           /\ Waiting(s)' \subseteq Waiting(s)
           /\ ToSet(ready') \cup Waiting(s)' = ToSet(ready) \cup Waiting(s)
           /\ \A t \in Subs : t # s => putters'[t] = putters[t]
           /\ Distinct(putters[s]) => /\ Distinct(putters'[s])
                                      /\ (ToSet(ready') \ ToSet(ready)) \cap Waiting(s)' = {}
           /\ Distinct(ready) /\ Distinct(putters[s]) /\ ToSet(ready) \cap Waiting(s) = {} => Distinct(ready')
<1>1. PICK gets \in 1..Len(queue[s]), woken \in 0..Len(putters[s]) :
          /\ TakenUpTo(s, gets, woken)
          /\ \A t \in Subs : putters'[t] = IF t = s THEN SubSeq(putters[s], woken + 1, Len(putters[s])) ELSE putters[t]
  BY TakeTypes
<1> DEFINE woke == SubSeq(putters[s], 1, woken)
           left == SubSeq(putters[s], woken + 1, Len(putters[s]))
<1>2. /\ woke \in Seq(Publishers) /\ left \in Seq(Publishers)
      /\ ToSet(putters[s]) = ToSet(woke) \cup ToSet(left)
      /\ Distinct(putters[s]) => Distinct(woke) /\ Distinct(left) /\ ToSet(woke) \cap ToSet(left) = {}
  BY CutElements DEF StreamTypes
<1>3. ready' = ready \o woke /\ putters'[s] = left /\ running' = running
  BY <1>1, TakeTypes DEF TakenUpTo
<1> HIDE DEF woke, left
<1>4. /\ ToSet(ready') = ToSet(ready) \cup ToSet(woke)
      /\ Distinct(ready) /\ Distinct(woke) /\ ToSet(ready) \cap ToSet(woke) = {} => Distinct(ready')
  BY <1>2, <1>3, JoinedElements DEF StreamTypes
<1>5. Waiting(s)' = ToSet(left) /\ \A t \in Subs : t # s => Waiting(t)' = Waiting(t) /\ putters'[t] = putters[t]
  BY <1>1, <1>3 DEF Waiting
<1>6. Waiting(s) = ToSet(woke) \cup ToSet(left)
  BY <1>2 DEF Waiting
<1>7. ToSet(ready') \cup UNION {Waiting(t)' : t \in Subs} = ToSet(ready) \cup UNION {Waiting(t) : t \in Subs}
  <2>1. UNION {Waiting(t) : t \in Subs} = Waiting(s) \cup UNION {Waiting(t) : t \in Subs \ {s}}
    OBVIOUS
  <2>2. UNION {Waiting(t)' : t \in Subs} = Waiting(s)' \cup UNION {Waiting(t) : t \in Subs \ {s}}
    BY <1>5
  <2> QED BY <1>4, <1>5, <1>6, <2>1, <2>2
<1>8. Carrying' = Carrying
  BY <1>3, <1>7 DEF Carrying
<1> QED BY <1>2, <1>3, <1>4, <1>5, <1>6, <1>8

\* A publisher's event is in the log, and the subscribers it has left are among those
\* of the list it took up last.
Fits(p) ==
    /\ p.index < logged[p.uri]
    /\ p.lists = 0 => p.todo = <<>>
    /\ Distinct(p.todo)
    /\ \A s \in ToSet(p.todo) :
          /\ sub[s].phase # "new"
          /\ p.lists = 1 => sub[s].uri = p.uri
          /\ p.lists # 1 => sub[s].uri \in Targets(p.uri)

Carried == \A p \in Carrying : Fits(p)

Wired == StreamTypes /\ Registered /\ Quiet /\ Within /\ Carried

LEMMA FitsStill ==
    ASSUME StreamTypes, StreamTypes', Grows, NEW p \in Publishers, Fits(p)
    PROVE  Fits(p)'
<1>1. p.uri \in Uris /\ p.index \in Nat /\ ToSet(p.todo) \subseteq Subs
  BY DEF Publishers, ToSet
<1>2. logged[p.uri] \in Nat /\ logged'[p.uri] \in Nat /\ logged[p.uri] <= logged'[p.uri]
  BY <1>1 DEF StreamTypes, Grows
<1>3. Targets(p.uri) \subseteq Targets(p.uri)'
  BY <1>1 DEF Grows
<1>4. p.index < logged'[p.uri]
  BY <1>1, <1>2 DEF Fits
<1> QED BY <1>1, <1>3, <1>4 DEF Fits, Grows

LEMMA FitsNext ==
    ASSUME Wired, Grows, StreamTypes', LoopStep, running # None, running' # None
    PROVE  Fits(running)'
<1>0. running \in Publishers /\ Fits(running)
  BY CarryingParts DEF Wired, Carried
<1>1. CASE NextList
  <2>1. PICK u \in Uris : /\ TakesUp(u)
                          /\ running.lists = 0 => u = running.uri
                          /\ running.lists # 0 => u \in Targets(running.uri)
    BY <1>1, NextListEffect DEF Wired
  <2>2. UNCHANGED <<graphVars, logged, subscribers, sub>>
    BY <1>1, NextListEffect DEF Wired
  <2>3. /\ running'.uri = running.uri /\ running'.index = running.index
        /\ running'.lists = running.lists + 1 /\ running'.todo = subscribers[u] /\ running.lists \in Nat
    BY <1>0, <2>1, TookUp DEF Wired, Publishers
  <2>4. Distinct(subscribers[u]) /\ \A s \in ToSet(subscribers[u]) : sub[s].phase # "new" /\ sub[s].uri = u
    BY DEF Wired, Registered
  <2>5. running.lists + 1 # 0 /\ (running.lists + 1 = 1 <=> running.lists = 0)
    BY <2>3
  <2> QED BY <1>0, <2>1, <2>2, <2>3, <2>4, <2>5 DEF Fits, graphVars, Targets
<1>2. CASE EnqueueNext
  <2> DEFINE h == Head(running.todo)
  <2>1. /\ HandsTo(h) \/ WaitsFor(h)
        /\ UNCHANGED <<graphVars, logged, subscribers, sub, ready, got>>
        /\ running.todo # <<>>
    BY <1>2, EnqueueEffect DEF Wired
  <2>2. running.todo \in Seq(Subs)
    BY <1>0 DEF Publishers
  <2>3. HandsTo(h)
    BY <2>1 DEF WaitsFor
  <2>4. /\ running'.uri = running.uri /\ running'.index = running.index
        /\ running'.lists = running.lists /\ running'.todo = Tail(running.todo)
    BY <1>0, <2>1, <2>3, HandedOn
  <2>5. /\ ToSet(Tail(running.todo)) \subseteq ToSet(running.todo)
        /\ Distinct(running.todo) => Distinct(Tail(running.todo))
    BY <2>1, <2>2, TailElements
  <2>6. running.lists # 0
    BY <1>0, <2>1 DEF Fits
  <2> QED BY <1>0, <2>1, <2>4, <2>5, <2>6 DEF Fits, graphVars, Targets
<1> QED BY <1>1, <1>2 DEF LoopStep, RunNext, PublishDone

LEMMA CarriedNext ==
    ASSUME Wired, [StreamNext]_vars
    PROVE  Carried'
<1>0. StreamTypes /\ StreamTypes' /\ Grows /\ Carrying \subseteq Publishers /\ \A p \in Carrying : Fits(p)'
  BY TypesNext, FitsStill, CarryingParts DEF Wired, Carried
<1>1. CASE Carrying' \subseteq Carrying
  BY <1>0, <1>1 DEF Carried
<1>2. ASSUME NEW u \in Uris, Patch(u) PROVE Carried'
  <2>1. PICK n \in Publishers : n = NewPublisher(u, logged[u]) /\ Carrying' = Carrying \cup {n}
    BY <1>0, <1>2, PatchCarries, PatchTypes
  <2>2. Fits(n)'
    <3>1. /\ n.uri = u /\ n.index = logged[u] /\ n.lists = 0 /\ n.todo = <<>>
          /\ logged[u] \in Nat /\ logged'[u] = logged[u] + 1
      BY <1>0, <1>2, <2>1, PatchTypes DEF NewPublisher, StreamTypes
    <3>2. ToSet(<<>>) = {} /\ Distinct(<<>>)
      BY DEF ToSet, Distinct
    <3> QED BY <3>1, <3>2 DEF Fits
  <2> QED BY <1>0, <2>1, <2>2 DEF Carried
<1>3. CASE LoopStep
  <2>1. CASE RunNext
    BY <1>0, <1>1, <2>1, RunNextCarries
  <2>2. CASE PublishDone
    BY <1>0, <1>1, <2>2, DoneCarries
  <2>3. CASE NextList \/ EnqueueNext
    <3>1. CASE running' = None
      <4>1. EnqueueNext /\ WaitsFor(Head(running.todo))
        <5>1. ~NextList
          BY <1>0, <3>1, NextListEffect, TookUp
        <5>2. ~HandsTo(Head(running.todo))
          BY <1>0, <2>3, <3>1, <5>1, EnqueueEffect, HandedOn
        <5> QED BY <1>0, <2>3, <5>1, <5>2, EnqueueEffect
      <4> QED BY <1>0, <1>1, <4>1, EnqueueEffect, WaitsCarries
    <3>2. CASE running' # None
      <4>1. UNCHANGED <<ready, putters>> /\ running # None
        <5>1. CASE NextList
          BY <1>0, <5>1, NextListEffect
        <5>2. CASE EnqueueNext
          BY <1>0, <3>2, <5>2, EnqueueEffect DEF HandsTo, WaitsFor
        <5> QED BY <2>3, <5>1, <5>2
      <4>2. Carrying = Resting \cup {running} /\ Carrying' = Resting \cup {running'}
        BY <1>0, <3>2, <4>1, RunningCarries
      <4>3. Fits(running)'
        BY <1>0, <1>3, <3>2, <4>1, FitsNext
      <4> QED BY <1>0, <4>2, <4>3 DEF Carried
    <3> QED BY <3>1, <3>2
  <2> QED BY <1>3, <2>1, <2>2, <2>3 DEF LoopStep
<1>4. CASE \E s \in Subs : Take(s)
  BY <1>0, <1>1, <1>4, TakeCarries
<1>5. CASE UNCHANGED <<ready, putters, running>>
  <2>1. \A s \in Subs : Waiting(s)' = Waiting(s)
    BY <1>5 DEF Waiting
  <2>2. Carrying' = Carrying
    BY <1>5, <2>1 DEF Carrying
  <2> QED BY <1>1, <2>2
<1>6. ASSUME NEW s \in Subs, Changes(s) PROVE UNCHANGED <<ready, putters, running>>
  BY <1>6 DEF Changes, Subscribe, Project, Begin, Replay, Close, Abandon
<1>7. CASE UNCHANGED streamVars
  BY <1>5, <1>7 DEF streamVars
<1> QED BY <1>0, <1>2, <1>3, <1>4, <1>5, <1>6, <1>7, StepKinds

\* What the queues and the clients hold was in the log, and stays in it.
LEMMA LoggedStill ==
    ASSUME StreamTypes, StreamTypes', Grows, NEW t \in Seq(Payloads), Logged(t)
    PROVE  Logged(t)'
<1> SUFFICES ASSUME NEW i \in DOMAIN t PROVE t[i].index < logged'[t[i].uri]
  BY DEF Logged
<1>1. t[i].uri \in Uris /\ t[i].index \in Nat
  <2>1. t[i] \in Payloads
    BY ElementOfSeq, LenProperties
  <2> QED BY <2>1 DEF Payloads
<1>2. logged[t[i].uri] \in Nat /\ logged'[t[i].uri] \in Nat /\ logged[t[i].uri] <= logged'[t[i].uri]
  BY <1>1 DEF StreamTypes, Grows
<1> QED BY <1>1, <1>2 DEF Logged

LEMMA LoggedAppend ==
    ASSUME NEW t \in Seq(Payloads), Logged(t)', NEW e \in Payloads, e.index < logged'[e.uri]
    PROVE  Logged(Append(t, e))'
<1>1. /\ DOMAIN Append(t, e) = 1..(Len(t) + 1) /\ DOMAIN t = 1..Len(t) /\ Len(t) \in Nat
      /\ Append(t, e)[Len(t) + 1] = e /\ \A i \in 1..Len(t) : Append(t, e)[i] = t[i]
  OBVIOUS
<1>2. \A i \in 1..(Len(t) + 1) : i = Len(t) + 1 \/ i \in 1..Len(t)
  BY <1>1
<1> QED BY <1>1, <1>2 DEF Logged

LEMMA LoggedPart ==
    ASSUME NEW t \in Seq(Payloads), NEW w \in Seq(Payloads), ToSet(w) \subseteq ToSet(t), Logged(t)'
    PROVE  Logged(w)'
BY DEF Logged, ToSet

\* A step that changes no queue but h's.
LEMMA HandedQueue ==
    ASSUME Wired, Grows, StreamTypes', NEW h \in Subs, running \in Publishers, Fits(running), HandsTo(h)
    PROVE  /\ Payload(running) \in Payloads
           /\ \A s \in Subs : s # h => queue'[s] = queue[s]
           /\ \/ queue'[h] = queue[h] /\ sub[h].mode = "drop_newest"
              \/ queue'[h] = Append(queue[h], Payload(running))
              \/ /\ queue'[h] = Append(Tail(queue[h]), Payload(running))
                 /\ queue[h] # <<>> /\ sub[h].mode = "drop_oldest"
           /\ Logged(queue[h])'
<1>1. Payload(running) \in Payloads /\ Payload(running).uri = running.uri /\ Payload(running).index = running.index
  BY DEF Payload, Payloads, Publishers
<1>2. /\ \A s \in Subs : s # h => queue'[s] = queue[s]
      /\ \/ queue'[h] = queue[h] /\ sub[h].mode = "drop_newest"
         \/ queue'[h] = Append(queue[h], Payload(running))
         \/ /\ queue'[h] = Append(Tail(queue[h]), Payload(running))
            /\ queue[h] # <<>> /\ sub[h].mode = "drop_oldest"
  BY DEF HandsTo, Wired, StreamTypes
<1>3. PICK q \in Seq(Payloads), e \in Payloads : q = queue[h] /\ e = Payload(running)
  BY <1>1 DEF Wired, StreamTypes
<1>4. Logged(q)'
  BY <1>3, LoggedStill DEF Wired, Within
<1>5. e.index < logged'[e.uri]
  BY <1>1, <1>3, FitsStill DEF Wired, Fits, Publishers, Grows
<1>6. q # <<>> => Tail(q) \in Seq(Payloads) /\ Logged(Tail(q))'
  BY <1>4, TailElements, LoggedPart
<1>7. Logged(Append(q, e))' /\ (q # <<>> => Logged(Append(Tail(q), e))')
  BY <1>4, <1>5, <1>6, LoggedAppend
<1>8. Logged(queue[h])'
  BY <1>2, <1>3, <1>4, <1>7 DEF Logged
<1> QED BY <1>1, <1>2, <1>8

\* What a stream is after a step of its own that changes it.
OpenStates == [phase : {"open", "closed"}, uri : Uris, mode : Modes, start : Nat, next : Nat, cutoff : Nat]

Opens(s) ==
    /\ sub[s].phase = "new" /\ got' = got
    /\ \E u \in Uris, mode \in Modes : \E start \in 0..logged[u], cutoff \in {0, logged[u]} :
          /\ sub'[s] = Opened(u, mode, start, cutoff)
          /\ cutoff = logged[u] \/ start = logged[u]

Announces(s) ==
    /\ sub[s].phase = "new" /\ got' = got
    /\ \E u \in Uris, mode \in Modes : sub'[s] = [phase |-> "early", uri |-> u, mode |-> mode]

Begins(s) ==
    /\ sub[s].phase = "early" /\ got' = got
    /\ \E start \in Nat : /\ start <= logged[sub[s].uri]
                           /\ sub'[s] = Opened(sub[s].uri, sub[s].mode, start, logged[sub[s].uri])

Replays(s) ==
    /\ sub[s].phase = "open" /\ sub[s] \in OpenStates /\ sub[s].next < sub[s].cutoff
    /\ sub'[s] = [sub[s] EXCEPT !.next = @ + 1]
    /\ got'[s] = Append(got[s], [uri |-> sub[s].uri, index |-> sub[s].next])

Ends(s) == sub'[s].phase = "closed" /\ got' = got

LEMMA ChangesEffect ==
    ASSUME StreamTypes, NEW s \in Subs, Changes(s)
    PROVE  /\ UNCHANGED <<graphVars, logged, queue, putters, ready, running>>
           /\ \A t \in Subs : t # s => sub'[t] = sub[t] /\ got'[t] = got[t]
           /\ Opens(s) \/ Announces(s) \/ Begins(s) \/ Replays(s) \/ Ends(s)
<1>1. ASSUME NEW u \in Uris, NEW mode \in Modes, NEW replay \in BOOLEAN, NEW start \in 0..logged[u],
             Subscribe(s, u, mode, start, replay)
      PROVE  (\A t \in Subs : t # s => sub'[t] = sub[t] /\ got'[t] = got[t]) /\ Opens(s)
  <2>1. PICK cutoff \in {0, logged[u]} : cutoff = IF replay THEN logged[u] ELSE 0
    OBVIOUS
  <2>2. /\ sub[s].phase = "new" /\ got' = got /\ (replay \/ start = logged[u])
        /\ sub'[s] = Opened(u, mode, start, cutoff) /\ \A t \in Subs : t # s => sub'[t] = sub[t]
    BY <1>1, <2>1, SubscribeTypes
  <2>3. cutoff = logged[u] \/ start = logged[u]
    BY <2>1, <2>2
  <2> QED BY <2>2, <2>3 DEF Opens
<1>2. ASSUME NEW u \in Uris, NEW mode \in Modes, Project(s, u, mode)
      PROVE  (\A t \in Subs : t # s => sub'[t] = sub[t] /\ got'[t] = got[t]) /\ Announces(s)
  <2>1. /\ sub[s].phase = "new" /\ got' = got
        /\ sub'[s] = [phase |-> "early", uri |-> u, mode |-> mode] /\ \A t \in Subs : t # s => sub'[t] = sub[t]
    BY <1>2, ProjectTypes
  <2> QED BY <2>1 DEF Announces
<1>3. ASSUME NEW start \in 0..MaxEvents, Begin(s, start)
      PROVE  (\A t \in Subs : t # s => sub'[t] = sub[t] /\ got'[t] = got[t]) /\ Begins(s)
  BY <1>3, BeginTypes DEF Begins
<1>4. ASSUME Replay(s)
      PROVE  (\A t \in Subs : t # s => sub'[t] = sub[t] /\ got'[t] = got[t]) /\ Replays(s)
  <2>1. sub[s].phase = "open"
    BY <1>4, ReplayTypes
  <2>2. sub[s] \in OpenStates
    BY <2>1, PhasesOfStreams DEF StreamTypes, OpenStates
  <2> QED BY <1>4, <2>2, ReplayTypes DEF Replays
<1>5. ASSUME Close(s) \/ Abandon(s)
      PROVE  (\A t \in Subs : t # s => sub'[t] = sub[t] /\ got'[t] = got[t]) /\ Ends(s)
  BY <1>5, CloseTypes, AbandonTypes DEF Closes, Ends
<1>6. UNCHANGED <<graphVars, logged, queue, putters, ready, running>>
  BY DEF Changes, Subscribe, Project, Begin, Replay, Close, Abandon
<1> QED BY <1>1, <1>2, <1>3, <1>4, <1>5, <1>6 DEF Changes

LEMMA QuietNext ==
    ASSUME Wired, [StreamNext]_vars
    PROVE  Quiet'
<1>0. StreamTypes /\ StreamTypes' /\ Grows
  BY TypesNext DEF Wired
<1>1. CASE UNCHANGED <<sub, queue, got>>
  BY <1>1 DEF Wired, Quiet
<1>2. CASE EnqueueNext
  <2> DEFINE h == Head(running.todo)
  <2>1. /\ running \in Publishers /\ running # None /\ running.todo # <<>> /\ h \in Subs
        /\ HandsTo(h) \/ (WaitsFor(h) /\ UNCHANGED <<sub, got>>)
    BY <1>0, <1>2, EnqueueEffect
  <2>2. running \in Carrying /\ h \in ToSet(running.todo)
    BY <2>1, TailElements DEF Carrying, Publishers
  <2>3. sub[h].phase # "new"
    BY <2>2 DEF Wired, Carried, Fits
  <2> HIDE DEF h
  <2>4. \A s \in Subs : s # h => queue'[s] = queue[s]
    BY <1>0, <2>1, <2>2, HandedQueue DEF WaitsFor, Wired, Carried
  <2>5. UNCHANGED <<sub, got>>
    BY <1>0, <1>2, EnqueueEffect
  <2> QED BY <2>3, <2>4, <2>5 DEF Wired, Quiet
<1>3. ASSUME NEW s \in Subs, Take(s) PROVE Quiet'
  <2>1. /\ sub[s].phase = "open" /\ sub' = sub /\ \A t \in Subs : t # s => queue'[t] = queue[t]
    BY <1>0, <1>3, TakeTypes
  <2>2. \A t \in Subs : t # s => got'[t] = got[t]
    BY <1>0, <1>3, TakeEffect DEF TakenUpTo, StreamTypes
  <2>3. Quiet
    BY DEF Wired
  <2>4. sub'[s].phase = "open"
    BY <2>1
  <2>5. ASSUME NEW t \in Subs, t # s
        PROVE  sub'[t] = sub[t] /\ queue'[t] = queue[t] /\ got'[t] = got[t]
    BY <2>1, <2>2, <2>5
  <2> QED BY <2>3, <2>4, <2>5 DEF Quiet
<1>4. ASSUME NEW s \in Subs, Changes(s) PROVE Quiet'
  <2>1. /\ \A t \in Subs : t # s => sub'[t] = sub[t] /\ got'[t] = got[t]
        /\ queue' = queue
        /\ Opens(s) \/ Announces(s) \/ Begins(s) \/ Replays(s) \/ Ends(s)
    BY <1>0, <1>4, ChangesEffect
  <2>2. CASE Opens(s)
    BY <2>1, <2>2 DEF Opens, Opened, Wired, Quiet
  <2>3. CASE Announces(s)
    BY <2>1, <2>3 DEF Announces, Wired, Quiet
  <2>4. CASE Begins(s)
    BY <2>1, <2>4 DEF Begins, Opened, Wired, Quiet
  <2>5. CASE Replays(s)
    <3>1. sub'[s].phase = "open"
      BY <2>5 DEF Replays, OpenStates
    <3> QED BY <2>1, <3>1 DEF Wired, Quiet
  <2>6. CASE Ends(s)
    BY <2>1, <2>6 DEF Ends, Wired, Quiet
  <2> QED BY <2>1, <2>2, <2>3, <2>4, <2>5, <2>6
<1>5. CASE LoopStep
  BY <1>1, <1>2, <1>5 DEF LoopStep, RunNext, NextList, PublishDone
<1>6. CASE \E u \in Uris : Patch(u)
  BY <1>1, <1>6 DEF Patch
<1>7. CASE UNCHANGED streamVars
  BY <1>1, <1>7 DEF streamVars
<1> QED BY <1>0, <1>3, <1>4, <1>5, <1>6, <1>7, StepKinds

LEMMA WithinNext ==
    ASSUME Wired, [StreamNext]_vars
    PROVE  Within'
<1>0. StreamTypes /\ StreamTypes' /\ Grows
  BY TypesNext DEF Wired
<1>1. ASSUME NEW s \in Subs, queue'[s] = queue[s] PROVE Logged(queue[s])'
  <2>1. PICK q \in Seq(Payloads) : q = queue[s]
    BY <1>0 DEF StreamTypes
  <2>2. Logged(q)'
    BY <1>0, <2>1, LoggedStill DEF Wired, Within
  <2> QED BY <1>1, <2>1, <2>2 DEF Logged
<1>2. ASSUME NEW s \in Subs, got'[s] = got[s] PROVE Logged(got[s])'
  <2>1. PICK q \in Seq(Payloads) : q = got[s]
    BY <1>0 DEF StreamTypes
  <2>2. Logged(q)'
    BY <1>0, <2>1, LoggedStill DEF Wired, Within
  <2> QED BY <1>2, <2>1, <2>2 DEF Logged
<1>3. ASSUME NEW s \in Subs, sub'[s] = sub[s], sub'[s].phase = "open"
      PROVE  sub'[s].cutoff <= logged'[sub'[s].uri] /\ sub'[s].start <= sub'[s].next
  <2>1. sub[s] \in [phase : {"open", "closed"}, uri : Uris, mode : Modes, start : Nat, next : Nat, cutoff : Nat]
    BY <1>0, <1>3, PhasesOfStreams DEF StreamTypes
  <2>2. sub[s].cutoff \in Nat /\ logged[sub[s].uri] \in Nat /\ logged'[sub[s].uri] \in Nat
    BY <1>0, <2>1 DEF StreamTypes
  <2>3. sub[s].cutoff <= logged[sub[s].uri] /\ sub[s].start <= sub[s].next
    BY <1>3 DEF Wired, Within
  <2>4. logged[sub[s].uri] <= logged'[sub[s].uri]
    BY <1>0, <2>1 DEF Grows
  <2> QED BY <1>3, <2>2, <2>3, <2>4
<1>4. CASE UNCHANGED <<sub, queue, got>>
  BY <1>1, <1>2, <1>3, <1>4 DEF Within
<1>5. CASE EnqueueNext
  <2>1. PICK h \in Subs : running \in Publishers /\ running # None /\ (HandsTo(h) \/ WaitsFor(h))
    BY <1>0, <1>5, EnqueueEffect
  <2>2. UNCHANGED <<sub, got>>
    BY <1>0, <1>5, EnqueueEffect
  <2>3. Fits(running)
    <3>1. running \in Carrying
      BY <2>1 DEF Carrying
    <3> QED BY <3>1 DEF Wired, Carried
  <2>4. \A s \in Subs : Logged(queue[s])'
    <3>1. CASE HandsTo(h)
      <4>1. Logged(queue[h])' /\ \A s \in Subs : s # h => queue'[s] = queue[s]
        BY <1>0, <2>1, <2>3, <3>1, HandedQueue
      <4> QED BY <1>1, <4>1
    <3>2. CASE WaitsFor(h)
      BY <1>1, <3>2 DEF WaitsFor
    <3> QED BY <2>1, <3>1, <3>2
  <2> QED BY <1>2, <1>3, <2>2, <2>4 DEF Within
<1>6. ASSUME NEW s \in Subs, Take(s) PROVE Within'
  <2>1. PICK gets \in 1..Len(queue[s]), woken \in 0..Len(putters[s]) :
          /\ TakenUpTo(s, gets, woken)
          /\ \A t \in Subs : queue'[t] = IF t = s THEN SubSeq(queue[s], gets + 1, Len(queue[s])) ELSE queue[t]
    BY <1>0, <1>6, TakeTypes
  <2>2. PICK q \in Seq(Payloads) : q = queue[s]
    BY <1>0 DEF StreamTypes
  <2>3. Logged(q)'
    BY <1>0, <2>2, LoggedStill DEF Wired, Within
  <2>4. q[gets] \in Payloads /\ q[gets].index < logged'[q[gets].uri] /\ gets \in 0..Len(q)
    BY <2>2, <2>3 DEF Logged
  <2>5. Logged(queue[s])'
    <3>1. SubSeq(q, gets + 1, Len(q)) \in Seq(Payloads) /\ ToSet(SubSeq(q, gets + 1, Len(q))) \subseteq ToSet(q)
      BY <2>4, CutElements
    <3>2. PICK w \in Seq(Payloads) : w = SubSeq(q, gets + 1, Len(q)) /\ Logged(w)'
      BY <2>3, <3>1, LoggedPart
    <3> QED BY <2>1, <2>2, <3>2 DEF Logged
  <2>6. Logged(got[s])'
    <3>1. got'[s] = got[s] \/ got'[s] = Append(got[s], q[gets])
      BY <1>0, <2>1, <2>2 DEF TakenUpTo, StreamTypes
    <3>2. PICK w \in Seq(Payloads), e \in Payloads : w = got[s] /\ e = q[gets]
      BY <1>0, <2>4 DEF StreamTypes
    <3>3. Logged(w)'
      BY <1>0, <3>2, LoggedStill DEF Wired, Within
    <3>4. Logged(Append(w, e))'
      BY <2>4, <3>2, <3>3, LoggedAppend
    <3> QED BY <3>1, <3>2, <3>3, <3>4 DEF Logged
  <2>7. \A t \in Subs : t # s => queue'[t] = queue[t] /\ got'[t] = got[t]
    BY <1>0, <2>1 DEF TakenUpTo, StreamTypes
  <2>8. sub' = sub
    BY <1>0, <1>6, TakeTypes
  <2> QED BY <1>1, <1>2, <1>3, <2>5, <2>6, <2>7, <2>8 DEF Within
<1>7. ASSUME NEW s \in Subs, Changes(s) PROVE Within'
  <2>1. /\ \A t \in Subs : t # s => sub'[t] = sub[t] /\ got'[t] = got[t]
        /\ UNCHANGED <<queue, logged>>
        /\ Opens(s) \/ Announces(s) \/ Begins(s) \/ Replays(s) \/ Ends(s)
    BY <1>0, <1>7, ChangesEffect
  <2> DEFINE Ok == sub'[s].phase = "open" => sub'[s].cutoff <= logged'[sub'[s].uri] /\ sub'[s].start <= sub'[s].next
  <2>2. CASE Opens(s)
    <3>1. PICK u \in Uris, mode \in Modes : \E start \in 0..logged[u], cutoff \in {0, logged[u]} :
              sub'[s] = Opened(u, mode, start, cutoff)
      BY <2>2 DEF Opens
    <3>2. logged[u] \in Nat
      BY <1>0 DEF StreamTypes
    <3>3. Ok
      BY <2>1, <3>1, <3>2 DEF Opened
    <3>4. got' = got
      BY <2>2 DEF Opens
    <3> QED BY <1>1, <1>2, <1>3, <2>1, <3>3, <3>4 DEF Within
  <2>3. CASE Announces(s)
    BY <1>1, <1>2, <1>3, <2>1, <2>3 DEF Announces, Within
  <2>4. CASE Begins(s)
    <3>1. PICK start \in Nat : sub'[s] = Opened(sub[s].uri, sub[s].mode, start, logged[sub[s].uri])
      BY <2>4 DEF Begins
    <3>2. logged[sub[s].uri] \in Nat /\ got' = got
      BY <1>0, <2>4, PhasesOfStreams DEF Begins, StreamTypes
    <3>3. Ok
      BY <2>1, <3>1, <3>2 DEF Opened
    <3> QED BY <1>1, <1>2, <1>3, <2>1, <3>2, <3>3 DEF Within
  <2>5. CASE Replays(s)
    <3>1. /\ got'[s] = Append(got[s], [uri |-> sub[s].uri, index |-> sub[s].next])
          /\ sub[s].phase = "open" /\ sub[s].next < sub[s].cutoff /\ sub[s] \in OpenStates
          /\ sub'[s] = [sub[s] EXCEPT !.next = @ + 1]
      BY <2>5 DEF Replays
    <3>2. PICK w \in Seq(Payloads), e \in Payloads : w = got[s] /\ e = [uri |-> sub[s].uri, index |-> sub[s].next]
      BY <1>0, <3>1 DEF StreamTypes, Payloads, OpenStates
    <3>3. Logged(w)'
      BY <1>0, <3>2, LoggedStill DEF Wired, Within
    <3>4. sub[s].cutoff <= logged[sub[s].uri] /\ logged[sub[s].uri] \in Nat /\ sub[s].start <= sub[s].next
      BY <1>0, <3>1 DEF Wired, Within, StreamTypes, OpenStates
    <3>5. e.index < logged'[e.uri]
      BY <2>1, <3>1, <3>2, <3>4 DEF OpenStates
    <3>6. Logged(Append(w, e))'
      BY <3>3, <3>5, LoggedAppend
    <3>7. Logged(got[s])'
      BY <3>1, <3>2, <3>6 DEF Logged
    <3>8. Ok
      BY <2>1, <3>1, <3>4 DEF OpenStates
    <3> QED BY <1>1, <1>2, <1>3, <2>1, <3>7, <3>8 DEF Within
  <2>6. CASE Ends(s)
    BY <1>1, <1>2, <1>3, <2>1, <2>6 DEF Ends, Within
  <2> QED BY <2>1, <2>2, <2>3, <2>4, <2>5, <2>6
<1>8. CASE LoopStep
  BY <1>4, <1>5, <1>8 DEF LoopStep, RunNext, NextList, PublishDone
<1>9. CASE \E u \in Uris : Patch(u)
  BY <1>4, <1>9 DEF Patch
<1>10. CASE UNCHANGED streamVars
  BY <1>4, <1>10 DEF streamVars
<1> QED BY <1>0, <1>6, <1>7, <1>8, <1>9, <1>10, StepKinds

LEMMA WiredNext == Wired /\ [StreamNext]_vars => Wired'
BY TypesNext, RegisteredNext, QuietNext, WithinNext, CarriedNext DEF Wired

-------------------------------------------------------------------------------
\* Every publisher is at one place, and has an event of its own.

SameEvent(p, q) == p.uri = q.uri /\ p.index = q.index

Apart ==
    /\ Distinct(ready)
    /\ \A s \in Subs : /\ Distinct(putters[s])
                       /\ Waiting(s) \cap ToSet(ready) = {}
                       /\ \A t \in Subs : t # s => Waiting(s) \cap Waiting(t) = {}
    /\ running \notin Resting
    /\ \A p, q \in Carrying : SameEvent(p, q) => p = q

LEMMA ApartNext ==
    ASSUME Wired, Apart, [StreamNext]_vars
    PROVE  Apart'
<1>0. StreamTypes /\ StreamTypes' /\ Grows
  BY TypesNext DEF Wired
<1>1. /\ Carrying = Resting \cup (IF running = None THEN {} ELSE {running})
      /\ Carrying \subseteq Publishers /\ Resting \subseteq Publishers /\ None \notin Resting
  BY <1>0, CarryingParts, NoneAssumption
<1>2. CASE UNCHANGED <<ready, putters, running>>
  <2>1. \A s \in Subs : Waiting(s)' = Waiting(s)
    BY <1>2 DEF Waiting
  <2>2. Carrying' = Carrying /\ Resting' = Resting
    BY <1>2, <2>1 DEF Carrying, Resting
  <2> QED BY <1>2, <2>1, <2>2 DEF Apart
<1>3. ASSUME NEW u \in Uris, Patch(u) PROVE Apart'
  <2>1. PICK n \in Publishers : n = NewPublisher(u, logged[u])
    BY <1>0, <1>3, PatchTypes
  <2>2. n.uri = u /\ n.index = logged[u] /\ logged[u] \in Nat
    BY <1>0, <2>1 DEF NewPublisher, StreamTypes
  <2>3. ASSUME NEW p \in Carrying PROVE ~SameEvent(p, n)
    <3>1. p.index < logged[p.uri] /\ p.index \in Nat
      BY <1>1, <2>3 DEF Wired, Carried, Fits, Publishers
    <3> QED BY <2>2, <3>1 DEF SameEvent
  <2>4. n \notin Carrying
    BY <2>3 DEF SameEvent
  <2>5. /\ Carrying' = Carrying \cup {n} /\ ToSet(ready') = ToSet(ready) \cup {n}
        /\ ready' = Append(ready, n) /\ UNCHANGED <<putters, running>>
    BY <1>0, <1>3, <2>1, PatchCarries DEF Patch
  <2>6. \A s \in Subs : Waiting(s)' = Waiting(s)
    BY <2>5 DEF Waiting
  <2>7. ToSet(ready) \subseteq Carrying /\ \A s \in Subs : Waiting(s) \subseteq Carrying
    BY DEF Carrying
  <2>8. Distinct(ready')
    BY <1>0, <2>4, <2>5, <2>7, AppendedElements DEF Apart, StreamTypes
  <2>9. Resting' = Resting \cup {n} /\ running' # n
    <3>1. running = None \/ running \in Carrying
      BY <1>1
    <3> QED BY <2>1, <2>4, <2>5, <2>6, <3>1, NoneAssumption DEF Resting
  <2>10. \A p, q \in Carrying' : SameEvent(p, q) => p = q
    BY <2>3, <2>5 DEF Apart, SameEvent
  <2> QED BY <2>4, <2>5, <2>6, <2>7, <2>8, <2>9, <2>10 DEF Apart
<1>4. CASE RunNext
  <2>1. /\ Carrying' = Carrying /\ ToSet(ready) = {running'} \cup ToSet(ready') /\ running' \notin ToSet(ready')
        /\ Distinct(ready') /\ putters' = putters
    BY <1>0, <1>4, RunNextCarries DEF Apart, RunNext
  <2>2. \A s \in Subs : Waiting(s)' = Waiting(s)
    BY <2>1 DEF Waiting
  <2>3. running' \notin Resting'
    BY <2>1, <2>2 DEF Apart, Resting
  <2> QED BY <2>1, <2>2, <2>3 DEF Apart
<1>5. CASE PublishDone
  <2>1. /\ running' = None /\ Carrying = Resting \cup {running} /\ Carrying' = Resting /\ Resting' = Resting
        /\ UNCHANGED <<ready, putters>>
    BY <1>0, <1>5, DoneCarries DEF PublishDone
  <2>2. \A s \in Subs : Waiting(s)' = Waiting(s)
    BY <2>1 DEF Waiting
  <2> QED BY <1>1, <2>1, <2>2 DEF Apart
\* The publisher that runs goes on.
<1>6. ASSUME running \in Publishers, running # None, running' \in Publishers, running' # None,
             running'.uri = running.uri, running'.index = running.index, UNCHANGED <<ready, putters>>
      PROVE  Apart'
  <2>1. /\ Carrying = Resting \cup {running} /\ Carrying' = Resting \cup {running'} /\ Resting' = Resting
    BY <1>0, <1>6, RunningCarries
  <2>2. \A s \in Subs : Waiting(s)' = Waiting(s)
    BY <1>6 DEF Waiting
  <2>3. \A p \in Resting : ~SameEvent(p, running')
    BY <1>6, <2>1 DEF Apart, SameEvent
  <2>4. running' \notin Resting
    BY <2>3 DEF SameEvent
  <2>5. \A p, q \in Carrying' : SameEvent(p, q) => p = q
    BY <2>1, <2>3 DEF Apart, SameEvent
  <2> QED BY <1>6, <2>1, <2>2, <2>4, <2>5 DEF Apart
<1>7. CASE NextList
  <2>1. PICK u \in Uris : TakesUp(u)
    BY <1>0, <1>7, NextListEffect
  <2>2. running \in Publishers /\ running # None /\ UNCHANGED <<ready, putters>>
    BY <1>0, <1>7, NextListEffect
  <2> QED BY <1>0, <1>6, <2>1, <2>2, TookUp
<1>8. CASE EnqueueNext
  <2>1. PICK h \in Subs : HandsTo(h) \/ WaitsFor(h)
    BY <1>0, <1>8, EnqueueEffect
  <2>2. running \in Publishers /\ running # None /\ running.todo # <<>> /\ ready' = ready
    BY <1>0, <1>8, EnqueueEffect
  <2>3. CASE HandsTo(h)
    BY <1>6, <2>2, <2>3, HandedOn DEF HandsTo
  <2>4. CASE WaitsFor(h)
    <3>1. /\ Carrying' = Carrying
          /\ \A s \in Subs : Waiting(s)' = IF s = h THEN Waiting(s) \cup {running} ELSE Waiting(s)
          /\ \A s \in Subs : s # h => putters'[s] = putters[s]
          /\ Distinct(putters[h]) /\ running \notin Waiting(h) => Distinct(putters'[h])
      BY <1>0, <2>2, <2>4, WaitsCarries
    <3>2. running \notin ToSet(ready) /\ \A s \in Subs : running \notin Waiting(s)
      BY DEF Apart, Resting
    <3>3. \A s \in Subs : Distinct(putters'[s]) /\ Waiting(s)' \cap ToSet(ready') = {}
      BY <2>2, <3>1, <3>2 DEF Apart
    <3>4. \A s, t \in Subs : t # s => Waiting(s)' \cap Waiting(t)' = {}
      BY <3>1, <3>2 DEF Apart
    <3>5. running' \notin Resting'
      <4>1. Resting' \subseteq Publishers
        BY <1>0, CarryingParts DEF Resting, StreamTypes, ToSet, Waiting
      <4> QED BY <2>4, <4>1, NoneAssumption DEF WaitsFor
    <3> QED BY <2>2, <3>1, <3>3, <3>4, <3>5 DEF Apart
  <2> QED BY <2>1, <2>3, <2>4
<1>9. ASSUME NEW s \in Subs, Take(s) PROVE Apart'
  <2>1. /\ Carrying' = Carrying /\ Waiting(s)' \subseteq Waiting(s)
        /\ ToSet(ready') \cup Waiting(s)' = ToSet(ready) \cup Waiting(s)
        /\ \A t \in Subs : t # s => putters'[t] = putters[t]
        /\ Distinct(putters'[s]) /\ (ToSet(ready') \ ToSet(ready)) \cap Waiting(s)' = {}
        /\ Distinct(ready')
    BY <1>0, <1>9, TakeCarries DEF Apart
  <2>2. \A t \in Subs : t # s => Waiting(t)' = Waiting(t)
    BY <2>1 DEF Waiting
  <2>3. \A t \in Subs : Distinct(putters'[t]) /\ Waiting(t)' \cap ToSet(ready') = {}
    BY <2>1, <2>2 DEF Apart
  <2>4. \A t, x \in Subs : t # x => Waiting(t)' \cap Waiting(x)' = {}
    BY <2>1, <2>2 DEF Apart
  <2>5. Resting' = Resting
    <3>1. UNION {Waiting(t) : t \in Subs} = Waiting(s) \cup UNION {Waiting(t) : t \in Subs \ {s}}
      OBVIOUS
    <3>2. UNION {Waiting(t)' : t \in Subs} = Waiting(s)' \cup UNION {Waiting(t) : t \in Subs \ {s}}
      BY <2>2
    <3> QED BY <2>1, <3>1, <3>2 DEF Resting
  <2>6. running' = running
    BY <1>0, <1>9, TakeTypes
  <2> QED BY <2>1, <2>3, <2>4, <2>5, <2>6 DEF Apart
<1>10. ASSUME NEW s \in Subs, Changes(s) PROVE UNCHANGED <<ready, putters, running>>
  BY <1>0, <1>10, ChangesEffect
<1>11. CASE UNCHANGED streamVars
  BY <1>2, <1>11 DEF streamVars
<1> QED BY <1>0, <1>2, <1>3, <1>4, <1>5, <1>7, <1>8, <1>9, <1>10, <1>11, StepKinds DEF LoopStep

LEMMA ApartInit == StreamInit => Apart
<1> SUFFICES ASSUME StreamInit PROVE Apart
  OBVIOUS
<1>1. \A s \in Subs : putters[s] = <<>>
  BY DEF StreamInit
<1>2. Distinct(<<>>) /\ ToSet(<<>>) = {}
  BY DEF Distinct, ToSet
<1>3. Carrying = {} /\ Resting = {}
  BY <1>1, <1>2 DEF StreamInit, Carrying, Resting, Waiting
<1> QED BY <1>1, <1>2, <1>3 DEF StreamInit, Apart, Waiting

-------------------------------------------------------------------------------
\* How a step looks from one stream.

Active(s) == sub[s].phase \in {"early", "open"}

Brings(p, s) == p.uri = sub[s].uri /\ (p.lists = 0 \/ (p.lists = 1 /\ s \in ToSet(p.todo)))

\* The indices of the events of its object that are on their way to s.
IndicesOf(P, s) == {p.index : p \in {q \in P : Brings(q, s)}}
Coming(s) == IndicesOf(Carrying, s)

LEMMA ComingIsStillToCome ==
    ASSUME NEW s \in Subs, NEW i
    PROVE  StillToCome(s, i) <=> i \in Coming(s)
BY DEF StillToCome, Coming, IndicesOf, Brings

\* Nothing happens to the stream.
Same(s) ==
    /\ sub'[s] = sub[s] /\ queue'[s] = queue[s] /\ got'[s] = got[s]
    /\ logged'[sub[s].uri] = logged[sub[s].uri] /\ Coming(s)' = Coming(s)

\* Its object is patched.
Learns(s) ==
    /\ sub'[s] = sub[s] /\ queue'[s] = queue[s] /\ got'[s] = got[s]
    /\ logged'[sub[s].uri] = logged[sub[s].uri] + 1 /\ Coming(s)' = Coming(s) \cup {logged[sub[s].uri]}

\* It is handed the payload of the publisher that runs.
Receives(s) ==
    /\ sub'[s] = sub[s] /\ got'[s] = got[s] /\ logged' = logged
    /\ running \in Publishers /\ running \in Carrying
    /\ \/ queue'[s] = queue[s] /\ sub[s].mode = "drop_newest"
       \/ queue'[s] = Append(queue[s], Payload(running))
       \/ /\ queue'[s] = Append(Tail(queue[s]), Payload(running))
          /\ queue[s] # <<>> /\ sub[s].mode = "drop_oldest"
    /\ \/ /\ Brings(running, s) /\ Coming(s) = Coming(s)' \cup {running.index}
          /\ Apart => running.index \notin Coming(s)'
       \/ sub[s].uri \in Targets(running.uri) /\ Coming(s)' = Coming(s)

\* Its client takes from the queue.
Gets(s) ==
    /\ sub'[s] = sub[s] /\ logged' = logged /\ Coming(s)' = Coming(s)
    /\ sub[s].phase = "open" /\ sub[s].next >= sub[s].cutoff
    /\ \E n \in 1..Len(queue[s]) :
          /\ queue'[s] = SubSeq(queue[s], n + 1, Len(queue[s]))
          /\ \A k \in 1..(n - 1) : ~Passes(s, queue[s][k])
          /\ \/ ~Passes(s, queue[s][n]) /\ got'[s] = got[s]
             \/ Passes(s, queue[s][n]) /\ got'[s] = Append(got[s], queue[s][n])

\* It is opened, begins its replay, or goes on with it.
Turns(s) ==
    /\ queue'[s] = queue[s] /\ logged' = logged
    /\ \/ Opens(s) /\ queue[s] = <<>>
       \/ Announces(s)
       \/ Begins(s) /\ Coming(s)' = Coming(s)
       \/ Replays(s) /\ Coming(s)' = Coming(s)

LEMMA SameComing ==
    ASSUME NEW s \in Subs, Carrying' = Carrying, sub'[s].uri = sub[s].uri
    PROVE  Coming(s)' = Coming(s)
BY DEF Coming, IndicesOf, Brings

LEMMA RunningComing ==
    ASSUME NEW s \in Subs, Carrying = Resting \cup {running}, Carrying' = Resting \cup {running'},
           sub'[s].uri = sub[s].uri, running'.index = running.index
    PROVE  /\ (Brings(running, s) <=> Brings(running, s)') => Coming(s)' = Coming(s)
           /\ Brings(running, s) /\ ~Brings(running, s)' =>
                 /\ Coming(s) = Coming(s)' \cup {running.index}
                 /\ Apart => running.index \notin Coming(s)'
<1>1. /\ (Brings(running, s) <=> Brings(running, s)') => Coming(s)' = Coming(s)
      /\ Brings(running, s) /\ ~Brings(running, s)' => Coming(s) = Coming(s)' \cup {running.index}
  BY DEF Coming, IndicesOf, Brings
<1>2. ASSUME Brings(running, s), ~Brings(running, s)', Apart, running.index \in Coming(s)' PROVE FALSE
  <2>1. PICK p \in Resting : p.uri = sub[s].uri /\ p.index = running.index
    BY <1>2 DEF Coming, IndicesOf, Brings
  <2>2. SameEvent(p, running) /\ p \in Carrying /\ running \in Carrying
    BY <1>2, <2>1 DEF SameEvent, Brings
  <2> QED BY <1>2, <2>1, <2>2 DEF Apart
<1> QED BY <1>1, <1>2

LEMMA LoopView ==
    ASSUME Wired, LoopStep, NEW s \in Subs, Active(s)
    PROVE  Same(s) \/ Receives(s)
<1>0. StreamTypes /\ StreamTypes' /\ Grows
  BY LoopTypes DEF Wired
<1>1. UNCHANGED <<logged, subscribers, sub, got>>
  BY <1>0, LoopKeeps
<1>2. s \in ToSet(subscribers[sub[s].uri]) /\ sub[s].uri \in Uris
  BY <1>0, PhasesOfStreams DEF Wired, Registered, Active, StreamTypes
<1>3. CASE RunNext
  <2>1. Carrying' = Carrying /\ queue' = queue
    BY <1>0, <1>3, RunNextCarries DEF RunNext
  <2> QED BY <1>1, <2>1, SameComing DEF Same
<1>4. CASE PublishDone
  <2>1. /\ running \in Publishers /\ running.todo = <<>> /\ running.lists \in Nat \ {0}
        /\ Carrying = Resting \cup {running} /\ Carrying' = Resting
    BY <1>0, <1>4, DoneCarries
  <2>2. ~Brings(running, s)
    BY <2>1 DEF Brings, ToSet
  <2>3. Coming(s)' = Coming(s)
    BY <1>1, <2>1, <2>2 DEF Coming, IndicesOf, Brings
  <2> QED BY <1>1, <1>4, <2>3 DEF Same, PublishDone
<1>5. CASE NextList
  <2>1. PICK u \in Uris : /\ TakesUp(u)
                          /\ running.lists = 0 => u = running.uri
                          /\ running.lists # 0 => u \in Targets(running.uri)
    BY <1>0, <1>5, NextListEffect
  <2>2. running \in Publishers /\ running # None /\ running.todo = <<>> /\ UNCHANGED <<queue, putters, ready>>
    BY <1>0, <1>5, NextListEffect
  <2>3. /\ running'.uri = running.uri /\ running'.index = running.index
        /\ running'.lists = running.lists + 1 /\ running'.todo = subscribers[u] /\ running' # None
        /\ running.lists \in Nat
    BY <1>0, <2>1, <2>2, TookUp DEF Publishers
  <2>4. Carrying = Resting \cup {running} /\ Carrying' = Resting \cup {running'}
    BY <1>0, <2>2, <2>3, RunningCarries
  <2>5. Brings(running, s) <=> Brings(running, s)'
    <3>1. CASE running.lists = 0
      <4>1. running'.lists = 1 /\ u = running.uri
        BY <2>1, <2>3, <3>1
      <4>2. s \in ToSet(subscribers[u]) => sub[s].uri = u
        BY DEF Wired, Registered
      <4> QED BY <1>1, <1>2, <2>3, <3>1, <4>1, <4>2 DEF Brings
    <3>2. CASE running.lists # 0
      <4>1. running'.lists # 0 /\ running'.lists # 1
        BY <2>3, <3>2
      <4>2. s \notin ToSet(running.todo)
        BY <2>2 DEF ToSet
      <4> QED BY <3>2, <4>1, <4>2 DEF Brings
    <3> QED BY <3>1, <3>2
  <2> QED BY <1>1, <2>2, <2>3, <2>4, <2>5, RunningComing DEF Same
<1>6. CASE EnqueueNext
  <2>1. PICK h \in Subs : h = Head(running.todo) /\ (HandsTo(h) \/ WaitsFor(h))
    BY <1>0, <1>6, EnqueueEffect
  <2>2. running \in Publishers /\ running # None /\ running.todo # <<>> /\ ready' = ready
    BY <1>0, <1>6, EnqueueEffect
  <2>3. CASE WaitsFor(h)
    <3>1. Carrying' = Carrying /\ queue' = queue
      BY <1>0, <2>2, <2>3, WaitsCarries DEF WaitsFor
    <3> QED BY <1>1, <3>1, SameComing DEF Same
  <2>4. CASE HandsTo(h)
    <3>1. /\ running'.uri = running.uri /\ running'.index = running.index
          /\ running'.lists = running.lists /\ running'.todo = Tail(running.todo) /\ running' # None
      BY <2>2, <2>4, HandedOn
    <3>2. Carrying = Resting \cup {running} /\ Carrying' = Resting \cup {running'} /\ running \in Carrying
      BY <1>0, <2>2, <2>4, <3>1, RunningCarries DEF HandsTo
    <3>3. Fits(running)
      BY <3>2 DEF Wired, Carried
    <3>4. /\ ToSet(running.todo) = {h} \cup ToSet(Tail(running.todo)) /\ h \notin ToSet(Tail(running.todo))
      BY <2>1, <2>2, <3>3, TailElements DEF Publishers, Fits
    <3>5. running.lists # 0 /\ (running.lists = 1 => sub[h].uri = running.uri)
          /\ (running.lists # 1 => sub[h].uri \in Targets(running.uri))
      BY <2>2, <3>3, <3>4 DEF Fits
    <3>6. /\ \A t \in Subs : t # h => queue'[t] = queue[t]
          /\ \/ queue'[h] = queue[h] /\ sub[h].mode = "drop_newest"
             \/ queue'[h] = Append(queue[h], Payload(running))
             \/ /\ queue'[h] = Append(Tail(queue[h]), Payload(running))
                /\ queue[h] # <<>> /\ sub[h].mode = "drop_oldest"
      BY <1>0, <2>2, <2>4, <3>3, HandedQueue
    <3>7. CASE s = h
      <4>1. ~Brings(running, s)'
        BY <3>1, <3>4, <3>5, <3>7 DEF Brings
      <4>2. CASE running.lists = 1
        <5>1. Brings(running, s)
          BY <3>4, <3>5, <3>7, <4>2 DEF Brings
        <5> QED BY <1>1, <2>2, <3>1, <3>2, <3>6, <3>7, <4>1, <5>1, RunningComing DEF Receives
      <4>3. CASE running.lists # 1
        <5>1. ~Brings(running, s)
          BY <3>5, <4>3 DEF Brings
        <5> QED BY <1>1, <2>2, <3>1, <3>2, <3>5, <3>6, <3>7, <4>1, <4>3, <5>1, RunningComing DEF Receives
      <4> QED BY <4>2, <4>3
    <3>8. CASE s # h
      <4>1. Brings(running, s) <=> Brings(running, s)'
        BY <1>1, <3>1, <3>4, <3>8 DEF Brings
      <4> QED BY <1>1, <3>1, <3>2, <3>6, <3>8, <4>1, RunningComing DEF Same
    <3> QED BY <3>7, <3>8
  <2> QED BY <2>1, <2>3, <2>4
<1> QED BY <1>3, <1>4, <1>5, <1>6 DEF LoopStep

LEMMA Views ==
    ASSUME Wired, [StreamNext]_vars, NEW s \in Subs, Active(s)'
    PROVE  Same(s) \/ Learns(s) \/ Receives(s) \/ Gets(s) \/ Turns(s)
<1>0. StreamTypes /\ StreamTypes' /\ Grows
  BY TypesNext DEF Wired
<1>1. ASSUME Active(s), sub'[s] = sub[s], queue'[s] = queue[s], got'[s] = got[s], logged' = logged,
             UNCHANGED <<ready, putters, running>>
      PROVE  Same(s)
  <2>1. \A t \in Subs : Waiting(t)' = Waiting(t)
    BY <1>1 DEF Waiting
  <2>2. Carrying' = Carrying
    BY <1>1, <2>1 DEF Carrying
  <2> QED BY <1>1, <2>2, SameComing DEF Same
<1>2. CASE UNCHANGED streamVars
  BY <1>1, <1>2 DEF streamVars, Active
<1>3. ASSUME NEW u \in Uris, Patch(u) PROVE Same(s) \/ Learns(s)
  <2>1. UNCHANGED <<sub, queue, got>> /\ \A v \in Uris : logged'[v] = IF v = u THEN logged[v] + 1 ELSE logged[v]
    BY <1>0, <1>3, PatchTypes DEF Patch
  <2>2. Active(s) /\ sub[s].uri \in Uris
    BY <1>0, <2>1, PhasesOfStreams DEF Active, StreamTypes
  <2>3. PICK n \in Publishers : n = NewPublisher(u, logged[u]) /\ Carrying' = Carrying \cup {n}
    BY <1>0, <1>3, PatchCarries, PatchTypes
  <2>4. n.uri = u /\ n.index = logged[u] /\ n.lists = 0
    BY <2>3 DEF NewPublisher
  <2>5. CASE sub[s].uri = u
    <3>1. Coming(s)' = Coming(s) \cup {logged[u]}
      BY <2>1, <2>3, <2>4, <2>5 DEF Coming, IndicesOf, Brings
    <3> QED BY <2>1, <2>2, <2>5, <3>1 DEF Learns
  <2>6. CASE sub[s].uri # u
    <3>1. Coming(s)' = Coming(s)
      BY <2>1, <2>3, <2>4, <2>6 DEF Coming, IndicesOf, Brings
    <3> QED BY <2>1, <2>2, <2>6, <3>1 DEF Same
  <2> QED BY <2>5, <2>6
<1>4. CASE LoopStep
  <2>1. Active(s)
    BY <1>0, <1>4, LoopKeeps DEF Active
  <2> QED BY <1>4, <2>1, LoopView
<1>5. ASSUME NEW t \in Subs, Take(t) PROVE Same(s) \/ Gets(s)
  <2>1. PICK gets \in 1..Len(queue[t]), woken \in 0..Len(putters[t]) :
            /\ TakenUpTo(t, gets, woken)
            /\ \A x \in Subs : queue'[x] = IF x = t THEN SubSeq(queue[t], gets + 1, Len(queue[t])) ELSE queue[x]
    BY <1>0, <1>5, TakeTypes
  <2>2. /\ sub[t].phase = "open" /\ sub[t].next >= sub[t].cutoff
        /\ UNCHANGED <<logged, sub>> /\ Carrying' = Carrying
    BY <1>0, <1>5, TakeTypes, TakeCarries
  <2>3. Coming(s)' = Coming(s)
    BY <2>2, SameComing
  <2>4. CASE s # t
    <3>1. got'[s] = got[s]
      BY <1>0, <2>1, <2>4 DEF TakenUpTo, StreamTypes
    <3> QED BY <2>1, <2>2, <2>3, <2>4, <3>1 DEF Same
  <2>5. CASE s = t
    <3>1. got' = got \/ got'[s] = Append(got[s], queue[s][gets])
      BY <1>0, <2>1, <2>5 DEF TakenUpTo, StreamTypes
    <3>2. \/ ~Passes(s, queue[s][gets]) /\ got'[s] = got[s]
          \/ Passes(s, queue[s][gets]) /\ got'[s] = Append(got[s], queue[s][gets])
      BY <1>0, <2>1, <2>5 DEF TakenUpTo, StreamTypes
    <3> QED BY <2>1, <2>2, <2>3, <2>5, <3>2 DEF Gets, TakenUpTo
  <2> QED BY <2>4, <2>5
<1>6. ASSUME NEW t \in Subs, Changes(t) PROVE Same(s) \/ Turns(s)
  <2>1. /\ UNCHANGED <<graphVars, logged, queue, putters, ready, running>>
        /\ \A x \in Subs : x # t => sub'[x] = sub[x] /\ got'[x] = got[x]
        /\ Opens(t) \/ Announces(t) \/ Begins(t) \/ Replays(t) \/ Ends(t)
    BY <1>0, <1>6, ChangesEffect
  <2>2. CASE s # t
    BY <1>1, <2>1, <2>2 DEF Active
  <2>3. CASE s = t
    <3>1. ~Ends(s)
      BY DEF Ends, Active
    <3>2. \A x \in Subs : Waiting(x)' = Waiting(x)
      BY <2>1 DEF Waiting
    <3>3. Carrying' = Carrying
      BY <2>1, <3>2 DEF Carrying
    <3>4. sub[s].phase # "new" => Coming(s)' = Coming(s)
      BY <1>0, <3>3, SameComing DEF Grows
    <3>5. Opens(s) => queue[s] = <<>>
      BY DEF Opens, Wired, Quiet
    <3> QED BY <2>1, <2>3, <3>1, <3>4, <3>5 DEF Turns, Begins, Replays
  <2> QED BY <2>2, <2>3
<1> QED BY <1>0, <1>2, <1>3, <1>4, <1>5, <1>6, StepKinds

\* What a client has received after one more payload.
LEMMA OwnAppended ==
    ASSUME StreamTypes, NEW s \in Subs, NEW e \in Payloads, got'[s] = Append(got[s], e), sub'[s].uri = sub[s].uri
    PROVE  /\ Len(got[s]) \in Nat /\ DOMAIN got[s] = 1..Len(got[s])
           /\ \A i \in DOMAIN got[s] : got'[s][i] = got[s][i]
           /\ got'[s][Len(got[s]) + 1] = e
           /\ Own(s)' = Own(s) \cup (IF e.uri = sub[s].uri THEN {Len(got[s]) + 1} ELSE {})
           /\ OwnIndices(s)' = OwnIndices(s) \cup (IF e.uri = sub[s].uri THEN {e.index} ELSE {})
<1>1. PICK t \in Seq(Payloads) : t = got[s]
  BY DEF StreamTypes
<1>2. /\ DOMAIN Append(t, e) = 1..(Len(t) + 1) /\ DOMAIN t = 1..Len(t) /\ Len(t) \in Nat
      /\ Append(t, e)[Len(t) + 1] = e /\ \A i \in 1..Len(t) : Append(t, e)[i] = t[i]
  OBVIOUS
<1>3. /\ DOMAIN got'[s] = DOMAIN got[s] \cup {Len(got[s]) + 1} /\ Len(got[s]) + 1 \notin DOMAIN got[s]
      /\ \A i \in DOMAIN got[s] : got'[s][i] = got[s][i]
      /\ got'[s][Len(got[s]) + 1] = e
  BY <1>1, <1>2
<1>4. Own(s)' = Own(s) \cup (IF e.uri = sub[s].uri THEN {Len(got[s]) + 1} ELSE {})
  BY <1>3 DEF Own
<1>5. \A i \in Own(s) : i \in DOMAIN got[s]
  BY DEF Own
<1>6. OwnIndices(s)' = OwnIndices(s) \cup (IF e.uri = sub[s].uri THEN {e.index} ELSE {})
  BY <1>3, <1>4, <1>5 DEF OwnIndices
<1> QED BY <1>1, <1>2, <1>3, <1>4, <1>6

LEMMA OwnSame ==
    ASSUME NEW s \in Subs, got'[s] = got[s], sub'[s].uri = sub[s].uri
    PROVE  Own(s)' = Own(s) /\ OwnIndices(s)' = OwnIndices(s)
BY DEF Own, OwnIndices

\* The payload a take delivers, and what is left in the queue.
LEMMA GetsFrom ==
    ASSUME StreamTypes, NEW s \in Subs, Gets(s)
    PROVE  /\ sub[s] \in OpenStates /\ queue[s] \in Seq(Payloads)
           /\ \E n \in 1..Len(queue[s]) :
                 /\ queue[s][n] \in Payloads
                 /\ \A k \in 1..(n - 1) : ~Passes(s, queue[s][k])
                 /\ \/ ~Passes(s, queue[s][n]) /\ got'[s] = got[s]
                    \/ Passes(s, queue[s][n]) /\ got'[s] = Append(got[s], queue[s][n])
                 /\ Len(queue'[s]) = Len(queue[s]) - n
                 /\ DOMAIN queue'[s] = 1..(Len(queue[s]) - n) /\ DOMAIN queue[s] = 1..Len(queue[s])
                 /\ \A i \in DOMAIN queue'[s] : n + i \in DOMAIN queue[s] /\ queue'[s][i] = queue[s][n + i]
<1>1. sub[s] \in OpenStates /\ queue[s] \in Seq(Payloads)
  BY PhasesOfStreams DEF Gets, StreamTypes, OpenStates
<1>2. PICK n \in 1..Len(queue[s]) :
          /\ queue'[s] = SubSeq(queue[s], n + 1, Len(queue[s]))
          /\ \A k \in 1..(n - 1) : ~Passes(s, queue[s][k])
          /\ \/ ~Passes(s, queue[s][n]) /\ got'[s] = got[s]
             \/ Passes(s, queue[s][n]) /\ got'[s] = Append(got[s], queue[s][n])
  BY DEF Gets
<1>3. n \in 0..Len(queue[s]) /\ queue[s][n] \in Payloads /\ DOMAIN queue[s] = 1..Len(queue[s])
  BY <1>1
<1>4. /\ queue'[s] \in Seq(Payloads) /\ Len(queue'[s]) = Len(queue[s]) - n
      /\ \A i \in DOMAIN queue'[s] : n + i \in DOMAIN queue[s] /\ queue'[s][i] = queue[s][n + i]
  BY <1>1, <1>2, <1>3, CutElements
<1>5. DOMAIN queue'[s] = 1..(Len(queue[s]) - n)
  BY <1>4
<1> QED BY <1>1, <1>2, <1>3, <1>4, <1>5

-------------------------------------------------------------------------------
\* Nothing is lost.

InQueue(s, i) == \E k \in DOMAIN queue[s] : queue[s][k].uri = sub[s].uri /\ queue[s][k].index = i

KeepsAll(s) ==
    \A i \in sub[s].start..(logged[sub[s].uri] - 1) :
        \/ i \in OwnIndices(s)
        \/ sub[s].next <= i /\ i < sub[s].cutoff
        \/ i >= sub[s].cutoff /\ (InQueue(s, i) \/ i \in Coming(s))

LEMMA QueuedMore ==
    ASSUME StreamTypes, NEW s \in Subs, NEW e \in Payloads, queue'[s] = Append(queue[s], e),
           sub'[s].uri = sub[s].uri
    PROVE  \A i : InQueue(s, i)' <=> InQueue(s, i) \/ (e.uri = sub[s].uri /\ e.index = i)
<1>1. PICK t \in Seq(Payloads) : t = queue[s]
  BY DEF StreamTypes
<1>2. /\ DOMAIN Append(t, e) = 1..(Len(t) + 1) /\ DOMAIN t = 1..Len(t) /\ Len(t) \in Nat
      /\ Append(t, e)[Len(t) + 1] = e /\ \A i \in 1..Len(t) : Append(t, e)[i] = t[i]
  OBVIOUS
<1>3. /\ DOMAIN queue'[s] = DOMAIN queue[s] \cup {Len(queue[s]) + 1}
      /\ \A i \in DOMAIN queue[s] : queue'[s][i] = queue[s][i]
      /\ queue'[s][Len(queue[s]) + 1] = e
  BY <1>1, <1>2
<1> QED BY <1>3 DEF InQueue

\* An event that is in the queue and passes the cutoff is delivered or stays.
LEMMA GetsKeeps ==
    ASSUME StreamTypes, NEW s \in Subs, Gets(s), NEW i \in Nat, i >= sub[s].cutoff, InQueue(s, i)
    PROVE  i \in OwnIndices(s)' \/ InQueue(s, i)'
<1>1. PICK n \in 1..Len(queue[s]) :
          /\ queue[s][n] \in Payloads
          /\ \A k \in 1..(n - 1) : ~Passes(s, queue[s][k])
          /\ \/ ~Passes(s, queue[s][n]) /\ got'[s] = got[s]
             \/ Passes(s, queue[s][n]) /\ got'[s] = Append(got[s], queue[s][n])
          /\ DOMAIN queue'[s] = 1..(Len(queue[s]) - n) /\ DOMAIN queue[s] = 1..Len(queue[s])
          /\ \A j \in DOMAIN queue'[s] : queue'[s][j] = queue[s][n + j]
  BY GetsFrom
<1>2. PICK k \in DOMAIN queue[s] : queue[s][k].uri = sub[s].uri /\ queue[s][k].index = i
  BY DEF InQueue
<1>3. Passes(s, queue[s][k])
  BY <1>2 DEF Passes
<1>4. sub'[s] = sub[s] /\ Len(queue[s]) \in Nat
  BY DEF Gets, StreamTypes
<1>5. CASE k < n
  <2>1. k \in 1..(n - 1)
    BY <1>1, <1>4, <1>5
  <2> QED BY <1>1, <1>3, <2>1
<1>6. CASE k = n
  BY <1>1, <1>2, <1>3, <1>4, <1>6, OwnAppended
<1>7. CASE k > n
  <2>1. k - n \in DOMAIN queue'[s] /\ n + (k - n) = k
    BY <1>1, <1>4, <1>7
  <2>2. queue'[s][k - n] = queue[s][k]
    BY <1>1, <2>1
  <2> QED BY <1>2, <1>4, <2>1, <2>2 DEF InQueue
<1>8. k < n \/ k = n \/ k > n
  BY <1>1, <1>4
<1> QED BY <1>5, <1>6, <1>7, <1>8

LEMMA KeepsAllNext ==
    ASSUME Wired, [StreamNext]_vars, NEW s \in Subs,
           sub[s].phase = "open" /\ sub[s].mode = "block" => KeepsAll(s),
           sub'[s].phase = "open", sub'[s].mode = "block"
    PROVE  KeepsAll(s)'
<1>0. StreamTypes /\ StreamTypes' /\ Wired'
  BY WiredNext DEF Wired
<1>1. sub'[s] \in OpenStates /\ logged'[sub'[s].uri] \in Nat
  BY <1>0, PhasesOfStreams DEF StreamTypes, OpenStates
<1>2. Same(s) \/ Learns(s) \/ Receives(s) \/ Gets(s) \/ Turns(s)
  BY Views DEF Active
<1> SUFFICES ASSUME NEW i \in sub'[s].start..(logged'[sub'[s].uri] - 1)
             PROVE  \/ i \in OwnIndices(s)'
                    \/ sub'[s].next <= i /\ i < sub'[s].cutoff
                    \/ i >= sub'[s].cutoff /\ (InQueue(s, i)' \/ i \in Coming(s)')
  BY DEF KeepsAll
<1>3. i \in Nat
  BY <1>1 DEF OpenStates
<1>4. CASE Same(s)
  <2>1. \/ i \in OwnIndices(s)
        \/ sub[s].next <= i /\ i < sub[s].cutoff
        \/ i >= sub[s].cutoff /\ (InQueue(s, i) \/ i \in Coming(s))
    BY <1>4 DEF Same, KeepsAll
  <2>2. InQueue(s, i)' <=> InQueue(s, i)
    BY <1>4 DEF Same, InQueue
  <2> QED BY <1>4, <2>1, <2>2, OwnSame DEF Same
<1>5. CASE Learns(s)
  <2>1. InQueue(s, i)' <=> InQueue(s, i)
    BY <1>5 DEF Learns, InQueue
  <2>2. OwnIndices(s)' = OwnIndices(s)
    BY <1>5, OwnSame DEF Learns
  <2>3. sub[s] \in OpenStates /\ logged[sub[s].uri] \in Nat /\ sub[s].phase = "open" /\ sub[s].mode = "block"
    BY <1>0, <1>1, <1>5 DEF Learns, StreamTypes, OpenStates
  <2>4. CASE i = logged[sub[s].uri]
    <3>1. i >= sub[s].cutoff
      BY <2>3, <2>4 DEF Wired, Within, OpenStates
    <3> QED BY <1>5, <2>4, <3>1 DEF Learns
  <2>5. CASE i # logged[sub[s].uri]
    <3>1. i \in sub[s].start..(logged[sub[s].uri] - 1)
      BY <1>5, <2>3, <2>5 DEF Learns, OpenStates
    <3> QED BY <1>5, <2>1, <2>2, <2>3, <3>1 DEF Learns, KeepsAll
  <2> QED BY <2>4, <2>5
<1>6. CASE Receives(s)
  <2>1. /\ sub'[s] = sub[s] /\ logged' = logged /\ queue'[s] = Append(queue[s], Payload(running))
        /\ got'[s] = got[s] /\ running \in Publishers
    BY <1>6 DEF Receives
  <2>2. Payload(running) \in Payloads /\ Payload(running).uri = running.uri /\ Payload(running).index = running.index
    BY <2>1 DEF Payload, Payloads, Publishers
  <2>3. InQueue(s, i)' <=> InQueue(s, i) \/ (running.uri = sub[s].uri /\ running.index = i)
    BY <1>0, <2>1, <2>2, QueuedMore
  <2>4. i \in Coming(s) => i \in Coming(s)' \/ InQueue(s, i)'
    BY <1>6, <2>3 DEF Receives, Brings
  <2> QED BY <2>1, <2>3, <2>4, OwnSame DEF KeepsAll
<1>7. CASE Gets(s)
  <2>1. sub'[s] = sub[s] /\ logged' = logged /\ Coming(s)' = Coming(s) /\ sub[s].next >= sub[s].cutoff
    BY <1>7 DEF Gets
  <2>2. \/ i \in OwnIndices(s)
        \/ i >= sub[s].cutoff /\ (InQueue(s, i) \/ i \in Coming(s))
    BY <1>1, <1>3, <2>1 DEF KeepsAll, OpenStates
  <2>3. OwnIndices(s) \subseteq OwnIndices(s)'
    BY <1>0, <1>7, <2>1, GetsFrom, OwnAppended, OwnSame
  <2> QED BY <1>0, <1>3, <1>7, <2>1, <2>2, <2>3, GetsKeeps
<1>8. CASE Turns(s)
  <2>1. CASE Opens(s)
    <3>1. PICK u \in Uris, mode \in Modes : \E start \in 0..logged[u], cutoff \in {0, logged[u]} :
              /\ sub'[s] = Opened(u, mode, start, cutoff)
              /\ cutoff = logged[u] \/ start = logged[u]
      BY <2>1 DEF Opens
    <3>2. /\ sub'[s].uri = u /\ logged' = logged /\ logged[u] \in Nat
          /\ sub'[s].start = sub'[s].next /\ (sub'[s].cutoff = logged[u] \/ sub'[s].start = logged[u])
      BY <1>0, <1>8, <3>1 DEF Turns, Opened, StreamTypes
    <3> QED BY <1>1, <3>2 DEF OpenStates
  <2>2. CASE Begins(s)
    <3>1. PICK start \in Nat : sub'[s] = Opened(sub[s].uri, sub[s].mode, start, logged[sub[s].uri])
      BY <2>2 DEF Begins
    <3>2. /\ sub'[s].uri = sub[s].uri /\ logged' = logged
          /\ sub'[s].start = sub'[s].next /\ sub'[s].cutoff = logged[sub[s].uri]
      BY <1>8, <3>1 DEF Turns, Opened
    <3> QED BY <1>1, <3>2 DEF OpenStates
  <2>3. CASE Replays(s)
    <3>1. /\ sub[s] \in OpenStates /\ sub[s].phase = "open" /\ sub[s].next < sub[s].cutoff
          /\ sub'[s] = [sub[s] EXCEPT !.next = @ + 1]
          /\ got'[s] = Append(got[s], [uri |-> sub[s].uri, index |-> sub[s].next])
      BY <2>3 DEF Replays
    <3>2. PICK e \in Payloads : e = [uri |-> sub[s].uri, index |-> sub[s].next]
      BY <3>1 DEF Payloads, OpenStates
    <3>3. /\ sub'[s].uri = sub[s].uri /\ sub'[s].mode = sub[s].mode /\ sub'[s].start = sub[s].start
          /\ sub'[s].next = sub[s].next + 1 /\ sub'[s].cutoff = sub[s].cutoff
      BY <3>1 DEF OpenStates
    <3>4. OwnIndices(s)' = OwnIndices(s) \cup {sub[s].next}
      BY <1>0, <3>1, <3>2, <3>3, OwnAppended
    <3>5. logged' = logged /\ Coming(s)' = Coming(s) /\ queue'[s] = queue[s]
      BY <1>8, <2>3 DEF Turns, Replays, Opens, Announces, Begins
    <3>6. InQueue(s, i)' <=> InQueue(s, i)
      BY <3>3, <3>5 DEF InQueue
    <3>7. \/ i \in OwnIndices(s)
          \/ sub[s].next <= i /\ i < sub[s].cutoff
          \/ i >= sub[s].cutoff /\ (InQueue(s, i) \/ i \in Coming(s))
      BY <3>1, <3>3, <3>5 DEF KeepsAll
    <3>8. sub[s].next <= i => i = sub[s].next \/ sub[s].next + 1 <= i
      BY <1>3, <3>1 DEF OpenStates
    <3> QED BY <3>3, <3>4, <3>5, <3>6, <3>7, <3>8
  <2>4. ~Announces(s)
    <3>1. Announces(s) => sub'[s].phase = "early"
      BY DEF Announces
    <3> QED BY <3>1
  <2> QED BY <1>8, <2>1, <2>2, <2>3, <2>4 DEF Turns
<1> QED BY <1>2, <1>4, <1>5, <1>6, <1>7, <1>8

LEMMA QueuedPayload ==
    ASSUME StreamTypes, NEW s \in Subs, NEW i, InQueue(s, i)
    PROVE  [uri |-> sub[s].uri, index |-> i] \in ToSet(queue[s])
<1>1. PICK k \in DOMAIN queue[s] : queue[s][k].uri = sub[s].uri /\ queue[s][k].index = i
  BY DEF InQueue
<1>2. queue[s] \in Seq(Payloads)
  BY DEF StreamTypes
<1>3. k \in 1..Len(queue[s])
  BY <1>2, LenProperties
<1>4. queue[s][k] \in [uri : Uris, index : Nat]
  BY <1>2, <1>3, ElementOfSeq DEF Payloads
<1>5. queue[s][k] = [uri |-> sub[s].uri, index |-> i]
  BY <1>1, <1>4
<1> QED BY <1>5 DEF ToSet

LEMMA WiredInit == StreamInit => Wired
<1> SUFFICES ASSUME StreamInit PROVE Wired
  OBVIOUS
<1>1. <<>> \in Seq(Subs) /\ <<>> \in Seq(Payloads) /\ <<>> \in Seq(Publishers) /\ <<>> \in Seq(Uris)
  OBVIOUS
<1>2. GraphTypeOK
  BY <1>1 DEF StreamInit, GraphInit, GraphTypeOK
<1>3. StreamTypes
  BY <1>1, <1>2 DEF StreamInit, StreamTypes, StreamStates
<1>4. \A s \in Subs : sub[s].phase = "new" /\ queue[s] = <<>> /\ got[s] = <<>> /\ putters[s] = <<>>
  BY DEF StreamInit
<1>5. Distinct(<<>>) /\ ToSet(<<>>) = {} /\ Logged(<<>>)
  BY DEF Distinct, ToSet, Logged
<1>6. Registered
  BY <1>4, <1>5 DEF StreamInit, Registered
<1>7. Quiet
  BY <1>4 DEF Quiet
<1>8. Within
  BY <1>4, <1>5 DEF Within
<1>9. Carrying = {}
  BY <1>4, <1>5 DEF StreamInit, Carrying, Waiting
<1> QED BY <1>3, <1>6, <1>7, <1>8, <1>9 DEF Wired, Carried

\* The streams take nothing away from the graph: a behaviour of the loop is one of the
\* links, so the DAG that entangle guards stays one whatever the publishers do.
THEOREM StreamsKeepGraph == StreamSpec => GraphSpec /\ []Acyclic
<1>1. StreamInit => GraphInit
  BY DEF StreamInit
<1>2. [StreamNext]_vars => [Entangle]_graphVars
  <2> SUFFICES ASSUME [StreamNext]_vars PROVE [Entangle]_graphVars
    OBVIOUS
  <2>1. CASE UNCHANGED vars
    BY <2>1 DEF vars
  <2>2. CASE AddEntanglement
    BY <2>2 DEF AddEntanglement
  <2>3. ASSUME NEW u \in Uris, Patch(u) PROVE UNCHANGED graphVars
    BY <2>3 DEF Patch
  <2>4. CASE LoopStep
    BY <2>4 DEF LoopStep, RunNext, NextList, EnqueueNext, PublishDone
  <2>5. ASSUME NEW s \in Subs, ClientStep(s) \/ Close(s) \/ Abandon(s) PROVE UNCHANGED graphVars
    BY <2>5 DEF ClientStep, Replay, Take, Begin, Close, Abandon
  <2>6. ASSUME NEW s \in Subs, NEW u \in Uris, NEW mode \in Modes,
               Project(s, u, mode) \/ \E replay \in BOOLEAN : \E start \in 0..logged[u] : Subscribe(s, u, mode, start, replay)
        PROVE  UNCHANGED graphVars
    BY <2>6 DEF Project, Subscribe
  <2> QED BY <2>1, <2>2, <2>3, <2>4, <2>5, <2>6 DEF StreamNext
<1> QED BY <1>1, <1>2, DagForever, PTL DEF StreamSpec, GraphSpec

\* The queues, publishers, streams and registrations keep their types.
THEOREM StreamsTyped == StreamSpec => []StreamTypes
<1>1. StreamInit => Wired
  BY WiredInit
<1>2. Wired /\ [StreamNext]_vars => Wired'
  BY WiredNext
<1>3. Wired => StreamTypes
  BY DEF Wired
<1> QED BY <1>1, <1>2, <1>3, PTL DEF StreamSpec

LossInv == Wired /\ \A s \in Subs : sub[s].phase = "open" /\ sub[s].mode = "block" => KeepsAll(s)

\* A blocking stream loses nothing: every event of its object from its cursor on was
\* received, is still to be replayed, is in its queue or is on its way, whichever
\* publishers were on their way when it changed from replay to live.
THEOREM NothingIsLost == StreamSpec => []NothingLost
<1>1. StreamInit => LossInv
  BY WiredInit DEF LossInv, StreamInit
<1>2. LossInv /\ [StreamNext]_vars => LossInv'
  <2> SUFFICES ASSUME LossInv, [StreamNext]_vars PROVE LossInv'
    OBVIOUS
  <2>1. Wired'
    BY WiredNext DEF LossInv
  <2>2. \A s \in Subs : sub'[s].phase = "open" /\ sub'[s].mode = "block" => KeepsAll(s)'
    BY KeepsAllNext DEF LossInv
  <2> QED BY <2>1, <2>2 DEF LossInv
<1>3. LossInv => NothingLost
  <2> SUFFICES ASSUME LossInv, NEW s \in OpenIn("block"), NEW i \in sub[s].start..(logged[sub[s].uri] - 1)
               PROVE  \/ i \in OwnIndices(s)
                      \/ sub[s].next <= i /\ i < sub[s].cutoff
                      \/ [uri |-> sub[s].uri, index |-> i] \in ToSet(queue[s])
                      \/ StillToCome(s, i)
    BY DEF NothingLost
  <2>1. s \in Subs /\ KeepsAll(s)
    BY DEF LossInv, OpenIn, Open
  <2>2. InQueue(s, i) => [uri |-> sub[s].uri, index |-> i] \in ToSet(queue[s])
    BY <2>1, QueuedPayload DEF LossInv, Wired
  <2> QED BY <2>1, <2>2, ComingIsStillToCome DEF KeepsAll
<1> QED BY <1>1, <1>2, <1>3, PTL DEF StreamSpec

-------------------------------------------------------------------------------
\* No event twice.

OwnQueued(s) == {k \in DOMAIN queue[s] : queue[s][k].uri = sub[s].uri}

\* What is in the queue of a stream, on its way to it and received by it does not meet.
QueuedOnce(s) ==
    /\ \A k, l \in OwnQueued(s) : k # l => queue[s][k].index # queue[s][l].index
    /\ \A k \in OwnQueued(s) : queue[s][k].index \notin Coming(s)

ReceivedOnce(s) ==
    /\ \A i, j \in Own(s) : i # j => got[s][i].index # got[s][j].index
    /\ \A i \in OwnIndices(s) : i >= sub[s].cutoff \/ i < sub[s].next
    /\ \A k \in OwnQueued(s) : queue[s][k].index >= sub[s].cutoff => queue[s][k].index \notin OwnIndices(s)
    /\ \A i \in Coming(s) : i >= sub[s].cutoff => i \notin OwnIndices(s)

Once(s) ==
    Active(s) /\ ~SelfLinked(sub[s].uri) => QueuedOnce(s) /\ (sub[s].phase = "open" => ReceivedOnce(s))

\* The queue after a payload was handed to the stream: what is kept of it moved up by d
\* places, and the payload, if it is there, is the last one.
LEMMA ReceivesInto ==
    ASSUME StreamTypes, NEW s \in Subs, Receives(s)
    PROVE  /\ Payload(running) \in Payloads
           /\ Payload(running).uri = running.uri /\ Payload(running).index = running.index
           /\ Len(queue[s]) \in Nat /\ DOMAIN queue[s] = 1..Len(queue[s])
           /\ \E d \in Nat : \A k \in DOMAIN queue'[s] :
                 /\ k \in Nat
                 /\ \/ k + d \in DOMAIN queue[s] /\ queue'[s][k] = queue[s][k + d]
                    \/ k + d = Len(queue[s]) + 1 /\ queue'[s][k] = Payload(running)
<1>1. /\ Payload(running) \in Payloads /\ Payload(running).uri = running.uri
      /\ Payload(running).index = running.index
  BY DEF Receives, Payload, Payloads, Publishers
<1>2. PICK t \in Seq(Payloads), e \in Payloads : t = queue[s] /\ e = Payload(running)
  BY <1>1 DEF StreamTypes
<1>3. DOMAIN t = 1..Len(t) /\ Len(t) \in Nat
  BY <1>2
<1> DEFINE Moved(d) == \A k \in DOMAIN queue'[s] :
              /\ k \in Nat
              /\ \/ k + d \in DOMAIN queue[s] /\ queue'[s][k] = queue[s][k + d]
                 \/ k + d = Len(queue[s]) + 1 /\ queue'[s][k] = Payload(running)
<1>4. ASSUME queue'[s] = queue[s] PROVE Moved(0)
  <2>1. \A k \in DOMAIN t : k \in Nat /\ k + 0 = k
    BY <1>3
  <2> QED BY <1>2, <1>4, <2>1
<1>5. ASSUME queue'[s] = Append(queue[s], Payload(running)) PROVE Moved(0)
  <2>1. /\ DOMAIN Append(t, e) = 1..(Len(t) + 1)
        /\ Append(t, e)[Len(t) + 1] = e /\ \A i \in 1..Len(t) : Append(t, e)[i] = t[i]
    OBVIOUS
  <2>2. \A k \in DOMAIN Append(t, e) : k \in Nat /\ k + 0 = k /\ (k \in 1..Len(t) \/ k = Len(t) + 1)
    BY <1>3, <2>1
  <2> QED BY <1>2, <1>3, <1>5, <2>1, <2>2
<1>6. ASSUME queue'[s] = Append(Tail(queue[s]), Payload(running)), queue[s] # <<>> PROVE Moved(1)
  <2>1. PICK w \in Seq(Payloads) : w = Tail(t)
    BY <1>2, <1>6, HeadTailProperties
  <2>2. Len(w) = Len(t) - 1 /\ Len(w) \in Nat /\ \A i \in 1..Len(w) : w[i] = t[i + 1]
    BY <1>2, <1>6, <2>1, HeadTailProperties
  <2>3. PICK x \in Seq(Payloads) : x = Append(w, e)
    BY AppendedElements
  <2>4. DOMAIN x = 1..(Len(w) + 1) /\ x[Len(w) + 1] = e /\ \A i \in 1..Len(w) : x[i] = w[i]
    BY <2>3
  <2>5. ASSUME NEW k \in DOMAIN x
        PROVE  /\ k \in Nat
               /\ (k + 1 \in DOMAIN t /\ x[k] = t[k + 1]) \/ (k + 1 = Len(t) + 1 /\ x[k] = e)
    <3>1. k \in Nat /\ (k = Len(w) + 1 \/ k \in 1..Len(w))
      BY <2>2, <2>4
    <3>2. k = Len(w) + 1 => k + 1 = Len(t) + 1
      BY <1>3, <2>2
    <3>3. k \in 1..Len(w) => k + 1 \in 1..Len(t)
      BY <1>3, <2>2
    <3> QED BY <1>3, <2>2, <2>4, <3>1, <3>2, <3>3
  <2>6. queue'[s] = x
    BY <1>2, <1>6, <2>1, <2>3
  <2> QED BY <1>2, <2>5, <2>6
<1>7. \E d \in Nat : Moved(d)
  BY <1>4, <1>5, <1>6 DEF Receives
<1> QED BY <1>1, <1>2, <1>3, <1>7

LEMMA OnceReceives ==
    ASSUME Wired, Wired', Apart, NEW s \in Subs, Active(s), ~SelfLinked(sub[s].uri), Once(s), Receives(s)
    PROVE  Once(s)'
<1>0. sub'[s] = sub[s] /\ got'[s] = got[s] /\ Own(s)' = Own(s) /\ OwnIndices(s)' = OwnIndices(s)
  BY OwnSame DEF Receives
<1>1. PICK d \in Nat : \A k \in DOMAIN queue'[s] :
          /\ k \in Nat
          /\ \/ k + d \in DOMAIN queue[s] /\ queue'[s][k] = queue[s][k + d]
             \/ k + d = Len(queue[s]) + 1 /\ queue'[s][k] = Payload(running)
  BY ReceivesInto DEF Wired
<1>2. /\ Payload(running).uri = running.uri /\ Payload(running).index = running.index
      /\ Len(queue[s]) \in Nat /\ DOMAIN queue[s] = 1..Len(queue[s])
  BY ReceivesInto DEF Wired
<1>3. QueuedOnce(s) /\ (sub[s].phase = "open" => ReceivedOnce(s))
  BY DEF Once
\* The payload, when it is an event of the stream's object, was on its way until now.
<1>4. running.uri = sub[s].uri => running.index \in Coming(s) /\ running.index \notin Coming(s)'
  BY DEF Receives, SelfLinked
<1>5. Coming(s)' \subseteq Coming(s)
  BY DEF Receives
<1>6. \A k \in OwnQueued(s)' :
          /\ k \in Nat
          /\ \/ k + d \in OwnQueued(s) /\ queue'[s][k] = queue[s][k + d]
             \/ k + d = Len(queue[s]) + 1 /\ running.uri = sub[s].uri /\ queue'[s][k].index = running.index
  BY <1>0, <1>1, <1>2 DEF OwnQueued
<1>7. QueuedOnce(s)'
  <2>1. ASSUME NEW k \in OwnQueued(s)', NEW l \in OwnQueued(s)', k # l
        PROVE  queue'[s][k].index # queue'[s][l].index
    <3>1. k \in Nat /\ l \in Nat /\ k + d # l + d
      BY <1>6, <2>1
    <3> QED BY <1>3, <1>4, <1>6, <3>1 DEF QueuedOnce
  <2>2. ASSUME NEW k \in OwnQueued(s)' PROVE queue'[s][k].index \notin Coming(s)'
    BY <1>3, <1>4, <1>5, <1>6 DEF QueuedOnce
  <2> QED BY <2>1, <2>2 DEF QueuedOnce
<1>8. ASSUME sub[s].phase = "open" PROVE ReceivedOnce(s)'
  <2>1. ReceivedOnce(s)
    BY <1>3, <1>8
  <2>2. \A k \in OwnQueued(s)' : queue'[s][k].index >= sub'[s].cutoff => queue'[s][k].index \notin OwnIndices(s)'
    BY <1>0, <1>4, <1>6, <2>1 DEF ReceivedOnce
  <2>3. \A i \in Coming(s)' : i >= sub'[s].cutoff => i \notin OwnIndices(s)'
    BY <1>0, <1>5, <2>1 DEF ReceivedOnce
  <2>4. \A i, j \in Own(s)' : i # j => got'[s][i].index # got'[s][j].index
    BY <1>0, <2>1 DEF ReceivedOnce
  <2>5. \A i \in OwnIndices(s)' : i >= sub'[s].cutoff \/ i < sub'[s].next
    BY <1>0, <2>1 DEF ReceivedOnce
  <2> QED BY <2>2, <2>3, <2>4, <2>5 DEF ReceivedOnce
<1> QED BY <1>0, <1>7, <1>8 DEF Once

LEMMA OnceGets ==
    ASSUME Wired, Wired', NEW s \in Subs, ~SelfLinked(sub[s].uri), Once(s), Gets(s)
    PROVE  Once(s)'
<1>0. /\ sub'[s] = sub[s] /\ Coming(s)' = Coming(s) /\ sub[s].phase = "open" /\ sub[s] \in OpenStates
      /\ StreamTypes
  BY GetsFrom DEF Gets, Wired
<1>1. PICK n \in 1..Len(queue[s]) :
          /\ queue[s][n] \in Payloads
          /\ \/ ~Passes(s, queue[s][n]) /\ got'[s] = got[s]
             \/ Passes(s, queue[s][n]) /\ got'[s] = Append(got[s], queue[s][n])
          /\ DOMAIN queue'[s] = 1..(Len(queue[s]) - n) /\ DOMAIN queue[s] = 1..Len(queue[s])
          /\ \A i \in DOMAIN queue'[s] : n + i \in DOMAIN queue[s] /\ queue'[s][i] = queue[s][n + i]
  BY GetsFrom DEF Wired
<1>2. QueuedOnce(s) /\ ReceivedOnce(s)
  BY <1>0 DEF Once, Active
<1>3. Len(queue[s]) \in Nat
  BY <1>0 DEF StreamTypes
<1>4. \A k \in OwnQueued(s)' : k \in Nat /\ k > 0 /\ n + k \in OwnQueued(s) /\ queue'[s][k] = queue[s][n + k]
  BY <1>0, <1>1, <1>3 DEF OwnQueued
<1>5. QueuedOnce(s)'
  <2>1. ASSUME NEW k \in OwnQueued(s)', NEW l \in OwnQueued(s)', k # l
        PROVE  queue'[s][k].index # queue'[s][l].index
    <3>1. n + k # n + l
      BY <1>4, <2>1
    <3> QED BY <1>2, <1>4, <3>1 DEF QueuedOnce
  <2>2. ASSUME NEW k \in OwnQueued(s)' PROVE queue'[s][k].index \notin Coming(s)'
    BY <1>0, <1>2, <1>4 DEF QueuedOnce
  <2> QED BY <2>1, <2>2 DEF QueuedOnce
<1>6. CASE got'[s] = got[s]
  <2>1. Own(s)' = Own(s) /\ OwnIndices(s)' = OwnIndices(s)
    BY <1>0, <1>6, OwnSame
  <2>2. \A k \in OwnQueued(s)' : queue'[s][k].index >= sub'[s].cutoff => queue'[s][k].index \notin OwnIndices(s)'
    BY <1>0, <1>2, <1>4, <2>1 DEF ReceivedOnce
  <2>3. ReceivedOnce(s)'
    BY <1>0, <1>2, <1>6, <2>1, <2>2 DEF ReceivedOnce
  <2> QED BY <1>0, <1>5, <2>3 DEF Once
<1>7. CASE Passes(s, queue[s][n]) /\ got'[s] = Append(got[s], queue[s][n])
  <2> DEFINE e == queue[s][n]
             m == Len(got[s]) + 1
  <2>1. /\ Len(got[s]) \in Nat /\ DOMAIN got[s] = 1..Len(got[s])
        /\ \A i \in DOMAIN got[s] : got'[s][i] = got[s][i]
        /\ got'[s][m] = e
        /\ Own(s)' = Own(s) \cup (IF e.uri = sub[s].uri THEN {m} ELSE {})
        /\ OwnIndices(s)' = OwnIndices(s) \cup (IF e.uri = sub[s].uri THEN {e.index} ELSE {})
    BY <1>0, <1>1, <1>7, OwnAppended
  <2>2. e.index >= sub[s].cutoff
    BY <1>7 DEF Passes
  <2>3. e.uri = sub[s].uri => n \in OwnQueued(s) /\ e.index \notin OwnIndices(s) /\ e.index \notin Coming(s)
    BY <1>1, <1>2, <2>2 DEF OwnQueued, QueuedOnce, ReceivedOnce
  <2>4. \A i \in Own(s) : i \in DOMAIN got[s] /\ got'[s][i] = got[s][i] /\ got[s][i].index \in OwnIndices(s)
    BY <2>1 DEF Own, OwnIndices
  <2> HIDE DEF e, m
  <2>5. \A i, j \in Own(s)' : i # j => got'[s][i].index # got'[s][j].index
    BY <1>2, <2>1, <2>3, <2>4 DEF ReceivedOnce
  <2>6. \A i \in OwnIndices(s)' : i >= sub'[s].cutoff \/ i < sub'[s].next
    BY <1>0, <1>2, <2>1, <2>2 DEF ReceivedOnce
  <2>7. ASSUME NEW k \in OwnQueued(s)', queue'[s][k].index >= sub'[s].cutoff
        PROVE  queue'[s][k].index \notin OwnIndices(s)'
    <3>1. n + k \in OwnQueued(s) /\ queue'[s][k] = queue[s][n + k] /\ n + k # n
      BY <1>4
    <3>2. queue[s][n + k].index \notin OwnIndices(s)
      BY <1>0, <1>2, <2>7, <3>1 DEF ReceivedOnce
    <3>3. e.uri = sub[s].uri => queue[s][n + k].index # e.index
      BY <1>2, <2>3, <3>1 DEF QueuedOnce, e
    <3> QED BY <2>1, <3>1, <3>2, <3>3
  <2>8. \A i \in Coming(s)' : i >= sub'[s].cutoff => i \notin OwnIndices(s)'
    BY <1>0, <1>2, <2>1, <2>3 DEF ReceivedOnce
  <2>9. ReceivedOnce(s)'
    BY <2>5, <2>6, <2>7, <2>8 DEF ReceivedOnce
  <2> QED BY <1>0, <1>5, <2>9 DEF Once
<1> QED BY <1>1, <1>6, <1>7

LEMMA OnceTurns ==
    ASSUME Wired, Wired', NEW s \in Subs, Active(s) => ~SelfLinked(sub[s].uri), Once(s), Turns(s)
    PROVE  Once(s)'
<1>0. StreamTypes /\ queue'[s] = queue[s]
  BY DEF Wired, Turns
<1>1. ASSUME got[s] = <<>>, got' = got PROVE OwnIndices(s)' = {} /\ Own(s)' = {}
  BY <1>1 DEF Own, OwnIndices
<1>2. ASSUME sub[s].phase = "new" PROVE QueuedOnce(s)' /\ OwnQueued(s)' = {} /\ got[s] = <<>>
  <2>1. queue'[s] = <<>> /\ got[s] = <<>>
    BY <1>0, <1>2 DEF Wired, Quiet
  <2> QED BY <2>1 DEF QueuedOnce, OwnQueued
<1>3. CASE Opens(s)
  <2>1. sub[s].phase = "new" /\ got' = got
    BY <1>3 DEF Opens
  <2>2. OwnIndices(s)' = {} /\ Own(s)' = {} /\ QueuedOnce(s)'
    BY <1>1, <1>2, <2>1
  <2>3. ReceivedOnce(s)'
    BY <2>2 DEF ReceivedOnce
  <2> QED BY <2>2, <2>3 DEF Once
<1>4. CASE Announces(s)
  <2>1. QueuedOnce(s)'
    BY <1>2, <1>4 DEF Announces
  <2>2. sub'[s].phase = "early"
    BY <1>4 DEF Announces
  <2> QED BY <2>1, <2>2 DEF Once
<1>5. CASE Begins(s) /\ Coming(s)' = Coming(s)
  <2>1. /\ sub[s].phase = "early" /\ got' = got /\ got[s] = <<>> /\ sub'[s].uri = sub[s].uri
    BY <1>5 DEF Begins, Opened, Wired, Quiet
  <2>2. OwnIndices(s)' = {} /\ Own(s)' = {}
    BY <1>1, <2>1
  <2>3. QueuedOnce(s)'
    BY <1>0, <1>5, <2>1 DEF QueuedOnce, OwnQueued, Once, Active
  <2>4. ReceivedOnce(s)'
    BY <2>2 DEF ReceivedOnce
  <2> QED BY <2>3, <2>4 DEF Once
<1>6. CASE Replays(s) /\ Coming(s)' = Coming(s)
  <2>1. /\ sub[s] \in OpenStates /\ sub[s].phase = "open" /\ sub[s].next < sub[s].cutoff
        /\ sub'[s] = [sub[s] EXCEPT !.next = @ + 1]
        /\ got'[s] = Append(got[s], [uri |-> sub[s].uri, index |-> sub[s].next])
    BY <1>6 DEF Replays
  <2>2. PICK e \in Payloads : e = [uri |-> sub[s].uri, index |-> sub[s].next]
    BY <2>1 DEF Payloads, OpenStates
  <2>3. /\ sub'[s].uri = sub[s].uri /\ sub'[s].next = sub[s].next + 1 /\ sub'[s].cutoff = sub[s].cutoff
        /\ sub[s].next \in Nat /\ sub[s].cutoff \in Nat
    BY <2>1 DEF OpenStates
  <2>4. QueuedOnce(s) /\ ReceivedOnce(s)
    BY <2>1 DEF Once, Active
  <2> DEFINE m == Len(got[s]) + 1
  <2>5. /\ Len(got[s]) \in Nat /\ DOMAIN got[s] = 1..Len(got[s])
        /\ \A i \in DOMAIN got[s] : got'[s][i] = got[s][i]
        /\ got'[s][m] = e
        /\ Own(s)' = Own(s) \cup {m} /\ OwnIndices(s)' = OwnIndices(s) \cup {sub[s].next}
    BY <1>0, <2>1, <2>2, <2>3, OwnAppended
  <2>6. \A i \in Own(s) : i \in DOMAIN got[s] /\ got'[s][i] = got[s][i] /\ got[s][i].index \in OwnIndices(s)
    BY <2>5 DEF Own, OwnIndices
  <2>7. sub[s].next \notin OwnIndices(s) /\ OwnIndices(s) \subseteq Nat
    <3>1. \A i \in DOMAIN got[s] : got[s][i].index \in Nat
      <4>1. \A i \in 1..Len(got[s]) : got[s][i] \in Payloads
        BY <1>0, ElementOfSeq DEF StreamTypes
      <4> QED BY <2>5, <4>1 DEF Payloads
    <3>2. OwnIndices(s) \subseteq Nat
      BY <3>1 DEF OwnIndices, Own
    <3>3. \A i \in OwnIndices(s) : i >= sub[s].cutoff \/ i < sub[s].next
      BY <2>4 DEF ReceivedOnce
    <3> QED BY <2>1, <2>3, <3>2, <3>3
  <2> HIDE DEF m
  <2>8. \A i, j \in Own(s)' : i # j => got'[s][i].index # got'[s][j].index
    BY <2>2, <2>4, <2>5, <2>6, <2>7 DEF ReceivedOnce
  <2>9. \A i \in OwnIndices(s)' : i >= sub'[s].cutoff \/ i < sub'[s].next
    BY <2>3, <2>4, <2>5, <2>7 DEF ReceivedOnce
  <2>10. OwnQueued(s)' = OwnQueued(s) /\ \A k \in OwnQueued(s) : queue'[s][k].index = queue[s][k].index
    BY <1>0, <2>3 DEF OwnQueued
  <2>11. sub[s].next >= sub[s].cutoff <=> FALSE
    BY <2>1, <2>3
  <2>12. \A k \in OwnQueued(s)' : queue'[s][k].index >= sub'[s].cutoff => queue'[s][k].index \notin OwnIndices(s)'
    BY <2>3, <2>4, <2>5, <2>10, <2>11 DEF ReceivedOnce
  <2>13. \A i \in Coming(s)' : i >= sub'[s].cutoff => i \notin OwnIndices(s)'
    BY <1>6, <2>3, <2>4, <2>5, <2>11 DEF ReceivedOnce
  <2>14. QueuedOnce(s)'
    BY <1>6, <2>4, <2>10 DEF QueuedOnce
  <2>15. ReceivedOnce(s)'
    BY <2>8, <2>9, <2>12, <2>13 DEF ReceivedOnce
  <2> QED BY <2>14, <2>15 DEF Once
<1> QED BY <1>3, <1>4, <1>5, <1>6 DEF Turns

LEMMA OnceNext ==
    ASSUME Wired, Apart, [StreamNext]_vars, NEW s \in Subs, Once(s)
    PROVE  Once(s)'
<1>0. StreamTypes /\ Wired' /\ Grows
  BY WiredNext, TypesNext DEF Wired
<1> SUFFICES ASSUME Active(s)', ~SelfLinked(sub[s].uri)' PROVE Once(s)'
  BY DEF Once
<1>1. Active(s) => ~SelfLinked(sub[s].uri)
  <2> SUFFICES ASSUME Active(s) PROVE ~SelfLinked(sub[s].uri)
    OBVIOUS
  <2>1. sub'[s].uri = sub[s].uri /\ sub[s].uri \in Uris
    BY <1>0, PhasesOfStreams DEF Active, Grows, StreamTypes
  <2> QED BY <1>0, <2>1 DEF SelfLinked, Grows
<1>2. Same(s) \/ Learns(s) \/ Receives(s) \/ Gets(s) \/ Turns(s)
  BY Views
<1>3. CASE Same(s)
  <2>1. sub'[s] = sub[s] /\ OwnQueued(s)' = OwnQueued(s) /\ queue'[s] = queue[s]
    BY <1>3 DEF Same, OwnQueued
  <2>2. Own(s)' = Own(s) /\ OwnIndices(s)' = OwnIndices(s) /\ got'[s] = got[s] /\ Coming(s)' = Coming(s)
    BY <1>3, <2>1, OwnSame DEF Same
  <2>3. QueuedOnce(s) /\ (sub[s].phase = "open" => ReceivedOnce(s))
    BY <1>1, <2>1 DEF Once, Active
  <2>4. QueuedOnce(s)'
    BY <2>1, <2>2, <2>3 DEF QueuedOnce
  <2>5. sub'[s].phase = "open" => ReceivedOnce(s)'
    BY <2>1, <2>2, <2>3 DEF ReceivedOnce
  <2> QED BY <2>4, <2>5 DEF Once
<1>4. CASE Learns(s)
  <2>1. sub'[s] = sub[s] /\ OwnQueued(s)' = OwnQueued(s) /\ queue'[s] = queue[s]
    BY <1>4 DEF Learns, OwnQueued
  <2>2. /\ Own(s)' = Own(s) /\ OwnIndices(s)' = OwnIndices(s) /\ got'[s] = got[s]
        /\ Coming(s)' = Coming(s) \cup {logged[sub[s].uri]}
    BY <1>4, <2>1, OwnSame DEF Learns
  <2>3. QueuedOnce(s) /\ (sub[s].phase = "open" => ReceivedOnce(s))
    BY <1>1, <2>1 DEF Once, Active
  <2>4. logged[sub[s].uri] \in Nat
    BY <1>0, <2>1, PhasesOfStreams DEF StreamTypes, Active
  \* The new event is neither in the queue nor with the client.
  <2>5. \A k \in OwnQueued(s) : queue[s][k].index < logged[sub[s].uri]
    BY DEF OwnQueued, Wired, Within, Logged
  <2>6. \A i \in OwnIndices(s) : i < logged[sub[s].uri]
    BY DEF OwnIndices, Own, Wired, Within, Logged
  <2>7. logged[sub[s].uri] \notin OwnIndices(s) /\ \A k \in OwnQueued(s) : queue[s][k].index # logged[sub[s].uri]
    BY <2>4, <2>5, <2>6
  <2>8. QueuedOnce(s)'
    BY <2>1, <2>2, <2>3, <2>7 DEF QueuedOnce
  <2>9. sub'[s].phase = "open" => ReceivedOnce(s)'
    BY <2>1, <2>2, <2>3, <2>7 DEF ReceivedOnce
  <2> QED BY <2>8, <2>9 DEF Once
<1>5. CASE Receives(s)
  <2>1. Active(s)
    BY <1>5 DEF Receives, Active
  <2> QED BY <1>0, <1>1, <1>5, <2>1, OnceReceives
<1>6. CASE Gets(s)
  <2>1. Active(s)
    BY <1>6 DEF Gets, Active
  <2> QED BY <1>0, <1>1, <1>6, <2>1, OnceGets
<1>7. CASE Turns(s)
  BY <1>0, <1>1, <1>7, OnceTurns
<1> QED BY <1>2, <1>3, <1>4, <1>5, <1>6, <1>7

OnceInv == Wired /\ Apart /\ \A s \in Subs : Once(s)

LEMMA OnceInvHolds == StreamSpec => []OnceInv
<1>1. StreamInit => OnceInv
  <2>1. StreamInit => \A s \in Subs : sub[s].phase = "new"
    BY DEF StreamInit
  <2> QED BY <2>1, WiredInit, ApartInit DEF OnceInv, Once, Active
<1>2. OnceInv /\ [StreamNext]_vars => OnceInv'
  BY WiredNext, ApartNext, OnceNext DEF OnceInv
<1> QED BY <1>1, <1>2, PTL DEF StreamSpec

\* No client receives an event of its object twice, whatever was on its way when it
\* subscribed and whatever the modes; an object linked to itself is the exception.
THEOREM NoneTwice == StreamSpec => []NoDuplicates
<1>1. OnceInv => NoDuplicates
  BY DEF OnceInv, Once, ReceivedOnce, Active, NoDuplicates, Open
<1> QED BY <1>1, OnceInvHolds, PTL

-------------------------------------------------------------------------------
\* Order, and the latest event, where no stream blocks.

LEMMA NoBlockingBefore ==
    ASSUME StreamTypes, [StreamNext]_vars, NoBlocking'
    PROVE  NoBlocking
BY TypesNext DEF NoBlocking, Grows

\* The publishers run in the order of their events, and none waits.
Lined ==
    /\ \A s \in Subs : putters[s] = <<>>
    /\ \A i, j \in DOMAIN ready : i < j /\ ready[i].uri = ready[j].uri => ready[i].index < ready[j].index
    /\ running # None => \A p \in ToSet(ready) : p.uri = running.uri => running.index < p.index

LEMMA NobodyWaits ==
    ASSUME Wired, NoBlocking, NEW h \in Subs, running \in Publishers, running.todo # <<>>, h = Head(running.todo)
    PROVE  ~WaitsFor(h)
<1>1. running # None
  BY NoneAssumption
<1>2. Fits(running)
  BY <1>1, CarryingParts DEF Wired, Carried
<1>3. h \in ToSet(running.todo)
  BY TailElements DEF Publishers
<1> QED BY <1>2, <1>3 DEF Fits, NoBlocking, WaitsFor

LEMMA LinedNext ==
    ASSUME Wired, Lined, NoBlocking, [StreamNext]_vars
    PROVE  Lined'
<1>0. StreamTypes /\ StreamTypes'
  BY TypesNext DEF Wired
<1>1. CASE UNCHANGED <<ready, putters, running>>
  BY <1>1 DEF Lined
<1>2. ASSUME NEW u \in Uris, Patch(u) PROVE Lined'
  <2>1. PICK n \in Publishers, r \in Seq(Publishers) : n = NewPublisher(u, logged[u]) /\ r = ready
    BY <1>0, <1>2, PatchTypes DEF StreamTypes
  <2>2. n.uri = u /\ n.index = logged[u]
    BY <2>1 DEF NewPublisher
  <2>3. ready' = Append(r, n) /\ UNCHANGED <<putters, running>>
    BY <1>2, <2>1 DEF Patch
  <2>4. \A p \in Carrying : p.uri = u => p.index < n.index
    BY <2>2 DEF Wired, Carried, Fits
  <2>5. ToSet(r) \subseteq Carrying /\ (running # None => running \in Carrying)
    BY <2>1 DEF Carrying
  <2>6. /\ DOMAIN ready' = 1..(Len(r) + 1) /\ DOMAIN r = 1..Len(r) /\ Len(r) \in Nat
        /\ ready'[Len(r) + 1] = n /\ \A i \in 1..Len(r) : ready'[i] = r[i]
    BY <2>3
  <2>7. ASSUME NEW i \in DOMAIN ready', NEW j \in DOMAIN ready', i < j, ready'[i].uri = ready'[j].uri
        PROVE  ready'[i].index < ready'[j].index
    <3>1. i \in DOMAIN r /\ ready'[i] = r[i] /\ r[i] \in ToSet(r)
      BY <2>6, <2>7 DEF ToSet
    <3>2. CASE j \in DOMAIN r
      BY <2>1, <2>6, <2>7, <3>1, <3>2 DEF Lined
    <3>3. CASE j = Len(r) + 1
      BY <2>2, <2>4, <2>5, <2>6, <2>7, <3>1, <3>3
    <3> QED BY <2>6, <3>2, <3>3
  <2>8. ToSet(ready') = ToSet(r) \cup {n}
    BY <2>3, AppendedElements
  <2>9. running # None => \A p \in ToSet(ready') : p.uri = running.uri => running.index < p.index
    BY <2>1, <2>2, <2>4, <2>5, <2>8 DEF Lined
  <2> QED BY <2>3, <2>7, <2>9 DEF Lined
<1>3. CASE RunNext
  <2>1. /\ ready \in Seq(Publishers) /\ ready # <<>> /\ running' = Head(ready) /\ ready' = Tail(ready)
        /\ putters' = putters
    BY <1>0, <1>3 DEF RunNext, StreamTypes
  <2>2. /\ DOMAIN ready = 1..Len(ready) /\ Len(ready) \in Nat \ {0} /\ DOMAIN ready' = 1..(Len(ready) - 1)
        /\ running' = ready[1] /\ \A i \in 1..(Len(ready) - 1) : ready'[i] = ready[i + 1]
    <3>1. /\ Tail(ready) \in Seq(Publishers) /\ Len(Tail(ready)) = Len(ready) - 1
          /\ \A i \in 1..Len(Tail(ready)) : Tail(ready)[i] = ready[i + 1]
      BY <2>1, HeadTailProperties
    <3>2. Len(ready) \in Nat \ {0}
      BY <2>1, EmptySeq
    <3> QED BY <2>1, <3>1, <3>2
  <2>3. \A i \in DOMAIN ready' : i \in Nat /\ i + 1 \in DOMAIN ready /\ 1 < i + 1 /\ ready'[i] = ready[i + 1]
    BY <2>2
  <2>4. \A i, j \in DOMAIN ready' : i < j /\ ready'[i].uri = ready'[j].uri => ready'[i].index < ready'[j].index
    <3>1. \A i, j \in DOMAIN ready' : i < j => i + 1 < j + 1
      BY <2>3
    <3> QED BY <2>3, <3>1 DEF Lined
  <2>5. \A p \in ToSet(ready') : p.uri = running'.uri => running'.index < p.index
    <3>1. 1 \in DOMAIN ready
      BY <2>2
    <3> QED BY <2>2, <2>3, <3>1 DEF Lined, ToSet
  <2> QED BY <2>1, <2>4, <2>5 DEF Lined
<1>4. CASE PublishDone
  BY <1>4 DEF PublishDone, Lined
<1>5. ASSUME running # None, running'.uri = running.uri, running'.index = running.index, UNCHANGED <<ready, putters>>
      PROVE  Lined'
  BY <1>5 DEF Lined
<1>6. CASE NextList
  <2>1. PICK u \in Uris : TakesUp(u)
    BY <1>0, <1>6, NextListEffect
  <2>2. running \in Publishers /\ running # None /\ UNCHANGED <<ready, putters>>
    BY <1>0, <1>6, NextListEffect
  <2> QED BY <1>0, <1>5, <2>1, <2>2, TookUp
<1>7. CASE EnqueueNext
  <2>1. PICK h \in Subs : h = Head(running.todo) /\ (HandsTo(h) \/ WaitsFor(h))
    BY <1>0, <1>7, EnqueueEffect
  <2>2. running \in Publishers /\ running # None /\ running.todo # <<>> /\ ready' = ready
    BY <1>0, <1>7, EnqueueEffect
  <2>3. HandsTo(h)
    BY <2>1, <2>2, NobodyWaits
  <2> QED BY <1>5, <2>2, <2>3, HandedOn DEF HandsTo
<1>8. ASSUME NEW s \in Subs, Take(s) PROVE Lined'
  <2>1. PICK gets \in 1..Len(queue[s]), woken \in 0..Len(putters[s]) :
          /\ TakenUpTo(s, gets, woken)
          /\ \A t \in Subs : putters'[t] = IF t = s THEN SubSeq(putters[s], woken + 1, Len(putters[s])) ELSE putters[t]
    BY <1>0, <1>8, TakeTypes
  <2>2. putters[s] = <<>> /\ Len(putters[s]) = 0 /\ woken = 0
    BY <2>1 DEF Lined
  <2>3. SubSeq(putters[s], 1, woken) = <<>> /\ SubSeq(putters[s], woken + 1, Len(putters[s])) = <<>>
    <3>1. woken \in Int /\ Len(putters[s]) \in Int /\ woken < 1 /\ Len(putters[s]) < woken + 1 /\ woken + 1 \in Int
      BY <2>2
    <3> QED BY <3>1, SubSeqEmpty
  <2>4. ready' = ready \o <<>> /\ putters'[s] = <<>>
    BY <2>1, <2>3 DEF TakenUpTo
  <2>5. ready' = ready
    BY <1>0, <2>4, ConcatEmptySeq DEF StreamTypes
  <2>6. running' = running
    BY <1>0, <1>8, TakeTypes
  <2> QED BY <2>1, <2>4, <2>5, <2>6 DEF Lined
<1>9. ASSUME NEW s \in Subs, Changes(s) PROVE UNCHANGED <<ready, putters, running>>
  BY <1>0, <1>9, ChangesEffect
<1>10. CASE UNCHANGED streamVars
  BY <1>1, <1>10 DEF streamVars
<1> QED BY <1>0, <1>1, <1>2, <1>3, <1>4, <1>6, <1>7, <1>8, <1>9, <1>10, StepKinds DEF LoopStep

\* The publisher that runs has the first of the events on their way.
LEMMA RunningIsFirst ==
    ASSUME Wired, Lined, NEW s \in Subs, running \in Publishers, Brings(running, s), NEW i \in Coming(s)
    PROVE  i = running.index \/ running.index < i
<1>1. \A t \in Subs : Waiting(t) = {}
  BY DEF Lined, Waiting, ToSet
<1>2. running # None
  BY NoneAssumption
<1>3. PICK p \in Carrying : p.index = i /\ p.uri = sub[s].uri
  BY DEF Coming, IndicesOf, Brings
<1>4. p = running \/ p \in ToSet(ready)
  BY <1>1, <1>2 DEF Carrying
<1> QED BY <1>2, <1>3, <1>4 DEF Lined, Brings

QueuedInOrder(s) ==
    /\ \A k, l \in OwnQueued(s) : k < l => queue[s][k].index < queue[s][l].index
    /\ \A k \in OwnQueued(s), i \in Coming(s) : queue[s][k].index < i

ReceivedInOrder(s) ==
    /\ \A i, j \in Own(s) : i < j => got[s][i].index < got[s][j].index
    /\ sub[s].next < sub[s].cutoff => \A i \in OwnIndices(s) : i < sub[s].next
    /\ \A k \in OwnQueued(s) : queue[s][k].index >= sub[s].cutoff => \A j \in OwnIndices(s) : j < queue[s][k].index
    /\ \A i \in Coming(s) : i >= sub[s].cutoff => \A j \in OwnIndices(s) : j < i

InOrder(s) ==
    Active(s) /\ ~SelfLinked(sub[s].uri) =>
        QueuedInOrder(s) /\ (sub[s].phase = "open" => ReceivedInOrder(s))

\* Indices are numbers.
LEMMA IndicesAreNumbers ==
    ASSUME Wired, NEW s \in Subs
    PROVE  /\ \A k \in OwnQueued(s) : k \in Nat /\ queue[s][k].index \in Nat
           /\ OwnIndices(s) \subseteq Nat /\ Coming(s) \subseteq Nat
           /\ \A i \in Own(s) : i \in Nat /\ got[s][i].index \in Nat /\ got[s][i].index \in OwnIndices(s)
<1>1. queue[s] \in Seq(Payloads) /\ got[s] \in Seq(Payloads)
  BY DEF Wired, StreamTypes
<1>2. DOMAIN queue[s] = 1..Len(queue[s]) /\ DOMAIN got[s] = 1..Len(got[s])
  BY <1>1
<1>3. /\ \A k \in 1..Len(queue[s]) : queue[s][k] \in Payloads
      /\ \A i \in 1..Len(got[s]) : got[s][i] \in Payloads
  BY <1>1, ElementOfSeq
<1>4. \A k \in OwnQueued(s) : k \in Nat /\ queue[s][k].index \in Nat
  BY <1>2, <1>3 DEF OwnQueued, Payloads
<1>5. \A i \in Own(s) : i \in Nat /\ got[s][i].index \in Nat /\ got[s][i].index \in OwnIndices(s)
  BY <1>2, <1>3 DEF Own, Payloads, OwnIndices
<1>6. OwnIndices(s) \subseteq Nat
  BY <1>5 DEF OwnIndices
<1>7. Coming(s) \subseteq Nat
  BY CarryingParts DEF Wired, Coming, IndicesOf, Publishers
<1> QED BY <1>4, <1>5, <1>6, <1>7

LEMMA OrderReceives ==
    ASSUME Wired, Wired', Apart, Lined, NEW s \in Subs, Active(s), ~SelfLinked(sub[s].uri), InOrder(s), Receives(s)
    PROVE  InOrder(s)'
<1>0. sub'[s] = sub[s] /\ got'[s] = got[s] /\ Own(s)' = Own(s) /\ OwnIndices(s)' = OwnIndices(s)
  BY OwnSame DEF Receives
<1>1. PICK d \in Nat : \A k \in DOMAIN queue'[s] :
          /\ k \in Nat
          /\ \/ k + d \in DOMAIN queue[s] /\ queue'[s][k] = queue[s][k + d]
             \/ k + d = Len(queue[s]) + 1 /\ queue'[s][k] = Payload(running)
  BY ReceivesInto DEF Wired
<1>2. /\ Payload(running).uri = running.uri /\ Payload(running).index = running.index
      /\ Len(queue[s]) \in Nat /\ DOMAIN queue[s] = 1..Len(queue[s])
  BY ReceivesInto DEF Wired
<1>3. QueuedInOrder(s) /\ (sub[s].phase = "open" => ReceivedInOrder(s))
  BY DEF InOrder
<1>4. running.uri = sub[s].uri =>
          /\ running.index \in Coming(s)
          /\ \A i \in Coming(s)' : running.index < i
  <2> SUFFICES ASSUME running.uri = sub[s].uri
               PROVE  running.index \in Coming(s) /\ \A i \in Coming(s)' : running.index < i
    OBVIOUS
  <2>1. /\ Brings(running, s) /\ Coming(s) = Coming(s)' \cup {running.index} /\ running.index \notin Coming(s)'
        /\ running \in Publishers
    BY DEF Receives, SelfLinked
  <2> QED BY <2>1, RunningIsFirst
<1>5. Coming(s)' \subseteq Coming(s)
  BY DEF Receives
<1>6. \A k \in OwnQueued(s)' :
          /\ k \in Nat
          /\ \/ k + d \in OwnQueued(s) /\ k + d <= Len(queue[s]) /\ queue'[s][k] = queue[s][k + d]
             \/ k + d = Len(queue[s]) + 1 /\ running.uri = sub[s].uri /\ queue'[s][k].index = running.index
  BY <1>0, <1>1, <1>2 DEF OwnQueued
<1>7. QueuedInOrder(s)'
  <2>1. ASSUME NEW k \in OwnQueued(s)', NEW l \in OwnQueued(s)', k < l
        PROVE  queue'[s][k].index < queue'[s][l].index
    <3>1. k \in Nat /\ l \in Nat /\ k + d < l + d /\ (l + d <= Len(queue[s]) \/ l + d = Len(queue[s]) + 1)
      BY <1>6, <2>1
    <3>2. k + d \in OwnQueued(s) /\ queue'[s][k] = queue[s][k + d]
      BY <1>2, <1>6, <3>1
    <3> QED BY <1>3, <1>4, <1>6, <3>1, <3>2 DEF QueuedInOrder
  <2>2. ASSUME NEW k \in OwnQueued(s)', NEW i \in Coming(s)' PROVE queue'[s][k].index < i
    BY <1>3, <1>4, <1>5, <1>6 DEF QueuedInOrder
  <2> QED BY <2>1, <2>2 DEF QueuedInOrder
<1>8. ASSUME sub[s].phase = "open" PROVE ReceivedInOrder(s)'
  <2>1. ReceivedInOrder(s)
    BY <1>3, <1>8
  <2>2. \A k \in OwnQueued(s)' : queue'[s][k].index >= sub'[s].cutoff => \A j \in OwnIndices(s)' : j < queue'[s][k].index
    BY <1>0, <1>4, <1>6, <2>1 DEF ReceivedInOrder
  <2>3. \A i \in Coming(s)' : i >= sub'[s].cutoff => \A j \in OwnIndices(s)' : j < i
    BY <1>0, <1>5, <2>1 DEF ReceivedInOrder
  <2>4. \A i, j \in Own(s)' : i < j => got'[s][i].index < got'[s][j].index
    BY <1>0, <2>1 DEF ReceivedInOrder
  <2>5. sub'[s].next < sub'[s].cutoff => \A i \in OwnIndices(s)' : i < sub'[s].next
    BY <1>0, <2>1 DEF ReceivedInOrder
  <2> QED BY <2>2, <2>3, <2>4, <2>5 DEF ReceivedInOrder
<1> QED BY <1>0, <1>7, <1>8 DEF InOrder

LEMMA OrderGets ==
    ASSUME Wired, Wired', NEW s \in Subs, ~SelfLinked(sub[s].uri), InOrder(s), Gets(s)
    PROVE  InOrder(s)'
<1>0. /\ sub'[s] = sub[s] /\ Coming(s)' = Coming(s) /\ sub[s].phase = "open" /\ sub[s] \in OpenStates
      /\ StreamTypes /\ ~(sub[s].next < sub[s].cutoff)
  BY GetsFrom DEF Gets, Wired, OpenStates
<1>1. PICK n \in 1..Len(queue[s]) :
          /\ queue[s][n] \in Payloads
          /\ \/ ~Passes(s, queue[s][n]) /\ got'[s] = got[s]
             \/ Passes(s, queue[s][n]) /\ got'[s] = Append(got[s], queue[s][n])
          /\ DOMAIN queue'[s] = 1..(Len(queue[s]) - n) /\ DOMAIN queue[s] = 1..Len(queue[s])
          /\ \A i \in DOMAIN queue'[s] : n + i \in DOMAIN queue[s] /\ queue'[s][i] = queue[s][n + i]
  BY GetsFrom DEF Wired
<1>2. QueuedInOrder(s) /\ ReceivedInOrder(s)
  BY <1>0 DEF InOrder, Active
<1>3. Len(queue[s]) \in Nat
  BY <1>0 DEF StreamTypes
<1>4. \A k \in OwnQueued(s)' : k \in Nat /\ k > 0 /\ n + k \in OwnQueued(s) /\ queue'[s][k] = queue[s][n + k]
  BY <1>0, <1>1, <1>3 DEF OwnQueued
<1>5. QueuedInOrder(s)'
  <2>1. ASSUME NEW k \in OwnQueued(s)', NEW l \in OwnQueued(s)', k < l
        PROVE  queue'[s][k].index < queue'[s][l].index
    <3>1. n + k < n + l
      BY <1>4, <2>1
    <3> QED BY <1>2, <1>4, <3>1 DEF QueuedInOrder
  <2>2. ASSUME NEW k \in OwnQueued(s)', NEW i \in Coming(s)' PROVE queue'[s][k].index < i
    BY <1>0, <1>2, <1>4 DEF QueuedInOrder
  <2> QED BY <2>1, <2>2 DEF QueuedInOrder
<1>6. CASE got'[s] = got[s]
  <2>1. Own(s)' = Own(s) /\ OwnIndices(s)' = OwnIndices(s)
    BY <1>0, <1>6, OwnSame
  <2>2. \A k \in OwnQueued(s)' : queue'[s][k].index >= sub'[s].cutoff => \A j \in OwnIndices(s)' : j < queue'[s][k].index
    BY <1>0, <1>2, <1>4, <2>1 DEF ReceivedInOrder
  <2>3. ReceivedInOrder(s)'
    BY <1>0, <1>2, <1>6, <2>1, <2>2 DEF ReceivedInOrder
  <2> QED BY <1>0, <1>5, <2>3 DEF InOrder
<1>7. CASE Passes(s, queue[s][n]) /\ got'[s] = Append(got[s], queue[s][n])
  <2> DEFINE e == queue[s][n]
             m == Len(got[s]) + 1
  <2>1. /\ Len(got[s]) \in Nat /\ DOMAIN got[s] = 1..Len(got[s])
        /\ \A i \in DOMAIN got[s] : got'[s][i] = got[s][i]
        /\ got'[s][m] = e
        /\ Own(s)' = Own(s) \cup (IF e.uri = sub[s].uri THEN {m} ELSE {})
        /\ OwnIndices(s)' = OwnIndices(s) \cup (IF e.uri = sub[s].uri THEN {e.index} ELSE {})
    BY <1>0, <1>1, <1>7, OwnAppended
  <2>2. e.index >= sub[s].cutoff /\ e.index \in Nat
    BY <1>1, <1>7 DEF Passes, Payloads
  <2>3. e.uri = sub[s].uri => n \in OwnQueued(s) /\ (\A j \in OwnIndices(s) : j < e.index)
                              /\ \A i \in Coming(s) : e.index < i
    BY <1>1, <1>2, <2>2 DEF OwnQueued, QueuedInOrder, ReceivedInOrder
  <2>4. \A i \in Own(s) : i \in DOMAIN got[s] /\ got'[s][i] = got[s][i] /\ got[s][i].index \in OwnIndices(s) /\ i < m
    BY <2>1 DEF Own, OwnIndices
  <2> HIDE DEF e
  <2>5. ASSUME NEW i \in Own(s)', NEW j \in Own(s)', i < j PROVE got'[s][i].index < got'[s][j].index
    <3>1. i \in Own(s) \/ (i = m /\ e.uri = sub[s].uri)
      BY <2>1
    <3>2. j \in Own(s) \/ (j = m /\ e.uri = sub[s].uri)
      BY <2>1
    <3>3. i \in Nat /\ j \in Nat /\ m \in Nat
      BY <2>1, <2>4, <3>1, <3>2
    <3>4. i \in Own(s)
      BY <2>4, <2>5, <3>1, <3>2, <3>3
    <3> QED BY <1>2, <2>1, <2>3, <2>4, <2>5, <3>2, <3>4 DEF ReceivedInOrder
  <2> HIDE DEF m
  <2>6. sub'[s].next < sub'[s].cutoff => \A i \in OwnIndices(s)' : i < sub'[s].next
    BY <1>0
  <2>7. ASSUME NEW k \in OwnQueued(s)', queue'[s][k].index >= sub'[s].cutoff, NEW j \in OwnIndices(s)'
        PROVE  j < queue'[s][k].index
    <3>1. n + k \in OwnQueued(s) /\ queue'[s][k] = queue[s][n + k] /\ n < n + k
      BY <1>4
    <3>2. j \in OwnIndices(s) => j < queue[s][n + k].index
      BY <1>0, <1>2, <2>7, <3>1 DEF ReceivedInOrder
    <3>3. e.uri = sub[s].uri => e.index < queue[s][n + k].index
      BY <1>2, <2>3, <3>1 DEF QueuedInOrder, e
    <3> QED BY <2>1, <3>1, <3>2, <3>3
  <2>8. \A i \in Coming(s)' : i >= sub'[s].cutoff => \A j \in OwnIndices(s)' : j < i
    BY <1>0, <1>2, <2>1, <2>3 DEF ReceivedInOrder
  <2>9. ReceivedInOrder(s)'
    BY <2>5, <2>6, <2>7, <2>8 DEF ReceivedInOrder
  <2> QED BY <1>0, <1>5, <2>9 DEF InOrder
<1> QED BY <1>1, <1>6, <1>7

LEMMA OrderTurns ==
    ASSUME Wired, Wired', NEW s \in Subs, Active(s) => ~SelfLinked(sub[s].uri), InOrder(s), Turns(s)
    PROVE  InOrder(s)'
<1>0. StreamTypes /\ queue'[s] = queue[s]
  BY DEF Wired, Turns
<1>1. ASSUME got[s] = <<>>, got' = got PROVE OwnIndices(s)' = {} /\ Own(s)' = {}
  BY <1>1 DEF Own, OwnIndices
<1>2. ASSUME sub[s].phase = "new" PROVE QueuedInOrder(s)' /\ OwnQueued(s)' = {} /\ got[s] = <<>>
  <2>1. queue'[s] = <<>> /\ got[s] = <<>>
    BY <1>0, <1>2 DEF Wired, Quiet
  <2> QED BY <2>1 DEF QueuedInOrder, OwnQueued
<1>3. CASE Opens(s)
  <2>1. sub[s].phase = "new" /\ got' = got
    BY <1>3 DEF Opens
  <2>2. OwnIndices(s)' = {} /\ Own(s)' = {} /\ QueuedInOrder(s)'
    BY <1>1, <1>2, <2>1
  <2>3. ReceivedInOrder(s)'
    BY <2>2 DEF ReceivedInOrder
  <2> QED BY <2>2, <2>3 DEF InOrder
<1>4. CASE Announces(s)
  <2>1. QueuedInOrder(s)'
    BY <1>2, <1>4 DEF Announces
  <2>2. sub'[s].phase = "early"
    BY <1>4 DEF Announces
  <2> QED BY <2>1, <2>2 DEF InOrder
<1>5. CASE Begins(s) /\ Coming(s)' = Coming(s)
  <2>1. /\ sub[s].phase = "early" /\ got' = got /\ got[s] = <<>> /\ sub'[s].uri = sub[s].uri
    BY <1>5 DEF Begins, Opened, Wired, Quiet
  <2>2. OwnIndices(s)' = {} /\ Own(s)' = {}
    BY <1>1, <2>1
  <2>3. QueuedInOrder(s)'
    BY <1>0, <1>5, <2>1 DEF QueuedInOrder, OwnQueued, InOrder, Active
  <2>4. ReceivedInOrder(s)'
    BY <2>2 DEF ReceivedInOrder
  <2> QED BY <2>3, <2>4 DEF InOrder
<1>6. CASE Replays(s) /\ Coming(s)' = Coming(s)
  <2>1. /\ sub[s] \in OpenStates /\ sub[s].phase = "open" /\ sub[s].next < sub[s].cutoff
        /\ sub'[s] = [sub[s] EXCEPT !.next = @ + 1]
        /\ got'[s] = Append(got[s], [uri |-> sub[s].uri, index |-> sub[s].next])
    BY <1>6 DEF Replays
  <2>2. PICK e \in Payloads : e = [uri |-> sub[s].uri, index |-> sub[s].next]
    BY <2>1 DEF Payloads, OpenStates
  <2>3. /\ sub'[s].uri = sub[s].uri /\ sub'[s].next = sub[s].next + 1 /\ sub'[s].cutoff = sub[s].cutoff
        /\ sub[s].next \in Nat /\ sub[s].cutoff \in Nat
    BY <2>1 DEF OpenStates
  <2>4. QueuedInOrder(s) /\ ReceivedInOrder(s)
    BY <2>1 DEF InOrder, Active
  <2> DEFINE m == Len(got[s]) + 1
  <2>5. /\ Len(got[s]) \in Nat /\ DOMAIN got[s] = 1..Len(got[s])
        /\ \A i \in DOMAIN got[s] : got'[s][i] = got[s][i]
        /\ got'[s][m] = e
        /\ Own(s)' = Own(s) \cup {m} /\ OwnIndices(s)' = OwnIndices(s) \cup {sub[s].next}
    BY <1>0, <2>1, <2>2, <2>3, OwnAppended
  <2>6. \A i \in Own(s) : i \in Nat /\ i < m /\ got'[s][i] = got[s][i] /\ got[s][i].index \in OwnIndices(s)
    BY <2>5 DEF Own, OwnIndices
  <2>7. OwnIndices(s) \subseteq Nat /\ \A i \in OwnIndices(s) : i < sub[s].next
    BY <2>1, <2>4, IndicesAreNumbers DEF ReceivedInOrder
  <2>8. ASSUME NEW i \in Own(s)', NEW j \in Own(s)', i < j PROVE got'[s][i].index < got'[s][j].index
    <3>1. (i \in Own(s) \/ i = m) /\ (j \in Own(s) \/ j = m) /\ m \in Nat
      BY <2>5
    <3>2. i \in Own(s)
      BY <2>6, <2>8, <3>1
    <3> QED BY <2>2, <2>4, <2>5, <2>6, <2>7, <2>8, <3>1, <3>2 DEF ReceivedInOrder
  <2> HIDE DEF m
  <2>9. \A i \in OwnIndices(s)' : i < sub'[s].next
    BY <2>3, <2>5, <2>7
  <2>10. OwnQueued(s)' = OwnQueued(s) /\ \A k \in OwnQueued(s) : queue'[s][k].index = queue[s][k].index
    BY <1>0, <2>3 DEF OwnQueued
  <2>11. /\ \A k \in OwnQueued(s) : queue[s][k].index \in Nat
         /\ Coming(s) \subseteq Nat
    BY IndicesAreNumbers
  <2>12. \A k \in OwnQueued(s)' : queue'[s][k].index >= sub'[s].cutoff => \A j \in OwnIndices(s)' : j < queue'[s][k].index
    BY <2>1, <2>3, <2>4, <2>5, <2>10, <2>11 DEF ReceivedInOrder
  <2>13. \A i \in Coming(s)' : i >= sub'[s].cutoff => \A j \in OwnIndices(s)' : j < i
    BY <1>6, <2>1, <2>3, <2>4, <2>5, <2>11 DEF ReceivedInOrder
  <2>14. QueuedInOrder(s)'
    BY <1>6, <2>4, <2>10 DEF QueuedInOrder
  <2>15. ReceivedInOrder(s)'
    BY <2>8, <2>9, <2>12, <2>13 DEF ReceivedInOrder
  <2> QED BY <2>14, <2>15 DEF InOrder
<1> QED BY <1>3, <1>4, <1>5, <1>6 DEF Turns

LEMMA OrderNext ==
    ASSUME Wired, Apart, Lined, [StreamNext]_vars, NEW s \in Subs, InOrder(s)
    PROVE  InOrder(s)'
<1>0. StreamTypes /\ Wired' /\ Grows
  BY WiredNext, TypesNext DEF Wired
<1> SUFFICES ASSUME Active(s)', ~SelfLinked(sub[s].uri)' PROVE InOrder(s)'
  BY DEF InOrder
<1>1. Active(s) => ~SelfLinked(sub[s].uri)
  <2> SUFFICES ASSUME Active(s) PROVE ~SelfLinked(sub[s].uri)
    OBVIOUS
  <2>1. sub'[s].uri = sub[s].uri /\ sub[s].uri \in Uris
    BY <1>0, PhasesOfStreams DEF Active, Grows, StreamTypes
  <2> QED BY <1>0, <2>1 DEF SelfLinked, Grows
<1>2. Same(s) \/ Learns(s) \/ Receives(s) \/ Gets(s) \/ Turns(s)
  BY Views
<1>3. CASE Same(s)
  <2>1. sub'[s] = sub[s] /\ OwnQueued(s)' = OwnQueued(s) /\ queue'[s] = queue[s]
    BY <1>3 DEF Same, OwnQueued
  <2>2. Own(s)' = Own(s) /\ OwnIndices(s)' = OwnIndices(s) /\ got'[s] = got[s] /\ Coming(s)' = Coming(s)
    BY <1>3, <2>1, OwnSame DEF Same
  <2>3. QueuedInOrder(s) /\ (sub[s].phase = "open" => ReceivedInOrder(s))
    BY <1>1, <2>1 DEF InOrder, Active
  <2>4. QueuedInOrder(s)'
    BY <2>1, <2>2, <2>3 DEF QueuedInOrder
  <2>5. sub'[s].phase = "open" => ReceivedInOrder(s)'
    BY <2>1, <2>2, <2>3 DEF ReceivedInOrder
  <2> QED BY <2>4, <2>5 DEF InOrder
<1>4. CASE Learns(s)
  <2>1. sub'[s] = sub[s] /\ OwnQueued(s)' = OwnQueued(s) /\ queue'[s] = queue[s]
    BY <1>4 DEF Learns, OwnQueued
  <2>2. /\ Own(s)' = Own(s) /\ OwnIndices(s)' = OwnIndices(s) /\ got'[s] = got[s]
        /\ Coming(s)' = Coming(s) \cup {logged[sub[s].uri]}
    BY <1>4, <2>1, OwnSame DEF Learns
  <2>3. QueuedInOrder(s) /\ (sub[s].phase = "open" => ReceivedInOrder(s))
    BY <1>1, <2>1 DEF InOrder, Active
  <2>4. \A k \in OwnQueued(s) : queue[s][k].index < logged[sub[s].uri]
    BY DEF OwnQueued, Wired, Within, Logged
  <2>5. \A i \in OwnIndices(s) : i < logged[sub[s].uri]
    BY DEF OwnIndices, Own, Wired, Within, Logged
  <2>6. QueuedInOrder(s)'
    BY <2>1, <2>2, <2>3, <2>4 DEF QueuedInOrder
  <2>7. sub'[s].phase = "open" => ReceivedInOrder(s)'
    BY <2>1, <2>2, <2>3, <2>5 DEF ReceivedInOrder
  <2> QED BY <2>6, <2>7 DEF InOrder
<1>5. CASE Receives(s)
  <2>1. Active(s)
    BY <1>5 DEF Receives, Active
  <2> QED BY <1>0, <1>1, <1>5, <2>1, OrderReceives
<1>6. CASE Gets(s)
  <2>1. Active(s)
    BY <1>6 DEF Gets, Active
  <2> QED BY <1>0, <1>1, <1>6, <2>1, OrderGets
<1>7. CASE Turns(s)
  BY <1>0, <1>1, <1>7, OrderTurns
<1> QED BY <1>2, <1>3, <1>4, <1>5, <1>6, <1>7

OrderInv == Wired /\ Apart /\ (NoBlocking => Lined /\ \A s \in Subs : InOrder(s))

LEMMA OrderInvInit == StreamInit => OrderInv
<1> SUFFICES ASSUME StreamInit PROVE OrderInv
  OBVIOUS
<1>1. \A s \in Subs : sub[s].phase = "new" /\ putters[s] = <<>>
  BY DEF StreamInit
<1>2. ready = <<>> /\ running = None
  BY DEF StreamInit
<1>3. Lined
  BY <1>1, <1>2 DEF Lined
<1> QED BY <1>1, <1>3, WiredInit, ApartInit DEF OrderInv, InOrder, Active

LEMMA OrderInvNext == OrderInv /\ [StreamNext]_vars => OrderInv'
<1> SUFFICES ASSUME OrderInv, [StreamNext]_vars PROVE OrderInv'
  OBVIOUS
<1>1. Wired' /\ Apart'
  BY WiredNext, ApartNext DEF OrderInv
<1>2. ASSUME NoBlocking' PROVE Lined' /\ \A s \in Subs : InOrder(s)'
  <2>1. NoBlocking
    BY <1>2, NoBlockingBefore DEF OrderInv, Wired
  <2> QED BY <2>1, LinedNext, OrderNext DEF OrderInv
<1> QED BY <1>1, <1>2 DEF OrderInv

\* As long as no stream asked for backpressure by blocking, clients see the events of
\* their object in the order of its log.
THEOREM DroppedInOrder == StreamSpec => []DroppingKeepsOrder
<1>1. OrderInv => DroppingKeepsOrder
  BY DEF OrderInv, InOrder, ReceivedInOrder, Active, DroppingKeepsOrder, Open
<1> QED BY <1>1, OrderInvInit, OrderInvNext, PTL DEF StreamSpec

-------------------------------------------------------------------------------
\* The latest event.

Latest(s) ==
    LET last == logged[sub[s].uri] - 1
    IN  \/ last < sub[s].start \/ last < sub[s].cutoff
        \/ last \in OwnIndices(s)
        \/ InQueue(s, last)
        \/ last \in Coming(s)

Watched(s) == sub[s].phase = "open" /\ sub[s].mode = "drop_oldest" /\ Unlinked(sub[s].uri)

LEMMA WatchedBefore ==
    ASSUME StreamTypes, Grows, NEW s \in Subs, sub'[s] = sub[s], Watched(s)'
    PROVE  Watched(s) /\ sub[s] \in OpenStates /\ sub[s].uri \in Uris /\ logged[sub[s].uri] \in Nat
<1>1. sub[s].phase = "open" /\ sub[s].mode = "drop_oldest"
  BY DEF Watched
<1>2. sub[s] \in OpenStates /\ sub[s].uri \in Uris
  BY <1>1, PhasesOfStreams DEF StreamTypes, OpenStates
<1>3. \A v \in Uris : Targets(v) \subseteq Targets(v)'
  BY DEF Grows
<1>4. \A v \in Uris : sub[s].uri \notin Targets(v)
  BY <1>3 DEF Watched, Unlinked
<1> QED BY <1>1, <1>2, <1>4 DEF Watched, Unlinked, StreamTypes

LEMMA LatestReceives ==
    ASSUME Wired, Lined, NEW s \in Subs, sub[s] \in OpenStates, Watched(s), QueuedInOrder(s), Latest(s), Receives(s)
    PROVE  Latest(s)'
<1> DEFINE last == logged[sub[s].uri] - 1
<1>0. /\ sub'[s] = sub[s] /\ got'[s] = got[s] /\ logged' = logged /\ OwnIndices(s)' = OwnIndices(s)
      /\ sub[s].uri \in Uris /\ logged[sub[s].uri] \in Nat
  BY OwnSame DEF Receives, Wired, StreamTypes, OpenStates
<1>1. running \in Publishers /\ running \in Carrying /\ running.uri \in Uris /\ running.index \in Nat
  BY DEF Receives, Publishers
<1>2. Brings(running, s) /\ Coming(s) = Coming(s)' \cup {running.index}
  BY <1>0, <1>1 DEF Receives, Watched, Unlinked
<1>3. running.uri = sub[s].uri /\ running.index \in Coming(s)
  BY <1>2 DEF Brings
<1>4. running.index < logged[sub[s].uri]
  BY <1>1, <1>3 DEF Wired, Carried, Fits
\* The latest event is not in the queue while an event is on its way.
<1>5. ~InQueue(s, last)
  <2> SUFFICES ASSUME NEW k \in OwnQueued(s), queue[s][k].index = last PROVE FALSE
    BY DEF InQueue, OwnQueued
  <2>1. last < running.index
    BY <1>3 DEF QueuedInOrder
  <2> QED BY <1>0, <1>1, <1>4, <2>1
<1>6. PICK r \in Nat : r = running.index
  BY <1>1
<1>7. InQueue(s, r)'
  <2>1. /\ Payload(running) \in Payloads /\ Payload(running).uri = running.uri
        /\ Payload(running).index = running.index
    BY ReceivesInto DEF Wired
  <2>2. PICK e \in Payloads : e = Payload(running)
    BY <2>1
  <2>3. ASSUME NEW t \in Seq(Payloads), queue'[s] = Append(t, e) PROVE InQueue(s, r)'
    <3>1. /\ DOMAIN Append(t, e) = 1..(Len(t) + 1) /\ Len(t) \in Nat /\ Append(t, e)[Len(t) + 1] = e
      OBVIOUS
    <3>2. Len(t) + 1 \in DOMAIN queue'[s] /\ queue'[s][Len(t) + 1] = e
      BY <2>3, <3>1
    <3>3. \E k \in DOMAIN queue'[s] : queue'[s][k].uri = sub'[s].uri /\ queue'[s][k].index = r
      BY <1>0, <1>3, <1>6, <2>1, <2>2, <3>2
    <3> QED BY <3>3 DEF InQueue
  <2>4. queue[s] \in Seq(Payloads) /\ (queue[s] # <<>> => Tail(queue[s]) \in Seq(Payloads))
    BY TailElements DEF Wired, StreamTypes
  <2> QED BY <2>2, <2>3, <2>4 DEF Receives, Watched
<1>8. PICK l \in Int : l = last
  BY <1>0
<1>9. \/ l < sub'[s].start \/ l < sub'[s].cutoff \/ l \in OwnIndices(s)'
      \/ InQueue(s, l)' \/ l \in Coming(s)'
  BY <1>0, <1>2, <1>5, <1>6, <1>7, <1>8 DEF Latest
<1>10. l = logged'[sub'[s].uri] - 1
  BY <1>0, <1>8
<1> QED BY <1>9, <1>10 DEF Latest

LEMMA LatestNext ==
    ASSUME OrderInv, NoBlocking, [StreamNext]_vars, NEW s \in Subs, Watched(s) => Latest(s), Watched(s)'
    PROVE  Latest(s)'
<1>0. Wired /\ Wired' /\ StreamTypes /\ StreamTypes' /\ Grows /\ Lined /\ InOrder(s)
  BY WiredNext, TypesNext DEF OrderInv, Wired
<1>1. sub'[s] \in OpenStates /\ logged'[sub'[s].uri] \in Nat /\ sub'[s].phase = "open"
  BY <1>0, PhasesOfStreams DEF StreamTypes, OpenStates, Watched
<1>2. Same(s) \/ Learns(s) \/ Receives(s) \/ Gets(s) \/ Turns(s)
  BY <1>0, <1>1, Views DEF Active
<1>3. PICK l \in Int : l = logged'[sub'[s].uri] - 1
  BY <1>1
<1> SUFFICES \/ l < sub'[s].start \/ l < sub'[s].cutoff \/ l \in OwnIndices(s)'
             \/ InQueue(s, l)' \/ l \in Coming(s)'
  BY <1>3 DEF Latest
<1>4. ASSUME sub'[s] = sub[s] PROVE Watched(s) /\ Latest(s) /\ sub[s] \in OpenStates /\ logged[sub[s].uri] \in Nat
  BY <1>0, <1>4, WatchedBefore
<1>5. CASE Same(s)
  <2>1. Latest(s) /\ l = logged[sub[s].uri] - 1 /\ OwnIndices(s)' = OwnIndices(s)
    BY <1>3, <1>4, <1>5, OwnSame DEF Same
  <2>2. InQueue(s, l)' <=> InQueue(s, l)
    BY <1>5 DEF Same, InQueue
  <2> QED BY <1>5, <2>1, <2>2 DEF Same, Latest
<1>6. CASE Learns(s)
  <2>1. l = logged[sub[s].uri]
    BY <1>3, <1>4, <1>6 DEF Learns
  <2> QED BY <1>6, <2>1 DEF Learns
<1>7. CASE Receives(s)
  <2>1. /\ Watched(s) /\ Latest(s) /\ sub[s] \in OpenStates
    BY <1>4, <1>7 DEF Receives
  <2>2. sub[s].uri \in Uris /\ ~SelfLinked(sub[s].uri)
    BY <2>1 DEF OpenStates, Watched, Unlinked, SelfLinked
  <2>3. QueuedInOrder(s)
    BY <1>0, <2>1, <2>2 DEF InOrder, Active, Watched
  <2>4. Latest(s)'
    BY <1>0, <1>7, <2>1, <2>3, LatestReceives
  <2> QED BY <1>3, <2>4 DEF Latest
<1>8. CASE Gets(s)
  <2>1. /\ Latest(s) /\ l = logged[sub[s].uri] - 1 /\ Coming(s)' = Coming(s) /\ sub'[s] = sub[s]
        /\ sub[s] \in OpenStates /\ logged[sub[s].uri] \in Nat
    BY <1>3, <1>4, <1>8 DEF Gets
  <2>2. OwnIndices(s) \subseteq OwnIndices(s)'
    BY <1>0, <1>8, <2>1, GetsFrom, OwnAppended, OwnSame
  <2>3. ASSUME InQueue(s, l), ~(l < sub[s].cutoff) PROVE l \in OwnIndices(s)' \/ InQueue(s, l)'
    <3>1. l \in Nat /\ l >= sub[s].cutoff
      BY <2>1, <2>3 DEF OpenStates
    <3> QED BY <1>0, <1>8, <2>3, <3>1, GetsKeeps
  <2> QED BY <2>1, <2>2, <2>3 DEF Latest
<1>9. CASE Turns(s)
  <2>1. CASE Opens(s)
    <3>1. PICK u \in Uris, mode \in Modes : \E start \in 0..logged[u], cutoff \in {0, logged[u]} :
              /\ sub'[s] = Opened(u, mode, start, cutoff)
              /\ cutoff = logged[u] \/ start = logged[u]
      BY <2>1 DEF Opens
    <3>2. /\ sub'[s].uri = u /\ logged' = logged /\ logged[u] \in Nat
          /\ (sub'[s].cutoff = logged[u] \/ sub'[s].start = logged[u])
      BY <1>0, <1>9, <3>1 DEF Turns, Opened, StreamTypes
    <3> QED BY <1>3, <3>2
  <2>2. CASE Begins(s)
    <3>1. PICK start \in Nat : sub'[s] = Opened(sub[s].uri, sub[s].mode, start, logged[sub[s].uri])
      BY <2>2 DEF Begins
    <3>2. sub'[s].uri = sub[s].uri /\ logged' = logged /\ sub'[s].cutoff = logged[sub[s].uri]
      BY <1>9, <3>1 DEF Turns, Opened
    <3> QED BY <1>1, <1>3, <3>2
  <2>3. CASE Replays(s)
    <3>1. /\ sub[s] \in OpenStates /\ sub[s].phase = "open"
          /\ sub'[s] = [sub[s] EXCEPT !.next = @ + 1]
          /\ got'[s] = Append(got[s], [uri |-> sub[s].uri, index |-> sub[s].next])
      BY <2>3 DEF Replays
    <3>2. PICK e \in Payloads : e = [uri |-> sub[s].uri, index |-> sub[s].next]
      BY <3>1 DEF Payloads, OpenStates
    <3>3. /\ sub'[s].uri = sub[s].uri /\ sub'[s].mode = sub[s].mode /\ sub'[s].start = sub[s].start
          /\ sub'[s].cutoff = sub[s].cutoff
      BY <3>1 DEF OpenStates
    <3>4. OwnIndices(s) \subseteq OwnIndices(s)'
      <4>1. StreamTypes /\ got'[s] = Append(got[s], e) /\ sub'[s].uri = sub[s].uri
        BY <1>0, <3>1, <3>2, <3>3
      <4>2. OwnIndices(s)' = OwnIndices(s) \cup (IF e.uri = sub[s].uri THEN {e.index} ELSE {})
        BY <4>1, OwnAppended
      <4> QED BY <4>2
    <3>5. logged' = logged /\ Coming(s)' = Coming(s) /\ queue'[s] = queue[s]
      BY <1>9, <2>3 DEF Turns, Replays, Opens, Announces, Begins
    <3>6. InQueue(s, l)' <=> InQueue(s, l)
      BY <3>3, <3>5 DEF InQueue
    <3>7. \A v \in Uris : sub[s].uri \notin Targets(v)
      BY <1>0, <3>3 DEF Watched, Unlinked, Grows
    <3>8. Latest(s) /\ l = logged[sub[s].uri] - 1
      BY <1>3, <3>1, <3>3, <3>5, <3>7 DEF Watched, Unlinked
    <3> QED BY <3>3, <3>4, <3>5, <3>6, <3>8 DEF Latest
  <2>4. ~Announces(s)
    <3>1. Announces(s) => sub'[s].phase = "early"
      BY DEF Announces
    <3> QED BY <1>1, <3>1
  <2> QED BY <1>9, <2>1, <2>2, <2>3, <2>4 DEF Turns
<1> QED BY <1>2, <1>5, <1>6, <1>7, <1>8, <1>9

LatestInv == OrderInv /\ (NoBlocking => \A s \in Subs : Watched(s) => Latest(s))

\* As long as no stream asked for backpressure by blocking, a drop_oldest stream of an
\* object that no link leads to has the latest event, or it is at hand.
THEOREM LatestStays == StreamSpec => []LatestIsKept
<1>1. StreamInit => LatestInv
  <2>1. StreamInit => \A s \in Subs : sub[s].phase = "new"
    BY DEF StreamInit
  <2> QED BY <2>1, OrderInvInit DEF LatestInv, Watched
<1>2. LatestInv /\ [StreamNext]_vars => LatestInv'
  <2> SUFFICES ASSUME LatestInv, [StreamNext]_vars PROVE LatestInv'
    OBVIOUS
  <2>1. OrderInv'
    BY OrderInvNext DEF LatestInv
  <2>2. ASSUME NoBlocking', NEW s \in Subs, Watched(s)' PROVE Latest(s)'
    <3>1. NoBlocking
      BY <2>2, NoBlockingBefore DEF LatestInv, OrderInv, Wired
    <3> QED BY <2>2, <3>1, LatestNext DEF LatestInv
  <2> QED BY <2>1, <2>2 DEF LatestInv
<1>3. LatestInv => LatestIsKept
  <2> SUFFICES ASSUME LatestInv, NoBlocking, NEW s \in OpenIn("drop_oldest"), Unlinked(sub[s].uri)
               PROVE  LET last == logged[sub[s].uri] - 1
                      IN  \/ last < sub[s].start \/ last < sub[s].cutoff
                          \/ last \in OwnIndices(s)
                          \/ [uri |-> sub[s].uri, index |-> last] \in ToSet(queue[s])
                          \/ StillToCome(s, last)
    BY DEF LatestIsKept
  <2>1. s \in Subs /\ Latest(s) /\ StreamTypes
    BY DEF LatestInv, OrderInv, Wired, OpenIn, Open, Watched
  <2>2. \A i : InQueue(s, i) => [uri |-> sub[s].uri, index |-> i] \in ToSet(queue[s])
    BY <2>1, QueuedPayload
  <2> QED BY <2>1, <2>2, ComingIsStillToCome DEF Latest
<1> QED BY <1>1, <1>2, <1>3, PTL DEF StreamSpec
===============================================================================
