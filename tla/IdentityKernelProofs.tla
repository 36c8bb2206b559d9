------------------------- MODULE IdentityKernelProofs -------------------------
(***************************************************************************)
(* What the identity kernel promises to callers that make one call at a    *)
(* time, for any number of threads, identities, credentials and links: the *)
(* log can always be reduced, the object shows what it reduces to, and the *)
(* life of an identity is the one of IdentityLifecycle.                    *)
(***************************************************************************)
EXTENDS IdentityKernel, SequenceTheorems, FiniteSetTheorems, NaturalsInduction, WellFoundedInduction, TLAPS

-------------------------------------------------------------------------------
\* Induction over the naturals, as the least element of a set.
Smaller == {p \in Nat \X Nat : p[1] < p[2]}

LEMMA SetInduction ==
    ASSUME NEW T \in SUBSET Nat, 0 \in T, \A n \in T : n + 1 \in T
    PROVE  T = Nat
<1> SUFFICES ASSUME Nat \ T # {} PROVE FALSE
  OBVIOUS
<1>1. IsWellFoundedOn(Smaller, Nat)
  BY NatLessThanWellFounded DEF OpToRel, Smaller
<1>2. \A x, y \in Nat : x < y => <<x, y>> \in Smaller
  BY DEF Smaller
<1>3. PICK n \in Nat \ T : \A m \in Nat \ T : ~(<<m, n>> \in Smaller)
  BY <1>1, WFMin
<1>4. n - 1 \in Nat /\ n - 1 \notin T
  BY <1>3
<1>5. <<n - 1, n>> \in Smaller
  BY <1>2, <1>4
<1> QED BY <1>3, <1>4, <1>5

-------------------------------------------------------------------------------
\* The reducer: reducing one request more is one step more.
Step(state, r) == IF state # None /\ Allowed(state, r) THEN Effect(state, r) ELSE None

\* iter says, for every set of places of rs, what reducing the requests there gives.
Folds(iter, rs, n) ==
    iter = [S \in SUBSET (1 .. n) |->
               IF S = {} THEN EmptyState ELSE Step(iter[S \ {Max(S)}], rs[Max(S)])]

LEMMA MaxOf ==
    ASSUME NEW n \in Nat, NEW S \in SUBSET (1 .. n + 1), n + 1 \in S
    PROVE  Max(S) = n + 1
<1>1. \A y \in S : n + 1 >= y
  OBVIOUS
<1>2. \A x \in S : (\A y \in S : x >= y) => x = n + 1
  OBVIOUS
<1> QED BY <1>1, <1>2 DEF Max

LEMMA FoldExists ==
    ASSUME NEW rs, NEW n \in Nat
    PROVE  \E iter : Folds(iter, rs, n)
<1> DEFINE T == {k \in Nat : \E iter : Folds(iter, rs, k)}
<1>1. 0 \in T
  <2> DEFINE iter == [S \in SUBSET (1 .. 0) |-> EmptyState]
  <2>1. Folds(iter, rs, 0)
    BY DEF Folds
  <2> QED BY <2>1
<1>2. ASSUME NEW k \in T PROVE k + 1 \in T
  <2>1. PICK old : Folds(old, rs, k)
    OBVIOUS
  <2> DEFINE iter == [S \in SUBSET (1 .. k + 1) |->
                         IF k + 1 \in S THEN Step(old[S \ {k + 1}], rs[k + 1]) ELSE old[S]]
  <2>2. ASSUME NEW S \in SUBSET (1 .. k + 1)
        PROVE  iter[S] = IF S = {} THEN EmptyState ELSE Step(iter[S \ {Max(S)}], rs[Max(S)])
    <3>1. CASE k + 1 \in S
      <4>1. Max(S) = k + 1 /\ S \ {k + 1} \in SUBSET (1 .. k + 1) /\ k + 1 \notin S \ {k + 1}
        BY <3>1, MaxOf
      <4> QED BY <3>1, <4>1
    <3>2. CASE k + 1 \notin S
      <4>0. \A i \in 1 .. k + 1 : i # k + 1 => i \in 1 .. k
        OBVIOUS
      <4>1. S \in SUBSET (1 .. k) /\ S \ {Max(S)} \in SUBSET (1 .. k) /\ k + 1 \notin S \ {Max(S)}
        BY <3>2, <4>0, Zenon
      <4>2. S \ {Max(S)} \in SUBSET (1 .. k + 1)
        BY <4>1
      <4>3. old[S] = IF S = {} THEN EmptyState ELSE Step(old[S \ {Max(S)}], rs[Max(S)])
        BY <2>1, <4>1 DEF Folds
      <4>4. iter[S] = old[S] /\ iter[S \ {Max(S)}] = old[S \ {Max(S)}]
        BY <3>2, <4>1, <4>2
      <4> QED BY <4>3, <4>4
    <3> QED BY <3>1, <3>2
  <2>3. Folds(iter, rs, k + 1)
    <3>1. iter = [S \in SUBSET (1 .. k + 1) |-> iter[S]]
      OBVIOUS
    <3> HIDE DEF iter
    <3> QED BY <2>2, <3>1 DEF Folds
  <2> HIDE DEF iter
  <2> QED BY <2>3
<1>3. T = Nat
  <2> HIDE DEF T
  <2> QED BY <1>1, <1>2, SetInduction DEF T
<1>4. n \in T
  <2> HIDE DEF T
  <2> QED BY <1>3
<1> QED BY <1>4

\* Two folds agree as far as what they fold does.
LEMMA FoldsAgree ==
    ASSUME NEW rs, NEW qs, NEW n \in Nat, NEW m \in Nat, NEW f, NEW g, Folds(f, rs, n), Folds(g, qs, m),
           NEW k \in Nat, k <= n, k <= m, \A i \in 1 .. k : rs[i] = qs[i]
    PROVE  f[1 .. k] = g[1 .. k]
<1> DEFINE T == {j \in Nat : j <= k => f[1 .. j] = g[1 .. j]}
<1>1. 0 \in T
  <2>1. 1 .. 0 = {} /\ {} \in SUBSET (1 .. n) /\ {} \in SUBSET (1 .. m)
    OBVIOUS
  <2> QED BY <2>1 DEF Folds
<1>2. ASSUME NEW j \in T PROVE j + 1 \in T
  <2> SUFFICES ASSUME j + 1 <= k PROVE f[1 .. j + 1] = g[1 .. j + 1]
    OBVIOUS
  <2> DEFINE S == 1 .. j + 1
  <2>0. j \in Nat /\ j + 1 \in Nat /\ j + 1 <= n /\ j + 1 <= m
    OBVIOUS
  <2>1. /\ S \in SUBSET (1 .. n) /\ S \in SUBSET (1 .. m) /\ j + 1 \in S
        /\ S \ {j + 1} = 1 .. j /\ S \in SUBSET (1 .. j + 1)
    BY <2>0
  <2>2. Max(S) = j + 1
    BY <2>0, <2>1, MaxOf
  <2>3. f[1 .. j] = g[1 .. j] /\ rs[j + 1] = qs[j + 1]
    OBVIOUS
  <2> HIDE DEF S
  <2>4. f[S] = Step(f[1 .. j], rs[j + 1]) /\ g[S] = Step(g[1 .. j], qs[j + 1])
    BY <2>1, <2>2 DEF Folds
  <2> QED BY <2>3, <2>4 DEF S
<1>3. T = Nat
  <2> HIDE DEF T
  <2> QED BY <1>1, <1>2, SetInduction DEF T
<1>4. k \in T
  <2> HIDE DEF T
  <2> QED BY <1>3
<1> QED BY <1>4

LEMMA ReduceIsFold ==
    ASSUME NEW rs \in Seq(Requests)
    PROVE  \E iter : Folds(iter, rs, Len(rs)) /\ Reduce(rs) = iter[1 .. Len(rs)]
<1>1. DOMAIN rs = 1 .. Len(rs) /\ Len(rs) \in Nat
  OBVIOUS
<1>2. Reduce(rs) = LET iter == CHOOSE iter : Folds(iter, rs, Len(rs)) IN iter[1 .. Len(rs)]
  BY <1>1 DEF Reduce, FoldLeft, MapThenFoldSet, Step, Folds
<1> QED BY <1>1, <1>2, FoldExists

LEMMA ReduceEmpty == Reduce(<<>>) = EmptyState
<1>1. <<>> \in Seq(Requests) /\ Len(<<>>) = 0 /\ 1 .. 0 = {}
  OBVIOUS
<1>2. PICK iter : Folds(iter, <<>>, 0) /\ Reduce(<<>>) = iter[{}]
  BY <1>1, ReduceIsFold
<1> QED BY <1>2 DEF Folds

LEMMA ReduceAppend ==
    ASSUME NEW rs \in Seq(Requests), NEW r \in Requests
    PROVE  Reduce(Append(rs, r)) = Step(Reduce(rs), r)
<1> DEFINE n == Len(rs)
           qs == Append(rs, r)
<1>1. n \in Nat /\ qs \in Seq(Requests) /\ Len(qs) = n + 1 /\ qs[n + 1] = r /\ \A i \in 1 .. n : rs[i] = qs[i]
  OBVIOUS
<1>2. PICK f : Folds(f, rs, n) /\ Reduce(rs) = f[1 .. n]
  BY ReduceIsFold
<1>3. PICK g : Folds(g, qs, n + 1) /\ Reduce(qs) = g[1 .. n + 1]
  BY <1>1, ReduceIsFold
<1> HIDE DEF n, qs
<1>4. f[1 .. n] = g[1 .. n]
  BY <1>1, <1>2, <1>3, FoldsAgree
<1> DEFINE S == 1 .. n + 1
<1>5. S \in SUBSET (1 .. n + 1) /\ S # {} /\ n + 1 \in S /\ S \ {n + 1} = 1 .. n
  BY <1>1
<1>6. Max(S) = n + 1
  BY <1>1, <1>5, MaxOf
<1> HIDE DEF S
<1>7. g[S] = Step(g[1 .. n], r)
  BY <1>1, <1>3, <1>5, <1>6 DEF Folds
<1> QED BY <1>2, <1>3, <1>4, <1>7 DEF S, qs

-------------------------------------------------------------------------------
\* Replay: an event later than all before it is replayed behind them.
Kernel(s) == {e \in ToSet(s) : e.request # Marker}
Until(K, e) == {f \in K : f.tick <= e.tick}
Nth(K, n) == {e \in K : Cardinality(Until(K, e)) = n}
Pick(S) == CHOOSE e \in S : TRUE

LEMMA ReplayIs ==
    ASSUME NEW s
    PROVE  Replay(s) = [n \in 1 .. Cardinality(Kernel(s)) |-> Pick(Nth(Kernel(s), n)).request]
BY DEF Replay, Kernel, Nth, Until, Pick

LEMMA KernelFinite ==
    ASSUME NEW s \in Seq(Events)
    PROVE  IsFiniteSet(Kernel(s)) /\ Cardinality(Kernel(s)) \in Nat
<1>1. IsFiniteSet(1 .. Len(s))
  BY FS_Interval
<1>2. s \in Surjection(1 .. Len(s), ToSet(s))
  BY DEF Surjection, ToSet
<1>3. IsFiniteSet(ToSet(s))
  BY <1>1, <1>2, FS_Surjection
<1> QED BY <1>3, FS_Subset, FS_CardinalityType DEF Kernel

LEMMA AppendedElements ==
    ASSUME NEW s \in Seq(Events), NEW e \in Events
    PROVE  ToSet(Append(s, e)) = ToSet(s) \cup {e}
<1>1. PICK q : q = Append(s, e)
  OBVIOUS
<1>2. /\ DOMAIN q = 1 .. Len(s) + 1 /\ DOMAIN s = 1 .. Len(s) /\ Len(s) \in Nat
      /\ q[Len(s) + 1] = e /\ \A i \in 1 .. Len(s) : q[i] = s[i]
  BY <1>1
<1>3. ToSet(q) = ToSet(s) \cup {e}
  <2>1. \A x \in ToSet(s) : x \in ToSet(q)
    BY <1>2 DEF ToSet
  <2>2. e \in ToSet(q)
    BY <1>2 DEF ToSet
  <2>3. \A i \in 1 .. Len(s) + 1 : i \in 1 .. Len(s) \/ i = Len(s) + 1
    BY <1>2
  <2>4. \A x \in ToSet(q) : x \in ToSet(s) \/ x = e
    BY <1>2, <2>3 DEF ToSet
  <2> QED BY <2>1, <2>2, <2>4
<1> QED BY <1>1, <1>3

LEMMA KernelAppend ==
    ASSUME NEW s \in Seq(Events), NEW e \in Events
    PROVE  Kernel(Append(s, e)) = IF e.request = Marker THEN Kernel(s) ELSE Kernel(s) \cup {e}
BY AppendedElements DEF Kernel

LEMMA ReplayAppend ==
    ASSUME NEW s \in Seq(Events), NEW e \in Events, \A f \in ToSet(s) : f.tick < e.tick,
           Replay(s) \in Seq(Requests)
    PROVE  Replay(Append(s, e)) = IF e.request = Marker THEN Replay(s) ELSE Append(Replay(s), e.request)
<1>1. CASE e.request = Marker
  BY <1>1, KernelAppend, ReplayIs
<1>2. CASE e.request # Marker
  <2>1. PICK K : K = Kernel(s)
    OBVIOUS
  <2>2. PICK L : L = Kernel(s) \cup {e}
    OBVIOUS
  <2>3. PICK N \in Nat : N = Cardinality(K)
    BY <2>1, KernelFinite
  <2>4. \A i \in DOMAIN s : s[i] \in Events
    OBVIOUS
  <2>5. \A f \in K : f.tick \in Nat /\ f.tick < e.tick
    BY <2>4, <2>1 DEF Kernel, ToSet, Events
  <2>6. e.tick \in Nat /\ e \notin K /\ IsFiniteSet(K) /\ L = K \cup {e}
    <3>1. e.tick \in Nat
      BY DEF Events
    <3>2. e \notin K
      BY <2>5, <3>1
    <3> QED BY <2>1, <2>2, <3>1, <3>2, KernelFinite
  <2>7. Cardinality(L) = N + 1
    BY <2>3, <2>6, FS_AddElement
  <2>8. \A f \in K : Until(L, f) = Until(K, f)
    BY <2>5, <2>6 DEF Until
  <2>9. Until(L, e) = L
    BY <2>5, <2>6 DEF Until
  <2>10. \A f \in K : Cardinality(Until(K, f)) \in Nat /\ Cardinality(Until(K, f)) <= N
    BY <2>3, <2>6, FS_Subset, FS_CardinalityType DEF Until
  <2>11. \A f \in L : f \in K \/ f = e
    BY <2>6
  <2>12. Cardinality(Until(L, e)) = N + 1 /\ e \in L
    BY <2>6, <2>7, <2>9
  <2>13. \A f \in K : f \in L /\ Cardinality(Until(L, f)) = Cardinality(Until(K, f))
    BY <2>6, <2>8
  <2>14. \A n \in 1 .. N : Nth(L, n) = Nth(K, n)
    <3> SUFFICES ASSUME NEW n \in 1 .. N PROVE Nth(L, n) = Nth(K, n)
      OBVIOUS
    <3>1. n # N + 1
      OBVIOUS
    <3> QED BY <2>11, <2>12, <2>13, <3>1 DEF Nth
  <2>15. Nth(L, N + 1) = {e}
    <3>1. \A f \in K : Cardinality(Until(K, f)) # N + 1
      BY <2>10
    <3> QED BY <2>11, <2>12, <2>13, <3>1 DEF Nth
  <2>16. Pick({e}) = e
    BY DEF Pick
  <2>17. Replay(s) = [n \in 1 .. N |-> Pick(Nth(K, n)).request]
    BY <2>1, <2>3, ReplayIs
  <2>18. Replay(Append(s, e)) = [n \in 1 .. N + 1 |-> Pick(Nth(L, n)).request]
    BY <1>2, <2>2, <2>7, KernelAppend, ReplayIs
  <2>19. PICK q \in Seq(Requests) : q = Replay(s)
    OBVIOUS
  <2>20. Len(q) = N
    BY <2>17, <2>19
  <2>21. Append(q, e.request) = [n \in 1 .. N + 1 |-> IF n = N + 1 THEN e.request ELSE q[n]]
    BY <2>20
  <2>22. \A n \in 1 .. N : q[n] = Pick(Nth(L, n)).request
    BY <2>14, <2>17, <2>19
  <2>23. \A n \in 1 .. N + 1 : Pick(Nth(L, n)).request = IF n = N + 1 THEN e.request ELSE q[n]
    <3>1. \A n \in 1 .. N + 1 : n \in 1 .. N \/ n = N + 1
      OBVIOUS
    <3>2. \A n \in 1 .. N : n # N + 1
      OBVIOUS
    <3> QED BY <2>15, <2>16, <2>22, <3>1, <3>2
  <2> QED BY <1>2, <2>18, <2>19, <2>21, <2>23
<1> QED BY <1>1, <1>2

LEMMA ReplayEmpty == Replay(<<>>) = <<>>
<1>1. Kernel(<<>>) = {}
  BY DEF Kernel, ToSet
<1>2. Cardinality({}) = 0 /\ 1 .. 0 = {}
  BY FS_EmptySet
<1>3. Replay(<<>>) = [n \in {} |-> Pick(Nth({}, n)).request]
  BY <1>1, <1>2, ReplayIs
<1> QED BY <1>3

-------------------------------------------------------------------------------
\* Types.
Labels == {"idle", "reduce", "patch", "stamp", "update", "log"}

TypeInv ==
    /\ objects \in [Uris -> Objects \cup {None}]
    /\ clock \in Nat
    /\ log \in [Uris -> Seq(Events)]
    /\ pc \in [Threads -> Labels]
    /\ call \in [Threads -> Calls \cup {None}]
    /\ next \in [Threads -> States \cup {None}]
    /\ copy \in [Threads -> Objects \cup {None}]
    /\ stamp \in [Threads -> Nat]
    /\ \A t \in Threads : pc[t] # "idle" => call[t] \in Calls
    /\ \A t \in Threads : pc[t] \in {"stamp", "update", "log"} => copy[t] \in Objects
    /\ \A t \in Threads : pc[t] \in {"idle", "reduce"} => next[t] = None

\* The reducer's answers are states.
LEMMA CountedType ==
    ASSUME NEW state \in States
    PROVE  [state EXCEPT !.created = TRUE, !.events = @ + 1] \in States
<1>1. state.events + 1 \in Nat
  BY DEF States
<1>2. PICK n \in Nat : n = state.events + 1
  BY <1>1
<1>3. [state EXCEPT !.created = TRUE, !.events = n] \in States
  BY DEF States
<1> QED BY <1>2, <1>3

LEMMA EffectType ==
    ASSUME NEW state \in States, NEW r \in Requests
    PROVE  Effect(state, r) \in States
<1> DEFINE counted == [state EXCEPT !.created = TRUE, !.events = @ + 1]
<1>1. counted \in States
  BY CountedType
<1>2. r.type \in {"GRANT", "REVOKE"} => r.item \in Items
  BY DEF Requests, IdentityEvents, Marker
<1>3. Granted \in Records /\ Revoked \in Records
  BY DEF Granted, Revoked, Records
<1>4. CASE r.type = "FREEZE"
  BY <1>1, <1>4 DEF Effect, States
<1>5. CASE r.type = "ARCHIVE"
  BY <1>1, <1>5 DEF Effect, States
<1>6. CASE r.type = "GRANT"
  BY <1>1, <1>2, <1>3, <1>6 DEF Effect, States
<1>7. CASE r.type = "REVOKE"
  BY <1>1, <1>2, <1>3, <1>7 DEF Effect, States
<1>8. CASE r.type \notin {"FREEZE", "ARCHIVE", "GRANT", "REVOKE"}
  BY <1>1, <1>8 DEF Effect
<1> QED BY <1>4, <1>5, <1>6, <1>7, <1>8

LEMMA EffectCreates ==
    ASSUME NEW state \in States, NEW r \in Requests
    PROVE  Effect(state, r).created = TRUE
<1>1. r.type \in {"GRANT", "REVOKE"} => r.item \in Items
  BY DEF Requests, IdentityEvents, Marker
<1>2. CASE r.type \in {"GRANT", "REVOKE"}
  BY <1>1, <1>2 DEF Effect, States
<1>3. CASE r.type \notin {"GRANT", "REVOKE"}
  BY <1>3 DEF Effect, States
<1> QED BY <1>2, <1>3

LEMMA EmptyStateType == EmptyState \in States
BY DEF EmptyState, States, Absent, Records

LEMMA NoneIsNothing == None \notin States /\ None \notin Objects /\ None \notin Calls
BY NoneAssumption

\* With the merge the object shows what the reducer gave.
LEMMA MergeType ==
    ASSUME NEW live \in States \cup {None}, NEW new \in States
    PROVE  DeepMerge(live, new) \in States
<1>1. CASE live = None
  BY <1>1 DEF DeepMerge
<1>2. CASE live # None
  <2> DEFINE items == [i \in Items |->
                          IF new.items[i].status = "none" THEN live.items[i]
                          ELSE [new.items[i] EXCEPT !.revoked = @ \/ live.items[i].revoked]]
  <2>1. new.items \in [Items -> Records] /\ live.items \in [Items -> Records]
    BY <1>2 DEF States
  <2>2. \A i \in Items : items[i] \in Records
    BY <2>1 DEF Records
  <2>3. items \in [Items -> Records]
    BY <2>2
  <2>4. DeepMerge(live, new) = [new EXCEPT !.items = items]
    BY <1>2 DEF DeepMerge
  <2> HIDE DEF items
  <2> QED BY <2>3, <2>4 DEF States
<1> QED BY <1>1, <1>2
-------------------------------------------------------------------------------
\* What an object shows when these requests are logged.
Shows(runtime, requests) ==
    IF requests = <<>> THEN runtime = None
    ELSE runtime # None /\ Summary(runtime) = Summary(Reduce(requests))

LEMMA StatusOf ==
    ASSUME NEW state \in States, NEW r \in Requests, NEW i \in Items
    PROVE  Effect(state, r).items[i].status = "none" => state.items[i].status = "none"
<1> DEFINE counted == [state EXCEPT !.created = TRUE, !.events = @ + 1]
<1>1. r.type \in {"GRANT", "REVOKE"} => r.item \in Items
  BY DEF Requests, IdentityEvents, Marker
<1>2. state.items \in [Items -> Records] /\ counted.items = state.items /\ counted \in States
  BY CountedType DEF States
<1>3. Granted.status # "none" /\ Revoked.status # "none"
  BY DEF Granted, Revoked
<1>4. CASE r.type = "GRANT"
  <2>1. Effect(state, r).items = [state.items EXCEPT ![r.item] = Granted]
    BY <1>2, <1>4 DEF Effect, States
  <2> QED BY <1>1, <1>2, <1>3, <1>4, <2>1
<1>5. CASE r.type = "REVOKE"
  <2>1. Effect(state, r).items = [state.items EXCEPT ![r.item] = Revoked]
    BY <1>2, <1>5 DEF Effect, States
  <2> QED BY <1>1, <1>2, <1>3, <1>5, <2>1
<1>6. CASE r.type \notin {"GRANT", "REVOKE"}
  <2>1. Effect(state, r).items = state.items
    BY <1>2, <1>6 DEF Effect, States
  <2> QED BY <2>1
<1> QED BY <1>4, <1>5, <1>6

LEMMA MergeShows ==
    ASSUME NEW rs \in Seq(Requests), NEW r \in Requests, NEW live \in States \cup {None},
           Reduce(rs) \in States, Shows(live, rs), Step(Reduce(rs), r) # None
    PROVE  Shows(DeepMerge(live, Step(Reduce(rs), r)), Append(rs, r))
<1>1. PICK old \in States : old = Reduce(rs)
  OBVIOUS
<1>2. PICK new : new = Step(old, r)
  OBVIOUS
<1>3. new = Effect(old, r) /\ new \in States
  BY <1>1, <1>2, EffectType DEF Step
<1>4. PICK both \in States : both = DeepMerge(live, new)
  BY <1>3, MergeType
<1>5. Reduce(Append(rs, r)) = new /\ Append(rs, r) # <<>>
  BY <1>1, <1>2, ReduceAppend
<1>6. Summary(both) = Summary(new)
  <2>1. CASE live = None
    BY <1>4, <2>1 DEF DeepMerge
  <2>2. CASE live # None
    <3>1. Summary(live) = Summary(old)
      BY <1>1, <2>2 DEF Shows
    <3>2. \A i \in Items : live.items[i].status = old.items[i].status
      <4>1. Summary(live).items = Summary(old).items
        BY <3>1
      <4>2. [i \in Items |-> live.items[i].status] = [i \in Items |-> old.items[i].status]
        BY <4>1 DEF Summary
      <4> QED BY <4>2
    <3>3. new.items \in [Items -> Records] /\ live.items \in [Items -> Records]
      BY <1>3, <2>2 DEF States
    <3>4. /\ both.created = new.created /\ both.status = new.status /\ both.events = new.events
          /\ both.items = [i \in Items |->
                IF new.items[i].status = "none" THEN live.items[i]
                ELSE [new.items[i] EXCEPT !.revoked = @ \/ live.items[i].revoked]]
      BY <1>3, <1>4, <2>2 DEF DeepMerge, States
    <3>5. ASSUME NEW i \in Items PROVE both.items[i].status = new.items[i].status
      <4>1. new.items[i].status = "none" => old.items[i].status = "none"
        BY <1>1, <1>3, StatusOf
      <4>2. CASE new.items[i].status = "none"
        BY <3>2, <3>4, <4>1, <4>2
      <4>3. CASE new.items[i].status # "none"
        <5>1. both.items[i] = [new.items[i] EXCEPT !.revoked = @ \/ live.items[i].revoked]
          BY <3>4, <4>3
        <5> QED BY <3>3, <5>1 DEF Records
      <4> QED BY <4>2, <4>3
    <3>6. [i \in Items |-> both.items[i].status] = [i \in Items |-> new.items[i].status]
      BY <3>5
    <3> QED BY <3>4, <3>6 DEF Summary
  <2> QED BY <2>1, <2>2
<1> QED BY <1>1, <1>2, <1>4, <1>5, <1>6, NoneIsNothing DEF Shows

-------------------------------------------------------------------------------
\* The invariant: one call is under way; what it holds is one event ahead of the log.
OneCall == \A t, x \in Threads : pc[t] # "idle" /\ pc[x] # "idle" => t = x

Later(t) == /\ stamp[t] <= clock
            /\ \A u \in Uris : \A e \in ToSet(log[u]) : e.tick < stamp[t]

\* The requests of the log of u, and those with the request of t behind them.
Told(u) == Replay(log[u])
WithIt(t) ==
    IF call[t].request = Marker THEN Told(call[t].uri)
    ELSE Append(Told(call[t].uri), call[t].request)

Ahead(t) ==
    /\ objects[call[t].uri] # None
    /\ pc[t] = "reduce" => call[t].request # Marker
    /\ pc[t] \in {"patch", "stamp", "update", "log"} =>
          IF call[t].request = Marker THEN next[t] = None
          ELSE next[t] # None /\ next[t] = Step(Reduce(Told(call[t].uri)), call[t].request)
    /\ pc[t] \in {"update", "log"} => Later(t)
    /\ pc[t] \in {"stamp", "update"} => Shows(copy[t].runtime, WithIt(t))
    /\ pc[t] = "log" => Shows(objects[call[t].uri].runtime, WithIt(t))

Sound(u) ==
    /\ \A e \in ToSet(log[u]) : e.tick <= clock
    /\ Told(u) \in Seq(Requests) /\ Reduce(Told(u)) \in States
    /\ Reduce(Told(u)).created <=> Told(u) # <<>>
    /\ objects[u] = None => Told(u) = <<>>
    /\ objects[u] # None /\ Settled(u) => Shows(objects[u].runtime, Told(u))

KernelInv ==
    /\ TypeInv
    /\ OneCall
    /\ \A t \in Threads : pc[t] # "idle" => Ahead(t)
    /\ \A u \in Uris : Sound(u)

LEMMA KernelInit == Init => KernelInv
<1> SUFFICES ASSUME Init PROVE KernelInv
  OBVIOUS
<1>1. TypeInv
  BY DEF Init, TypeInv, Labels
<1>2. OneCall /\ \A t \in Threads : pc[t] # "idle" => Ahead(t)
  BY DEF Init, OneCall
<1>3. ASSUME NEW u \in Uris PROVE Sound(u)
  <2>1. log[u] = <<>> /\ objects[u] = None /\ Told(u) = <<>>
    BY ReplayEmpty DEF Init, Told
  <2>2. Reduce(Told(u)) = EmptyState /\ ToSet(log[u]) = {}
    BY <2>1, ReduceEmpty DEF ToSet
  <2>3. EmptyState.created = FALSE
    BY DEF EmptyState
  <2> QED BY <2>1, <2>2, <2>3, EmptyStateType DEF Sound
<1> QED BY <1>1, <1>2, <1>3 DEF KernelInv

LEMMA InCallTypes ==
    ASSUME KernelInv, NEW t \in Threads, pc[t] # "idle"
    PROVE  /\ call[t] \in Calls /\ call[t].uri \in Uris /\ call[t].request \in Requests
           /\ Sound(call[t].uri) /\ Ahead(t)
           /\ \A x \in Threads : x # t => pc[x] = "idle"
BY DEF KernelInv, TypeInv, Calls, OneCall

LEMMA ReductionIs ==
    ASSUME KernelInv, NEW t \in Threads, pc[t] # "idle"
    PROVE  /\ Reduction(t) = Step(Reduce(Told(call[t].uri)), call[t].request)
           /\ Reduction(t) \in States \cup {None}
<1>1. /\ call[t].request \in Requests /\ Told(call[t].uri) \in Seq(Requests)
      /\ Reduce(Told(call[t].uri)) \in States
  BY InCallTypes DEF Sound
<1>2. Reduction(t) = Step(Reduce(Told(call[t].uri)), call[t].request)
  BY <1>1, ReduceAppend DEF Reduction, Told
<1> QED BY <1>1, <1>2, EffectType DEF Step

LEMMA TypeNext ==
    ASSUME KernelInv, [Next]_vars
    PROVE  TypeInv'
<1>0. TypeInv
  BY DEF KernelInv
<1>1. ASSUME NEW t \in Threads, NEW u \in Uris, CreateIdentity(t, u) PROVE TypeInv'
  <2>1. [type |-> "CREATE", item |-> None] \in Requests /\ [runtime |-> None] \in Objects
    BY DEF Requests, IdentityEvents, Objects
  <2> QED BY <1>0, <1>1, <2>1 DEF TypeInv, CreateIdentity, MayStart, Goto, Calls, Labels
<1>2. ASSUME NEW t \in Threads, NEW u \in Uris, ApplyIdentityEvent(t, u) PROVE TypeInv'
  <2>1. IdentityEvents \subseteq Requests
    BY DEF Requests
  <2> QED BY <1>0, <1>2, <2>1 DEF TypeInv, ApplyIdentityEvent, MayStart, Goto, Calls, Labels
<1>3. ASSUME NEW t \in Threads, NEW u \in Uris, Reinstate(t, u) PROVE TypeInv'
  <2>1. Marker \in Requests
    BY DEF Requests
  <2> QED BY <1>0, <1>3, <2>1 DEF TypeInv, Reinstate, MayStart, Goto, Calls, Labels
<1>4. ASSUME NEW t \in Threads, ReduceTimeline(t) PROVE TypeInv'
  <2>1. Reduction(t) \in States \cup {None} /\ clock + 1 \in Nat
    BY <1>0, <1>4, ReductionIs DEF ReduceTimeline, TypeInv
  <2> HIDE DEF Reduction
  <2> QED BY <1>0, <1>4, <2>1 DEF TypeInv, ReduceTimeline, Goto, Labels
<1>5. ASSUME NEW t \in Threads, ReduceRaises(t) PROVE TypeInv'
  BY <1>0, <1>5 DEF TypeInv, ReduceRaises, Leave, Goto, Labels
<1>6. ASSUME NEW t \in Threads, PatchRefused(t) PROVE TypeInv'
  BY <1>0, <1>6 DEF TypeInv, PatchRefused, Leave, Goto, Labels
<1>7. ASSUME NEW t \in Threads, PatchRead(t) PROVE TypeInv'
  <2> DEFINE live == objects[call[t].uri].runtime
             merged == IF next[t] = None THEN live ELSE DeepMerge(live, next[t])
  <2>1. pc[t] = "patch" /\ objects[call[t].uri] \in Objects
    BY <1>0, <1>7, InCallTypes DEF PatchRead, TypeInv, Ahead
  <2>2. live \in States \cup {None}
    BY <2>1 DEF Objects
  <2>3. next[t] \in States \cup {None}
    BY <1>0 DEF TypeInv
  <2>4. merged \in States \cup {None}
    BY <2>2, <2>3, MergeType
  <2>5. copy' = [copy EXCEPT ![t] = [runtime |-> merged]]
    BY <1>7 DEF PatchRead
  <2> HIDE DEF merged
  <2>6. [runtime |-> merged] \in Objects
    BY <2>4 DEF Objects
  <2> QED BY <1>0, <1>7, <2>5, <2>6 DEF TypeInv, PatchRead, Goto, Labels
<1>8. ASSUME NEW t \in Threads, PatchStamp(t) PROVE TypeInv'
  <2>1. clock + 1 \in Nat
    BY <1>0 DEF TypeInv
  <2> QED BY <1>0, <1>8, <2>1 DEF TypeInv, PatchStamp, Goto, Labels
<1>9. ASSUME NEW t \in Threads, PatchUpdate(t) PROVE TypeInv'
  <2>1. copy[t] \in Objects
    BY <1>0, <1>9 DEF TypeInv, PatchUpdate
  <2> QED BY <1>0, <1>9, <2>1 DEF TypeInv, PatchUpdate, Goto, Labels
<1>10. ASSUME NEW t \in Threads, LogAppend(t) PROVE TypeInv'
  <2>1. [tick |-> stamp[t], request |-> call[t].request] \in Events /\ call[t].uri \in Uris
    BY <1>0, <1>10, InCallTypes DEF TypeInv, LogAppend, Events
  <2>2. log' \in [Uris -> Seq(Events)]
    BY <1>0, <1>10, <2>1 DEF TypeInv, LogAppend
  <2> QED BY <1>0, <1>10, <2>2 DEF TypeInv, LogAppend, Leave, Goto, Labels
<1>11. CASE UNCHANGED vars
  BY <1>0, <1>11 DEF TypeInv, vars, locals
<1> QED
  BY <1>1, <1>2, <1>3, <1>4, <1>5, <1>6, <1>7, <1>8, <1>9, <1>10, <1>11 DEF Next

-------------------------------------------------------------------------------
\* The invariant is kept, action by action.
LEMMA Alone ==
    ASSUME KernelInv, NEW t \in Threads, NEW label \in Labels, pc' = [pc EXCEPT ![t] = label],
           pc[t] # "idle" \/ \A x \in Threads : pc[x] = "idle"
    PROVE  /\ OneCall' /\ pc'[t] = label
           /\ \A x \in Threads : x # t => pc[x] = "idle" /\ pc'[x] = "idle"
BY DEF KernelInv, TypeInv, OneCall

LEMMA AloneAhead ==
    ASSUME OneCall', NEW t \in Threads, pc'[t] # "idle", Ahead(t)'
    PROVE  \A x \in Threads : pc'[x] # "idle" => Ahead(x)'
BY DEF OneCall

\* A step that leaves the log alone and changes no object.
LEMMA SoundStays ==
    ASSUME KernelInv, TypeInv', UNCHANGED <<objects, log>>, clock' >= clock, NEW u \in Uris,
           Settled(u)' => Settled(u)
    PROVE  Sound(u)'
<1>1. Sound(u) /\ clock \in Nat /\ clock' \in Nat /\ log[u] \in Seq(Events)
  BY DEF KernelInv, TypeInv
<1>2. \A e \in ToSet(log[u]) : e.tick \in Nat
  <2>1. \A i \in DOMAIN log[u] : log[u][i] \in Events
    BY <1>1
  <2> QED BY <2>1 DEF ToSet, Events
<1>3. \A e \in ToSet(log[u]) : e.tick <= clock'
  BY <1>1, <1>2 DEF Sound
<1>4. Told(u)' = Told(u)
  BY DEF Told
<1> QED BY <1>1, <1>3, <1>4 DEF Sound

\* A call that begins.
LEMMA BeginKeeps ==
    ASSUME Serial = TRUE, KernelInv, TypeInv', NEW t \in Threads, NEW u \in Uris,
           CreateIdentity(t, u) \/ ApplyIdentityEvent(t, u) \/ Reinstate(t, u)
    PROVE  KernelInv'
<1>1. /\ pc[t] = "idle" /\ \A x \in Threads : pc[x] = "idle"
      /\ UNCHANGED <<clock, log, next, copy, stamp>>
  BY DEF CreateIdentity, ApplyIdentityEvent, Reinstate, MayStart
<1>2. PICK label \in {"reduce", "patch"}, r \in Requests :
          /\ pc' = [pc EXCEPT ![t] = label]
          /\ call' = [call EXCEPT ![t] = [uri |-> u, request |-> r]]
          /\ label = "patch" <=> r = Marker
  <2>1. CASE CreateIdentity(t, u)
    <3>1. [type |-> "CREATE", item |-> None] \in Requests /\ [type |-> "CREATE", item |-> None] # Marker
      BY DEF Requests, IdentityEvents, Marker
    <3> QED BY <2>1, <3>1 DEF CreateIdentity, Goto
  <2>2. CASE ApplyIdentityEvent(t, u)
    <3>1. IdentityEvents \subseteq Requests /\ Marker \notin IdentityEvents
      BY DEF Requests, IdentityEvents, Marker
    <3> QED BY <2>2, <3>1 DEF ApplyIdentityEvent, Goto
  <2>3. CASE Reinstate(t, u)
    <3>1. Marker \in Requests
      BY DEF Requests
    <3> QED BY <2>3, <3>1 DEF Reinstate, Goto
  <2> QED BY <2>1, <2>2, <2>3
<1>3. /\ OneCall' /\ pc'[t] = label /\ \A x \in Threads : x # t => pc'[x] = "idle"
  BY <1>1, <1>2, Alone DEF Labels
<1>4. call'[t] = [uri |-> u, request |-> r] /\ next'[t] = None
  BY <1>1, <1>2 DEF KernelInv, TypeInv
<1>5. \A v \in Uris : \/ objects'[v] = objects[v]
                      \/ v = u /\ objects[v] = None /\ objects'[v] = [runtime |-> None]
  BY DEF CreateIdentity, ApplyIdentityEvent, Reinstate, KernelInv, TypeInv
<1>6. objects'[u] # None
  <2>1. [runtime |-> None] \in Objects
    BY DEF Objects
  <2> QED BY <2>1, NoneIsNothing DEF CreateIdentity, ApplyIdentityEvent, Reinstate, KernelInv, TypeInv
<1>7. Ahead(t)'
  BY <1>2, <1>3, <1>4, <1>6 DEF Ahead
<1>8. ASSUME NEW v \in Uris PROVE Sound(v)'
  <2>1. Sound(v) /\ Told(v)' = Told(v)
    BY <1>1 DEF KernelInv, Told
  <2>2. Settled(v)
    BY <1>1 DEF Settled
  <2>3. CASE objects'[v] = objects[v]
    BY <1>1, <2>1, <2>2, <2>3 DEF Sound
  <2>4. CASE objects[v] = None /\ objects'[v] = [runtime |-> None]
    <3>1. Told(v) = <<>> /\ objects'[v].runtime = None
      BY <2>1, <2>4 DEF Sound
    <3> QED BY <1>1, <2>1, <2>4, <3>1, NoneIsNothing DEF Sound, Shows
  <2> QED BY <1>5, <2>3, <2>4
<1> QED BY <1>2, <1>3, <1>7, <1>8, AloneAhead DEF KernelInv

LEMMA ReduceKeeps ==
    ASSUME KernelInv, TypeInv', NEW t \in Threads, ReduceTimeline(t)
    PROVE  KernelInv'
<1>1. /\ pc[t] = "reduce" /\ pc' = [pc EXCEPT ![t] = "patch"] /\ Reduction(t) # None
      /\ next'[t] = Reduction(t) /\ UNCHANGED <<objects, log, call, copy, stamp>> /\ clock' = clock + 1
  BY DEF ReduceTimeline, Goto, KernelInv, TypeInv
<1>2. OneCall' /\ pc'[t] = "patch" /\ \A x \in Threads : x # t => pc'[x] = "idle"
  BY <1>1, Alone DEF Labels
<1>3. Ahead(t) /\ Reduction(t) = Step(Reduce(Told(call[t].uri)), call[t].request)
  BY <1>1, InCallTypes, ReductionIs
<1>4. Ahead(t)'
  <2>1. Told(call[t].uri)' = Told(call[t].uri)
    BY <1>1 DEF Told
  <2> QED BY <1>1, <1>2, <1>3, <2>1 DEF Ahead
<1>5. clock' >= clock
  BY <1>1 DEF KernelInv, TypeInv
<1>6. ASSUME NEW u \in Uris PROVE Settled(u)' => Settled(u)
  BY <1>1, InCallTypes DEF Settled
<1> QED BY <1>1, <1>2, <1>4, <1>5, <1>6, AloneAhead, SoundStays DEF KernelInv

\* A call that is refused.
LEMMA RefusedKeeps ==
    ASSUME KernelInv, TypeInv', NEW t \in Threads, ReduceRaises(t) \/ PatchRefused(t)
    PROVE  KernelInv'
<1>1. /\ pc[t] \in {"reduce", "patch"} /\ pc' = [pc EXCEPT ![t] = "idle"] /\ UNCHANGED <<objects, log>>
      /\ clock' >= clock
  BY DEF ReduceRaises, PatchRefused, Leave, Goto, KernelInv, TypeInv
<1>2. OneCall' /\ \A x \in Threads : pc'[x] = "idle"
  BY <1>1, Alone DEF Labels
<1>3. ASSUME NEW u \in Uris PROVE Settled(u)' => Settled(u)
  BY <1>1, InCallTypes DEF Settled
<1> QED BY <1>1, <1>2, <1>3, SoundStays DEF KernelInv

LEMMA ReadKeeps ==
    ASSUME KernelInv, TypeInv', NEW t \in Threads, PatchRead(t)
    PROVE  KernelInv'
<1> DEFINE u == call[t].uri
           r == call[t].request
           live == objects[u].runtime
<1>1. /\ pc[t] = "patch" /\ pc' = [pc EXCEPT ![t] = "stamp"]
      /\ UNCHANGED <<objects, clock, log, call, next, stamp>>
      /\ copy'[t].runtime = IF next[t] = None THEN live ELSE DeepMerge(live, next[t])
  BY DEF PatchRead, Goto, KernelInv, TypeInv
<1>2. OneCall' /\ pc'[t] = "stamp" /\ \A x \in Threads : x # t => pc[x] = "idle" /\ pc'[x] = "idle"
  BY <1>1, Alone DEF Labels
<1>3. Ahead(t) /\ Sound(u) /\ u \in Uris /\ r \in Requests
  BY <1>1, InCallTypes
<1>4. objects[u] # None /\ objects[u] \in Objects /\ live \in States \cup {None}
  BY <1>3 DEF Ahead, KernelInv, TypeInv, Objects
<1>5. Settled(u)
  BY <1>1, <1>2 DEF Settled
<1>6. Shows(live, Told(u)) /\ Told(u) \in Seq(Requests) /\ Reduce(Told(u)) \in States
  BY <1>3, <1>4, <1>5 DEF Sound
<1>7. Shows(copy'[t].runtime, WithIt(t))
  <2>1. CASE r = Marker
    BY <1>1, <1>3, <1>6, <2>1 DEF Ahead, WithIt
  <2>2. CASE r # Marker
    <3>1. next[t] # None /\ next[t] = Step(Reduce(Told(u)), r)
      BY <1>1, <1>3, <2>2 DEF Ahead
    <3>2. Shows(DeepMerge(live, next[t]), Append(Told(u), r))
      BY <1>3, <1>4, <1>6, <3>1, MergeShows
    <3> QED BY <1>1, <2>2, <3>1, <3>2 DEF WithIt
  <2> QED BY <2>1, <2>2
<1>8. Ahead(t)'
  <2>1. Told(u)' = Told(u) /\ WithIt(t)' = WithIt(t)
    BY <1>1 DEF Told, WithIt
  <2>2. call'[t].uri = u /\ call'[t].request = r
    BY <1>1
  <2> QED BY <1>1, <1>2, <1>3, <1>7, <2>1, <2>2 DEF Ahead
<1>9. ASSUME NEW v \in Uris PROVE Settled(v)' => Settled(v)
  BY <1>1, <1>2 DEF Settled
<1>10. clock' >= clock
  BY <1>1 DEF KernelInv, TypeInv
<1> QED BY <1>1, <1>2, <1>8, <1>9, <1>10, AloneAhead, SoundStays DEF KernelInv

LEMMA StampKeeps ==
    ASSUME KernelInv, TypeInv', NEW t \in Threads, PatchStamp(t)
    PROVE  KernelInv'
<1>1. /\ pc[t] = "stamp" /\ pc' = [pc EXCEPT ![t] = "update"]
      /\ UNCHANGED <<objects, log, call, next, copy>>
      /\ clock \in Nat /\ clock' = clock + 1 /\ stamp'[t] = clock + 1
  BY DEF PatchStamp, Goto, KernelInv, TypeInv
<1>2. OneCall' /\ pc'[t] = "update" /\ \A x \in Threads : x # t => pc[x] = "idle" /\ pc'[x] = "idle"
  BY <1>1, Alone DEF Labels
<1>3. Ahead(t) /\ call[t].uri \in Uris
  BY <1>1, InCallTypes
<1>4. Later(t)'
  <2>1. \A u \in Uris : \A e \in ToSet(log[u]) : e.tick <= clock /\ e.tick \in Nat
    <3> SUFFICES ASSUME NEW u \in Uris, NEW e \in ToSet(log[u]) PROVE e.tick <= clock /\ e.tick \in Nat
      OBVIOUS
    <3>1. log[u] \in Seq(Events) /\ Sound(u)
      BY DEF KernelInv, TypeInv
    <3>2. \A i \in DOMAIN log[u] : log[u][i] \in Events
      BY <3>1
    <3> QED BY <3>1, <3>2 DEF ToSet, Sound, Events
  <2> QED BY <1>1, <2>1 DEF Later
<1>5. Ahead(t)'
  <2>1. Told(call[t].uri)' = Told(call[t].uri) /\ WithIt(t)' = WithIt(t)
    BY <1>1 DEF Told, WithIt
  <2> QED BY <1>1, <1>2, <1>3, <1>4, <2>1 DEF Ahead
<1>6. ASSUME NEW u \in Uris PROVE Settled(u)' => Settled(u)
  BY <1>1, <1>2 DEF Settled
<1>7. clock' >= clock
  BY <1>1
<1> QED BY <1>1, <1>2, <1>5, <1>6, <1>7, AloneAhead, SoundStays DEF KernelInv

LEMMA UpdateKeeps ==
    ASSUME KernelInv, TypeInv', NEW t \in Threads, PatchUpdate(t)
    PROVE  KernelInv'
<1> DEFINE u == call[t].uri
<1>1. /\ pc[t] = "update" /\ pc' = [pc EXCEPT ![t] = "log"]
      /\ UNCHANGED <<clock, log, call, next, copy, stamp>>
      /\ objects' = [objects EXCEPT ![u] = copy[t]] /\ copy[t] \in Objects
  BY DEF PatchUpdate, Goto, KernelInv, TypeInv
<1>2. OneCall' /\ pc'[t] = "log" /\ \A x \in Threads : x # t => pc[x] = "idle" /\ pc'[x] = "idle"
  BY <1>1, Alone DEF Labels
<1>3. Ahead(t) /\ u \in Uris /\ objects'[u] = copy[t] /\ copy[t] # None
  BY <1>1, InCallTypes, NoneIsNothing DEF KernelInv, TypeInv
<1>4. Ahead(t)'
  <2>1. Told(u)' = Told(u) /\ WithIt(t)' = WithIt(t) /\ call'[t] = call[t] /\ Later(t)' = Later(t)
    BY <1>1 DEF Told, WithIt, Later
  <2> QED BY <1>1, <1>2, <1>3, <2>1 DEF Ahead
<1>5. ASSUME NEW v \in Uris PROVE Sound(v)'
  <2>1. Sound(v) /\ Told(v)' = Told(v)
    BY <1>1 DEF KernelInv, Told
  <2>2. CASE v = u
    <3>1. ~Settled(v)'
      BY <1>1, <1>2, <2>2 DEF Settled
    <3> QED BY <1>1, <1>3, <2>1, <2>2, <3>1 DEF Sound
  <2>3. CASE v # u
    <3>1. objects'[v] = objects[v]
      BY <1>1, <2>3 DEF KernelInv, TypeInv
    <3>2. Settled(v)
      BY <1>1, <1>2 DEF Settled
    <3> QED BY <1>1, <2>1, <3>1, <3>2 DEF Sound
  <2> QED BY <2>2, <2>3
<1> QED BY <1>1, <1>2, <1>4, <1>5, AloneAhead DEF KernelInv

\* What appending its event does to the timeline of an identity.
LEMMA ToldNext ==
    ASSUME KernelInv, NEW t \in Threads, LogAppend(t), NEW u \in Uris, u = call[t].uri
    PROVE  /\ pc[t] = "log"
           /\ Told(u)' = WithIt(t)
           /\ \A v \in Uris : v # u => log'[v] = log[v] /\ Told(v)' = Told(v)
           /\ \A e \in ToSet(log'[u]) : e.tick <= clock
           /\ WithIt(t) \in Seq(Requests)
<1> DEFINE r == call[t].request
           e == [tick |-> stamp[t], request |-> r]
<1>1. /\ pc[t] = "log" /\ log' = [log EXCEPT ![u] = Append(@, e)]
  BY DEF LogAppend
<1>2. Ahead(t) /\ Sound(u) /\ u \in Uris /\ r \in Requests /\ log \in [Uris -> Seq(Events)] /\ stamp[t] \in Nat
  BY <1>1, InCallTypes DEF KernelInv, TypeInv
<1>3. Later(t)
  BY <1>1, <1>2 DEF Ahead
<1>4. PICK s \in Seq(Events) : s = log[u]
  BY <1>2
<1>5. PICK x \in Events : x = e
  BY <1>2 DEF Events
<1>6. log'[u] = Append(s, x) /\ \A v \in Uris : v # u => log'[v] = log[v]
  BY <1>1, <1>2, <1>4, <1>5
<1>7. /\ \A f \in ToSet(s) : f.tick < x.tick
      /\ Replay(s) \in Seq(Requests) /\ x.request = r
  BY <1>2, <1>3, <1>4, <1>5 DEF Later, Sound, Told
<1>8. Replay(Append(s, x)) = IF r = Marker THEN Replay(s) ELSE Append(Replay(s), r)
  BY <1>7, ReplayAppend
<1>9. Told(u)' = Replay(log'[u]) /\ Told(u) = Replay(s)
  BY <1>4 DEF Told
<1>10. Told(u)' = WithIt(t)
  BY <1>6, <1>8, <1>9 DEF WithIt
<1>11. \A v \in Uris : v # u => Told(v)' = Told(v)
  BY <1>6 DEF Told
<1>12. ToSet(Append(s, x)) = ToSet(s) \cup {x}
  BY AppendedElements
<1>13. \A f \in ToSet(log'[u]) : f.tick <= clock
  BY <1>2, <1>3, <1>4, <1>5, <1>6, <1>12 DEF Sound, Later
<1>14. WithIt(t) \in Seq(Requests)
  BY <1>2, <1>7, <1>9 DEF WithIt
<1> QED BY <1>1, <1>6, <1>10, <1>11, <1>13, <1>14

LEMMA LogKeeps ==
    ASSUME KernelInv, TypeInv', NEW t \in Threads, LogAppend(t)
    PROVE  KernelInv'
<1> DEFINE r == call[t].request
<1>0. PICK u \in Uris : u = call[t].uri
  BY InCallTypes DEF LogAppend
<1>1. pc[t] = "log" /\ pc' = [pc EXCEPT ![t] = "idle"] /\ UNCHANGED <<objects, clock>>
  BY DEF LogAppend, Leave, Goto
<1>2. OneCall' /\ pc'[t] = "idle" /\ \A x \in Threads : x # t => pc[x] = "idle" /\ pc'[x] = "idle"
  BY <1>1, Alone DEF Labels
<1>3. Ahead(t) /\ Sound(u) /\ r \in Requests
  BY <1>0, <1>1, InCallTypes
<1>4. Told(u) \in Seq(Requests) /\ Reduce(Told(u)) \in States /\ objects[u] # None
  BY <1>0, <1>3 DEF Sound, Ahead
<1>5. Sound(u)'
  <2>1. Told(u)' = WithIt(t) /\ WithIt(t) \in Seq(Requests) /\ \A e \in ToSet(log'[u]) : e.tick <= clock
    BY <1>0, ToldNext
  <2>2. Shows(objects[u].runtime, WithIt(t))
    BY <1>0, <1>1, <1>3 DEF Ahead
  <2>3. Reduce(WithIt(t)) \in States /\ (Reduce(WithIt(t)).created <=> WithIt(t) # <<>>)
    <3>1. CASE r = Marker
      BY <1>0, <1>3, <3>1 DEF Sound, WithIt
    <3>2. CASE r # Marker
      <4>1. Reduce(WithIt(t)) = Step(Reduce(Told(u)), r) /\ Step(Reduce(Told(u)), r) # None
        BY <1>0, <1>1, <1>3, <1>4, <3>2, ReduceAppend DEF Ahead, WithIt
      <4>2. Reduce(WithIt(t)) = Effect(Reduce(Told(u)), r)
        BY <4>1 DEF Step
      <4>3. Effect(Reduce(Told(u)), r) \in States /\ Effect(Reduce(Told(u)), r).created
        BY <1>3, <1>4, EffectType, EffectCreates
      <4>4. WithIt(t) # <<>>
        BY <1>0, <1>4, <3>2 DEF WithIt
      <4> QED BY <4>2, <4>3, <4>4
    <3> QED BY <3>1, <3>2
  <2> QED BY <1>1, <1>4, <2>1, <2>2, <2>3 DEF Sound
<1>6. ASSUME NEW v \in Uris, v # u PROVE Sound(v)'
  <2>1. Sound(v) /\ log'[v] = log[v] /\ Told(v)' = Told(v)
    BY <1>0, <1>6, ToldNext DEF KernelInv
  <2>2. Settled(v)
    BY <1>0, <1>2, <1>6 DEF Settled
  <2> QED BY <1>1, <2>1, <2>2 DEF Sound
<1>7. \A x \in Threads : pc'[x] = "idle"
  BY <1>2
<1> QED BY <1>2, <1>5, <1>6, <1>7 DEF KernelInv

LEMMA KernelNext ==
    ASSUME Serial = TRUE, KernelInv, [Next]_vars
    PROVE  KernelInv'
<1>1. TypeInv'
  BY TypeNext
<1>2. CASE UNCHANGED vars
  <2>1. UNCHANGED <<objects, clock, log, pc, call, next, copy, stamp>>
    BY <1>2 DEF vars, locals
  <2>2. ASSUME NEW t \in Threads, Ahead(t) PROVE Ahead(t)'
    BY <2>1, <2>2 DEF Ahead, Later, Told, WithIt
  <2>3. ASSUME NEW u \in Uris, Sound(u) PROVE Sound(u)'
    BY <2>1, <2>3 DEF Sound, Told, Settled
  <2> QED BY <1>1, <2>1, <2>2, <2>3 DEF KernelInv, OneCall
<1>3. CASE Next
  BY <1>1, <1>3, BeginKeeps, ReduceKeeps, RefusedKeeps, ReadKeeps, StampKeeps, UpdateKeeps, LogKeeps DEF Next
<1> QED BY <1>2, <1>3

-------------------------------------------------------------------------------
\* When calls take turns the reducer never meets a log it refuses: no event is logged
\* that would make every later call on the identity raise.
THEOREM IdentityReduces ==
    ASSUME Serial = TRUE
    PROVE  Spec => []LogReduces
<1>1. KernelInv => LogReduces
  BY NoneIsNothing DEF KernelInv, Sound, LogReduces, Reduced, Told
<1> QED BY <1>1, KernelInit, KernelNext, PTL DEF Spec

\* When calls take turns an identity object shows what its log reduces to whenever none
\* of them is between the two, in spite of the merge that cannot remove anything.
THEOREM IdentityShowsLog ==
    ASSUME Serial = TRUE
    PROVE  Spec => []LiveMatchesLog
<1>1. KernelInv => LiveMatchesLog
  <2> SUFFICES ASSUME KernelInv, NEW u \in Uris, objects[u] # None, Settled(u)
               PROVE  Shows(objects[u].runtime, Told(u))
    BY DEF LiveMatchesLog, Shows, Told, Reduced
  <2> QED BY DEF KernelInv, Sound
<1> QED BY <1>1, KernelInit, KernelNext, PTL DEF Spec

-------------------------------------------------------------------------------
\* The refinement: appending the event of a call is the step of the life of its identity.
LEMMA Lives ==
    ASSUME KernelInv, NEW u \in Uris
    PROVE  /\ Reduced(u) \in States /\ Reduced(u) # None
           /\ Phase(u) = IF Reduced(u).created THEN Reduced(u).status ELSE "absent"
           /\ Holds(u) = {i \in Items : Reduced(u).items[i].status = "active"}
BY NoneIsNothing DEF KernelInv, Sound, Told, Reduced, Phase, Holds

\* What becomes of an identity in a step: nothing, or what one request does to it.
LEMMA LifeNext ==
    ASSUME Serial = TRUE, KernelInv, [Next]_vars
    PROVE  \/ \A u \in Uris : Reduced(u)' = Reduced(u)
           \/ \E u \in Uris, r \in IdentityEvents :
                 /\ Allowed(Reduced(u), r) /\ Reduced(u)' = Effect(Reduced(u), r)
                 /\ \A v \in Uris : v # u => Reduced(v)' = Reduced(v)
<1>1. CASE UNCHANGED log
  BY <1>1 DEF Reduced
<1>2. CASE \E t \in Threads : LogAppend(t)
  <2>1. PICK t \in Threads : LogAppend(t)
    BY <1>2
  <2>2. PICK u \in Uris : u = call[t].uri
    BY <2>1, InCallTypes DEF LogAppend
  <2>3. PICK r \in Requests : r = call[t].request
    BY <2>1, InCallTypes DEF LogAppend
  <2>4. /\ pc[t] = "log" /\ Told(u)' = WithIt(t)
        /\ \A v \in Uris : v # u => Told(v)' = Told(v)
    BY <2>1, <2>2, ToldNext
  <2>5. \A v \in Uris : Reduced(v) = Reduce(Told(v)) /\ Reduced(v)' = Reduce(Told(v)')
    BY DEF Reduced, Told
  <2>6. \A v \in Uris : v # u => Reduced(v)' = Reduced(v)
    BY <2>4, <2>5
  <2>7. CASE r = Marker
    <3>1. Told(u)' = Told(u)
      BY <2>2, <2>3, <2>4, <2>7 DEF WithIt
    <3>2. Reduced(u)' = Reduced(u)
      BY <2>5, <3>1
    <3> QED BY <2>6, <3>2
  <2>8. CASE r # Marker
    <3>1. Told(u)' = Append(Told(u), r) /\ Told(u) \in Seq(Requests)
      BY <2>2, <2>3, <2>4, <2>8 DEF WithIt, KernelInv, Sound
    <3>2. Reduced(u)' = Step(Reduced(u), r)
      BY <2>5, <3>1, ReduceAppend
    <3>3. Step(Reduced(u), r) # None
      BY <2>2, <2>3, <2>4, <2>5, <2>8 DEF KernelInv, Ahead
    <3>4. Allowed(Reduced(u), r) /\ Reduced(u)' = Effect(Reduced(u), r)
      BY <3>2, <3>3 DEF Step
    <3>5. r \in IdentityEvents
      BY <2>8 DEF Requests
    <3> QED BY <2>6, <3>4, <3>5
  <2> QED BY <2>7, <2>8
<1>3. QED
  BY <1>1, <1>2 DEF Next, CreateIdentity, ApplyIdentityEvent, Reinstate, ReduceTimeline, ReduceRaises,
     PatchRefused, PatchRead, PatchStamp, PatchUpdate, vars

PhaseOf(state) == IF state.created THEN state.status ELSE "absent"
HoldsOf(state) == {i \in Items : state.items[i].status = "active"}

\* What one request does to phase and holdings.
LEMMA EffectOnLife ==
    ASSUME NEW state \in States, NEW r \in IdentityEvents, Allowed(state, r),
           NEW new, new = Effect(state, r), ~state.created => state = EmptyState
    PROVE  \/ PhaseOf(new) = PhaseOf(state) /\ HoldsOf(new) = HoldsOf(state)
           \/ /\ HoldsOf(new) = HoldsOf(state)
              /\ \/ PhaseOf(state) = "absent" /\ PhaseOf(new) = "active"
                 \/ PhaseOf(state) = "active" /\ PhaseOf(new) = "frozen"
                 \/ PhaseOf(state) \in {"active", "frozen"} /\ PhaseOf(new) = "archived"
           \/ /\ PhaseOf(new) = PhaseOf(state)
              /\ \/ PhaseOf(state) = "active"
                 \/ /\ PhaseOf(state) = "frozen" /\ HoldsOf(new) \subseteq HoldsOf(state)
                    /\ HoldsOf(state) \ HoldsOf(new) \subseteq Links
<1> DEFINE counted == [state EXCEPT !.created = TRUE, !.events = @ + 1]
<1>1. /\ r.type \in {"GRANT", "REVOKE"} => r.item \in Items
      /\ r.type \in {"CREATE", "ROTATE", "MEASURE", "FREEZE", "ARCHIVE", "GRANT", "REVOKE"}
  BY DEF IdentityEvents
<1>2. /\ state.items \in [Items -> Records] /\ counted.items = state.items /\ counted \in States
      /\ counted.created = TRUE /\ counted.status = state.status
      /\ state.status \in {"active", "frozen", "archived"}
  BY CountedType DEF States
<1>3. state.status # "archived" /\ (r.type = "CREATE" <=> ~state.created)
  BY DEF Allowed
<1>4. CASE r.type = "CREATE"
  <2>1. new = counted /\ state.status = "active"
    BY <1>3, <1>4 DEF Effect, EmptyState
  <2> QED BY <1>2, <1>3, <1>4, <2>1 DEF PhaseOf, HoldsOf
<1>5. CASE r.type \in {"ROTATE", "MEASURE"}
  <2>1. new = counted
    BY <1>5 DEF Effect
  <2> QED BY <1>2, <1>3, <1>5, <2>1 DEF PhaseOf, HoldsOf
<1>6. CASE r.type = "FREEZE"
  <2>1. new = [counted EXCEPT !.status = "frozen"]
    BY <1>6 DEF Effect
  <2>2. new.items = state.items /\ new.created = TRUE /\ new.status = "frozen"
    BY <1>2, <2>1 DEF States
  <2>3. state.status = "active"
    BY <1>2, <1>3, <1>6 DEF Allowed
  <2> QED BY <1>2, <1>3, <1>6, <2>2, <2>3 DEF PhaseOf, HoldsOf
<1>7. CASE r.type = "ARCHIVE"
  <2>1. new = [counted EXCEPT !.status = "archived"]
    BY <1>7 DEF Effect
  <2>2. new.items = state.items /\ new.created = TRUE /\ new.status = "archived"
    BY <1>2, <2>1 DEF States
  <2> QED BY <1>2, <1>3, <1>7, <2>2 DEF PhaseOf, HoldsOf
<1>8. CASE r.type = "GRANT"
  <2>1. new = [counted EXCEPT !.items[r.item] = Granted]
    BY <1>8 DEF Effect
  <2>2. new.created = TRUE /\ new.status = state.status
    BY <1>2, <2>1 DEF States
  <2>3. state.status = "active"
    BY <1>2, <1>3, <1>8 DEF Allowed
  <2> QED BY <1>2, <1>3, <1>8, <2>2, <2>3 DEF PhaseOf, HoldsOf
<1>9. CASE r.type = "REVOKE"
  <2>1. new = [counted EXCEPT !.items[r.item] = Revoked]
    BY <1>9 DEF Effect
  <2>2. new.created = TRUE /\ new.status = state.status /\ new.items = [state.items EXCEPT ![r.item] = Revoked]
    BY <1>2, <2>1 DEF States
  <2>3. PhaseOf(new) = PhaseOf(state) /\ PhaseOf(state) = state.status
    BY <1>2, <1>3, <1>9, <2>2 DEF PhaseOf
  <2>4. HoldsOf(new) = HoldsOf(state) \ {r.item}
    BY <1>1, <1>2, <1>9, <2>2 DEF HoldsOf, Revoked
  <2>5. state.status = "frozen" => r.item \in Links
    BY <1>9 DEF Allowed
  <2> QED BY <1>2, <1>3, <2>3, <2>4, <2>5
<1> QED BY <1>1, <1>4, <1>5, <1>6, <1>7, <1>8, <1>9

LEMMA AllLive == KernelInv => \A u \in Uris : Phase(u) = PhaseOf(Reduced(u)) /\ Holds(u) = HoldsOf(Reduced(u))
BY Lives DEF PhaseOf, HoldsOf

LEMMA LifeStep ==
    ASSUME Serial = TRUE, KernelInv, KernelInv', [Next]_vars
    PROVE  [Lifecycle!LNext]_(Lifecycle!lvars)
<1>1. \A u \in Uris : Reduced(u) \in States /\ (~Reduced(u).created => Reduced(u) = EmptyState)
  BY ReduceEmpty DEF KernelInv, Sound, Told, Reduced
<1>2. PICK phase : phase = [u \in Uris |-> Phase(u)]
  OBVIOUS
<1>3. PICK holds : holds = [u \in Uris |-> Holds(u)]
  OBVIOUS
<1>4. PICK phase2 : phase2 = [u \in Uris |-> Phase(u)']
  OBVIOUS
<1>5. PICK holds2 : holds2 = [u \in Uris |-> Holds(u)']
  OBVIOUS
<1>6. \A u \in Uris : phase[u] = PhaseOf(Reduced(u)) /\ holds[u] = HoldsOf(Reduced(u))
  BY <1>2, <1>3, AllLive
<1>7. \A u \in Uris : phase2[u] = PhaseOf(Reduced(u)') /\ holds2[u] = HoldsOf(Reduced(u)')
  <2>1. KernelInv' => (\A u \in Uris : Phase(u) = PhaseOf(Reduced(u)) /\ Holds(u) = HoldsOf(Reduced(u)))'
    BY AllLive, PTL
  <2>2. (\A u \in Uris : Phase(u) = PhaseOf(Reduced(u)) /\ Holds(u) = HoldsOf(Reduced(u)))'
    BY <2>1
  <2>3. \A u \in Uris : Phase(u)' = PhaseOf(Reduced(u)') /\ Holds(u)' = HoldsOf(Reduced(u)')
    BY <2>2 DEF PhaseOf, HoldsOf
  <2> QED BY <1>4, <1>5, <2>3
<1>8. CASE \A u \in Uris : Reduced(u)' = Reduced(u)
  <2>1. phase2 = phase /\ holds2 = holds
    BY <1>2, <1>3, <1>4, <1>5, <1>6, <1>7, <1>8
  <2> QED BY <1>2, <1>3, <1>4, <1>5, <2>1 DEF Lifecycle!lvars
<1>9. CASE \E u \in Uris, r \in IdentityEvents :
              /\ Allowed(Reduced(u), r) /\ Reduced(u)' = Effect(Reduced(u), r)
              /\ \A v \in Uris : v # u => Reduced(v)' = Reduced(v)
  <2>1. PICK u \in Uris, r \in IdentityEvents :
              /\ Allowed(Reduced(u), r) /\ Reduced(u)' = Effect(Reduced(u), r)
              /\ \A v \in Uris : v # u => Reduced(v)' = Reduced(v)
    BY <1>9
  <2>2. /\ phase2 = [phase EXCEPT ![u] = phase2[u]]
        /\ holds2 = [holds EXCEPT ![u] = holds2[u]]
    <3>1. \A v \in Uris : v # u => phase2[v] = phase[v] /\ holds2[v] = holds[v]
      BY <1>6, <1>7, <2>1
    <3>2. phase = [v \in Uris |-> phase[v]] /\ phase2 = [v \in Uris |-> phase2[v]]
      BY <1>2, <1>4
    <3>3. holds = [v \in Uris |-> holds[v]] /\ holds2 = [v \in Uris |-> holds2[v]]
      BY <1>3, <1>5
    <3>4. phase2 = [phase EXCEPT ![u] = phase2[u]]
      BY <3>1, <3>2
    <3>5. holds2 = [holds EXCEPT ![u] = holds2[u]]
      BY <3>1, <3>3
    <3> QED BY <3>4, <3>5
  <2>3. PICK old \in States : old = Reduced(u)
    BY <1>1
  <2>4. PICK new : new = Reduced(u)'
    OBVIOUS
  <2>5. /\ phase[u] = PhaseOf(old) /\ holds[u] = HoldsOf(old)
        /\ phase2[u] = PhaseOf(new) /\ holds2[u] = HoldsOf(new)
    BY <1>6, <1>7, <2>3, <2>4
  <2>6. /\ phase2[u] = phase[u] => phase2 = phase
        /\ holds2[u] = holds[u] => holds2 = holds
    BY <1>2, <1>3, <2>2
  <2>7. holds2[u] \in SUBSET (Credentials \cup Links)
    BY <2>5 DEF HoldsOf, Items
  <2>8. \/ phase2 = phase /\ holds2 = holds
        \/ /\ holds2 = holds
           /\ \/ phase[u] \in {"absent"} /\ phase2[u] = "active"
              \/ phase[u] \in {"active"} /\ phase2[u] = "frozen"
              \/ phase[u] \in {"active", "frozen"} /\ phase2[u] = "archived"
        \/ /\ phase2 = phase
           /\ \/ phase[u] = "active"
              \/ phase[u] = "frozen" /\ holds2[u] \subseteq holds[u] /\ holds[u] \ holds2[u] \subseteq Links
    BY <1>1, <2>1, <2>3, <2>4, <2>5, <2>6, EffectOnLife
  <2>9. \/ phase2 = phase /\ holds2 = holds
        \/ Lifecycle!Move(u, {"absent"}, "active")
        \/ Lifecycle!Move(u, {"active"}, "frozen")
        \/ Lifecycle!Move(u, {"active", "frozen"}, "archived")
        \/ Lifecycle!Change(u, holds2[u])
    BY <1>2, <1>3, <1>4, <1>5, <2>2, <2>8 DEF Lifecycle!Move, Lifecycle!Change
  <2> QED BY <1>2, <1>3, <1>4, <1>5, <2>7, <2>9 DEF Lifecycle!LNext, Lifecycle!lvars
<1> QED BY <1>8, <1>9, LifeNext

\* With calls that take turns the life of every identity, as its log tells it, is the one
\* IdentityLifecycle promises: frozen identities gain nothing, archived ones are final.
THEOREM IdentityLives ==
    ASSUME Serial = TRUE
    PROVE  Spec => ImplementsLifecycle
<1>1. Init => Lifecycle!LInit
  <2> SUFFICES ASSUME Init PROVE Lifecycle!LInit
    OBVIOUS
  <2>1. \A u \in Uris : Replay(log[u]) = <<>> /\ Reduced(u) = EmptyState
    BY ReplayEmpty, ReduceEmpty DEF Init, Reduced
  <2>2. \A u \in Uris : Phase(u) = "absent" /\ Holds(u) = {}
    BY <2>1 DEF Phase, Holds, EmptyState, Absent
  <2> QED BY <2>2 DEF Lifecycle!LInit
<1>2. KernelInv /\ KernelInv' /\ [Next]_vars => [Lifecycle!LNext]_(Lifecycle!lvars)
  BY LifeStep
<1> QED BY <1>1, <1>2, KernelInit, KernelNext, PTL DEF Spec, ImplementsLifecycle, Lifecycle!LSpec
===============================================================================
