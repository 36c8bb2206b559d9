----------------------------- MODULE SandboxProofs -----------------------------
(***************************************************************************)
(* What the servers of a sandbox may rely on, for any number of servers,   *)
(* chats, messages and rows: an acknowledged message stays in the log, and *)
(* while calls take turns all servers replay the same state from it and    *)
(* conversations keep what was acknowledged.                               *)
(***************************************************************************)
EXTENDS Sandbox, SequenceTheorems, NaturalsInduction, WellFoundedInduction, TLAPS

-------------------------------------------------------------------------------
\* Induction over the naturals, as the least element of a set.
Smaller == {p \in Nat \X Nat : p[1] < p[2]}

LEMMA SetInduction ==
    ASSUME NEW T \in SUBSET Nat, 0 \in T, \A n \in T : n + 1 \in T
    PROVE  T = Nat
<1> SUFFICES ASSUME Nat \ T # {} PROVE FALSE
  OBVIOUS
<1>1. IsWellFoundedOn(Smaller, Nat)
  BY NatLessThanWellFounded DEF OpToRel, Smaller
<1>2. \A x, y \in Nat : x < y => <<x, y>> \in Smaller
  BY DEF Smaller
<1>3. PICK n \in Nat \ T : \A m \in Nat \ T : ~(<<m, n>> \in Smaller)
  BY <1>1, WFMin
<1>4. n - 1 \in Nat /\ n - 1 \notin T
  BY <1>3
<1>5. <<n - 1, n>> \in Smaller
  BY <1>2, <1>4
<1> QED BY <1>3, <1>4, <1>5

-------------------------------------------------------------------------------
\* Replay: one row more is one step more.
\* iter says, for every set of places of rs, what replaying the rows there gives.
Folds(iter, base, rs, n) ==
    iter = [S \in SUBSET (1 .. n) |->
               IF S = {} THEN base ELSE ReplayRow(iter[S \ {Max(S)}], rs[Max(S)])]

LEMMA MaxOf ==
    ASSUME NEW n \in Nat, NEW S \in SUBSET (1 .. n + 1), n + 1 \in S
    PROVE  Max(S) = n + 1
<1>1. \A y \in S : n + 1 >= y
  OBVIOUS
<1>2. \A x \in S : (\A y \in S : x >= y) => x = n + 1
  OBVIOUS
<1> QED BY <1>1, <1>2 DEF Max

\* Every set of places has a last one.
LEMMA MaxExists ==
    ASSUME NEW n \in Nat, NEW S \in SUBSET (1 .. n), S # {}
    PROVE  Max(S) \in S
<1> DEFINE T == {k \in Nat : \A Q \in SUBSET (1 .. k) : Q # {} => Max(Q) \in Q}
<1>1. 0 \in T
  <2>1. 1 .. 0 = {}
    OBVIOUS
  <2>2. \A Q \in SUBSET (1 .. 0) : Q = {}
    BY <2>1
  <2> QED BY <2>2
<1>2. ASSUME NEW k \in T PROVE k + 1 \in T
  <2> SUFFICES ASSUME NEW Q \in SUBSET (1 .. k + 1), Q # {} PROVE Max(Q) \in Q
    OBVIOUS
  <2>1. CASE k + 1 \in Q
    BY <2>1, MaxOf
  <2>2. CASE k + 1 \notin Q
    <3>1. Q \in SUBSET (1 .. k)
      BY <2>2
    <3> QED BY <3>1
  <2> QED BY <2>1, <2>2
<1>3. T = Nat
  <2> HIDE DEF T
  <2> QED BY <1>1, <1>2, SetInduction DEF T
<1>4. n \in T
  <2> HIDE DEF T
  <2> QED BY <1>3
<1> QED BY <1>4

LEMMA FoldExists ==
    ASSUME NEW base, NEW rs, NEW n \in Nat
    PROVE  \E iter : Folds(iter, base, rs, n)
<1> DEFINE T == {k \in Nat : \E iter : Folds(iter, base, rs, k)}
<1>1. 0 \in T
  <2> DEFINE iter == [S \in SUBSET (1 .. 0) |-> base]
  <2>1. Folds(iter, base, rs, 0)
    BY DEF Folds
  <2> QED BY <2>1
<1>2. ASSUME NEW k \in T PROVE k + 1 \in T
  <2>1. PICK old : Folds(old, base, rs, k)
    OBVIOUS
  <2> DEFINE iter == [S \in SUBSET (1 .. k + 1) |->
                         IF k + 1 \in S THEN ReplayRow(old[S \ {k + 1}], rs[k + 1]) ELSE old[S]]
  <2>2. ASSUME NEW S \in SUBSET (1 .. k + 1)
        PROVE  iter[S] = IF S = {} THEN base ELSE ReplayRow(iter[S \ {Max(S)}], rs[Max(S)])
    <3>1. CASE k + 1 \in S
      <4>1. Max(S) = k + 1 /\ S \ {k + 1} \in SUBSET (1 .. k + 1) /\ k + 1 \notin S \ {k + 1}
        BY <3>1, MaxOf
      <4> QED BY <3>1, <4>1
    <3>2. CASE k + 1 \notin S
      <4>0. \A i \in 1 .. k + 1 : i # k + 1 => i \in 1 .. k
        OBVIOUS
      <4>1. S \in SUBSET (1 .. k) /\ S \ {Max(S)} \in SUBSET (1 .. k) /\ k + 1 \notin S \ {Max(S)}
        BY <3>2, <4>0, Zenon
      <4>2. S \ {Max(S)} \in SUBSET (1 .. k + 1)
        BY <4>1
      <4>3. old[S] = IF S = {} THEN base ELSE ReplayRow(old[S \ {Max(S)}], rs[Max(S)])
        BY <2>1, <4>1 DEF Folds
      <4>4. iter[S] = old[S] /\ iter[S \ {Max(S)}] = old[S \ {Max(S)}]
        BY <3>2, <4>1, <4>2
      <4> QED BY <4>3, <4>4
    <3> QED BY <3>1, <3>2
  <2>3. Folds(iter, base, rs, k + 1)
    <3>1. iter = [S \in SUBSET (1 .. k + 1) |-> iter[S]]
      OBVIOUS
    <3> HIDE DEF iter
    <3> QED BY <2>2, <3>1 DEF Folds
  <2> HIDE DEF iter
  <2> QED BY <2>3
<1>3. T = Nat
  <2> HIDE DEF T
  <2> QED BY <1>1, <1>2, SetInduction DEF T
<1>4. n \in T
  <2> HIDE DEF T
  <2> QED BY <1>3
<1> QED BY <1>4

\* Two folds agree as far as what they fold does.
LEMMA FoldsAgree ==
    ASSUME NEW base, NEW rs, NEW qs, NEW n \in Nat, NEW m \in Nat, NEW f, NEW g, Folds(f, base, rs, n), Folds(g, base, qs, m),
           NEW k \in Nat, k <= n, k <= m, \A i \in 1 .. k : rs[i] = qs[i]
    PROVE  f[1 .. k] = g[1 .. k]
<1> DEFINE T == {j \in Nat : j <= k => f[1 .. j] = g[1 .. j]}
<1>1. 0 \in T
  <2>1. 1 .. 0 = {} /\ {} \in SUBSET (1 .. n) /\ {} \in SUBSET (1 .. m)
    OBVIOUS
  <2> QED BY <2>1 DEF Folds
<1>2. ASSUME NEW j \in T PROVE j + 1 \in T
  <2> SUFFICES ASSUME j + 1 <= k PROVE f[1 .. j + 1] = g[1 .. j + 1]
    OBVIOUS
  <2> DEFINE S == 1 .. j + 1
  <2>0. j \in Nat /\ j + 1 \in Nat /\ j + 1 <= n /\ j + 1 <= m
    OBVIOUS
  <2>1. /\ S \in SUBSET (1 .. n) /\ S \in SUBSET (1 .. m) /\ j + 1 \in S
        /\ S \ {j + 1} = 1 .. j /\ S \in SUBSET (1 .. j + 1)
    BY <2>0
  <2>2. Max(S) = j + 1
    BY <2>0, <2>1, MaxOf
  <2>3. f[1 .. j] = g[1 .. j] /\ rs[j + 1] = qs[j + 1]
    OBVIOUS
  <2> HIDE DEF S
  <2>4. f[S] = ReplayRow(f[1 .. j], rs[j + 1]) /\ g[S] = ReplayRow(g[1 .. j], qs[j + 1])
    BY <2>1, <2>2 DEF Folds
  <2> QED BY <2>3, <2>4 DEF S
<1>3. T = Nat
  <2> HIDE DEF T
  <2> QED BY <1>1, <1>2, SetInduction DEF T
<1>4. k \in T
  <2> HIDE DEF T
  <2> QED BY <1>3
<1> QED BY <1>4

\* What replaying rows on a view gives.
Start(view) == [view |-> view, ok |-> TRUE]
Outcomes == [view : Seq(Rows), ok : BOOLEAN]

LEMMA ReplayedIsFold ==
    ASSUME NEW rows \in Seq(Rows), NEW view
    PROVE  \E iter : Folds(iter, Start(view), rows, Len(rows)) /\ Replayed(view, rows) = iter[1 .. Len(rows)]
<1>1. DOMAIN rows = 1 .. Len(rows) /\ Len(rows) \in Nat
  OBVIOUS
<1>2. Replayed(view, rows) =
          LET iter == CHOOSE iter : Folds(iter, Start(view), rows, Len(rows)) IN iter[1 .. Len(rows)]
  BY <1>1 DEF Replayed, FoldLeft, MapThenFoldSet, Start, Folds
<1> QED BY <1>1, <1>2, FoldExists

LEMMA ReplayedNothing ==
    ASSUME NEW view
    PROVE  Replayed(view, <<>>) = Start(view)
<1>1. <<>> \in Seq(Rows) /\ Len(<<>>) = 0 /\ 1 .. 0 = {}
  OBVIOUS
<1>2. PICK iter : Folds(iter, Start(view), <<>>, 0) /\ Replayed(view, <<>>) = iter[{}]
  BY <1>1, ReplayedIsFold
<1> QED BY <1>2 DEF Folds

LEMMA ReplayedAppend ==
    ASSUME NEW rows \in Seq(Rows), NEW o \in Rows, NEW view
    PROVE  Replayed(view, Append(rows, o)) = ReplayRow(Replayed(view, rows), o)
<1> DEFINE n == Len(rows)
           more == Append(rows, o)
<1>1. /\ n \in Nat /\ more \in Seq(Rows) /\ Len(more) = n + 1 /\ more[n + 1] = o
      /\ \A i \in 1 .. n : rows[i] = more[i]
  OBVIOUS
<1>2. PICK f : Folds(f, Start(view), rows, n) /\ Replayed(view, rows) = f[1 .. n]
  BY ReplayedIsFold
<1>3. PICK g : Folds(g, Start(view), more, n + 1) /\ Replayed(view, more) = g[1 .. n + 1]
  BY <1>1, ReplayedIsFold
<1> HIDE DEF n, more
<1>4. f[1 .. n] = g[1 .. n]
  BY <1>1, <1>2, <1>3, FoldsAgree
<1> DEFINE S == 1 .. n + 1
<1>5. S \in SUBSET (1 .. n + 1) /\ S # {} /\ n + 1 \in S /\ S \ {n + 1} = 1 .. n
  BY <1>1
<1>6. Max(S) = n + 1
  BY <1>1, <1>5, MaxOf
<1> HIDE DEF S
<1>7. g[S] = ReplayRow(g[1 .. n], o)
  BY <1>1, <1>3, <1>5, <1>6 DEF Folds
<1> QED BY <1>2, <1>3, <1>4, <1>7 DEF S, more

LEMMA ReplayRowType ==
    ASSUME NEW acc \in Outcomes, NEW o \in Rows
    PROVE  ReplayRow(acc, o) \in Outcomes
<1>1. acc.view \in Seq(Rows) /\ acc.ok \in BOOLEAN
  BY DEF Outcomes
<1>2. PICK longer \in Seq(Rows) : longer = Append(acc.view, o)
  <2>1. PICK v \in Seq(Rows) : v = acc.view
    BY <1>1
  <2>2. Append(v, o) \in Seq(Rows)
    OBVIOUS
  <2> QED BY <2>1, <2>2
<1>3. PICK create \in BOOLEAN : create = (o.op = "create")
  OBVIOUS
<1>4. [acc EXCEPT !.view = longer] \in Outcomes /\ [acc EXCEPT !.ok = create] \in Outcomes
  BY DEF Outcomes
<1> QED BY <1>2, <1>3, <1>4 DEF ReplayRow

\* Rows up to k; a row more.
Upto(rows, a, k) == SubSeq(rows, a + 1, a + k)

LEMMA UptoNext ==
    ASSUME NEW rows \in Seq(Rows), NEW a \in Nat, NEW k \in Nat, a + k + 1 <= Len(rows)
    PROVE  /\ Upto(rows, a, k) \in Seq(Rows) /\ rows[a + k + 1] \in Rows
           /\ Upto(rows, a, k + 1) = Append(Upto(rows, a, k), rows[a + k + 1])
<1>1. PICK few : few = SubSeq(rows, a + 1, a + k)
  OBVIOUS
<1>2. PICK many : many = SubSeq(rows, a + 1, a + k + 1)
  OBVIOUS
<1>3. /\ few \in Seq(Rows) /\ Len(few) = k /\ \A i \in 1 .. k : few[i] = rows[a + i]
  BY <1>1
<1>4. /\ many \in Seq(Rows) /\ Len(many) = k + 1 /\ \A i \in 1 .. k + 1 : many[i] = rows[a + i]
  BY <1>2
<1>5. rows[a + k + 1] \in Rows
  OBVIOUS
<1>6. PICK o \in Rows : o = rows[a + k + 1]
  BY <1>5
<1>7. many = Append(few, o)
  <2>1. \A i \in 1 .. k + 1 : many[i] = Append(few, o)[i]
    <3>1. \A i \in 1 .. k + 1 : i \in 1 .. k \/ i = k + 1
      OBVIOUS
    <3>2. \A i \in 1 .. k : Append(few, o)[i] = few[i]
      BY <1>3
    <3>3. Append(few, o)[k + 1] = o /\ many[k + 1] = rows[a + (k + 1)] /\ a + (k + 1) = a + k + 1
      BY <1>3, <1>4
    <3> QED BY <1>3, <1>4, <1>6, <3>1, <3>2, <3>3
  <2>2. Append(few, o) \in Seq(Rows) /\ Len(Append(few, o)) = k + 1
    BY <1>3
  <2> QED BY <1>4, <2>1, <2>2, SeqEqual
<1>8. a + (k + 1) = a + k + 1
  OBVIOUS
<1> QED BY <1>1, <1>2, <1>3, <1>5, <1>6, <1>7, <1>8 DEF Upto

\* Replaying the rows from a on over what replays to a is replaying them all.
LEMMA ReplayedTypes ==
    ASSUME NEW rows \in Seq(Rows), NEW view \in Seq(Rows)
    PROVE  Replayed(view, rows) \in Outcomes
<1> DEFINE T == {k \in Nat : k <= Len(rows) => Replayed(view, Upto(rows, 0, k)) \in Outcomes}
<1>1. 0 \in T
  <2>1. Upto(rows, 0, 0) = <<>>
    BY DEF Upto
  <2>2. Start(view) \in Outcomes
    BY DEF Start, Outcomes
  <2> QED BY <2>1, <2>2, ReplayedNothing
<1>2. ASSUME NEW k \in T PROVE k + 1 \in T
  <2> SUFFICES ASSUME k + 1 <= Len(rows) PROVE Replayed(view, Upto(rows, 0, k + 1)) \in Outcomes
    OBVIOUS
  <2>1. /\ Upto(rows, 0, k) \in Seq(Rows) /\ rows[k + 1] \in Rows
        /\ Upto(rows, 0, k + 1) = Append(Upto(rows, 0, k), rows[k + 1])
    BY UptoNext
  <2>2. Replayed(view, Upto(rows, 0, k)) \in Outcomes
    OBVIOUS
  <2>3. PICK few \in Seq(Rows) : few = Upto(rows, 0, k)
    BY <2>1
  <2>4. Replayed(view, Append(few, rows[k + 1])) = ReplayRow(Replayed(view, few), rows[k + 1])
    BY <2>1, ReplayedAppend
  <2> QED BY <2>1, <2>2, <2>3, <2>4, ReplayRowType
<1>3. T = Nat
  <2> HIDE DEF T
  <2> QED BY <1>1, <1>2, SetInduction DEF T
<1>4. Len(rows) \in T
  <2> HIDE DEF T
  <2> QED BY <1>3
<1>5. Upto(rows, 0, Len(rows)) = rows
  BY DEF Upto
<1> QED BY <1>4, <1>5

LEMMA ReplayedOn ==
    ASSUME NEW rows \in Seq(Rows), NEW a \in 0 .. Len(rows), NEW view,
           Replayed(<<>>, SubSeq(rows, 1, a)) = Start(view)
    PROVE  Replayed(view, SubSeq(rows, a + 1, Len(rows))) = Replayed(<<>>, rows)
<1> DEFINE T == {k \in Nat : a + k <= Len(rows) =>
                    Replayed(view, Upto(rows, a, k)) = Replayed(<<>>, Upto(rows, 0, a + k))}
<1>1. 0 \in T
  <2>1. Upto(rows, a, 0) = <<>> /\ Upto(rows, 0, a + 0) = SubSeq(rows, 1, a)
    BY DEF Upto
  <2> QED BY <2>1, ReplayedNothing
<1>2. ASSUME NEW k \in T PROVE k + 1 \in T
  <2> SUFFICES ASSUME a + (k + 1) <= Len(rows)
               PROVE  Replayed(view, Upto(rows, a, k + 1)) = Replayed(<<>>, Upto(rows, 0, a + (k + 1)))
    OBVIOUS
  <2>1. /\ Upto(rows, a, k) \in Seq(Rows) /\ rows[a + k + 1] \in Rows
        /\ Upto(rows, a, k + 1) = Append(Upto(rows, a, k), rows[a + k + 1])
    BY UptoNext
  <2>2. /\ Upto(rows, 0, a + k) \in Seq(Rows)
        /\ Upto(rows, 0, (a + k) + 1) = Append(Upto(rows, 0, a + k), rows[a + k + 1])
    BY UptoNext
  <2>3. Replayed(view, Upto(rows, a, k)) = Replayed(<<>>, Upto(rows, 0, a + k))
    OBVIOUS
  <2>4. a + (k + 1) = (a + k) + 1
    OBVIOUS
  <2> QED BY <2>1, <2>2, <2>3, <2>4, ReplayedAppend
<1>3. T = Nat
  <2> HIDE DEF T
  <2> QED BY <1>1, <1>2, SetInduction DEF T
<1>4. PICK k \in Nat : k = Len(rows) - a
  OBVIOUS
<1>5. k \in T
  <2> HIDE DEF T
  <2> QED BY <1>3
<1>6. a + k = Len(rows) /\ Upto(rows, 0, a + k) = rows /\ Upto(rows, a, k) = SubSeq(rows, a + 1, Len(rows))
  <2>1. a + k = Len(rows)
    BY <1>4
  <2>2. SubSeq(rows, 1, Len(rows)) = rows
    OBVIOUS
  <2> QED BY <2>1, <2>2 DEF Upto
<1>7. Replayed(view, Upto(rows, a, k)) = Replayed(<<>>, Upto(rows, 0, a + k))
  <2>1. a + k <= Len(rows)
    BY <1>4
  <2> QED BY <1>5, <2>1
<1> HIDE DEF T
<1> QED BY <1>6, <1>7

-------------------------------------------------------------------------------
\* Types.
Writing == {"write", "say", "summary", "fork"}

TypeInv ==
    /\ mode \in Modes
    /\ ops \in Seq(Rows)
    /\ tail \in {"clean", "bare", "torn"}
    /\ ctx \in [Servers -> Contexts \cup {None}]
    /\ call \in [Servers -> ToolCalls \cup {None}]
    /\ acked \in Seq([uri : Chats, msg : Messages])
    /\ \A s \in Servers : call[s] # None =>
          ctx[s] # None /\ call[s].todo # <<>> /\ (call[s].fresh => Head(call[s].todo).do \in Writing)

LEMMA NoneIsNothing == None \notin Texts /\ None \notin Contexts /\ None \notin ToolCalls
BY NoneAssumption

LEMMA EngineCallTypes ==
    ASSUME NEW e \in EngineCalls
    PROVE  /\ e.uri \in Chats /\ e.do \in {"get", "ensure"} \cup Writing
           /\ e.do = "write" => e.row \in Rows
           /\ e.do = "say" => e.msg \in Messages
BY DEF EngineCalls, Writing

LEMMA RowOfType ==
    ASSUME NEW c \in ToolCalls, c.todo # <<>>, Head(c.todo).do \in Writing
    PROVE  RowOf(c) \in Rows
<1>1. c.held \in Texts /\ c.todo \in Seq(EngineCalls)
  BY DEF ToolCalls
<1>2. PICK st \in EngineCalls : st = Head(c.todo)
  BY <1>1
<1>3. PICK held \in Seq(Messages \cup {Summary}) : held = c.held
  BY <1>1 DEF Texts
<1>4. \A m \in Messages \cup {Summary} : Append(held, m) \in Texts
  BY DEF Texts
<1>5. held \in Texts
  BY DEF Texts
<1>6. ASSUME NEW why \in {"say", "summary", "fork"}, NEW msgs \in Texts PROVE Patch(st.uri, why, msgs) \in Rows
  BY EngineCallTypes DEF Patch, Rows
<1>7. CASE st.do = "write"
  BY <1>2, <1>7, EngineCallTypes DEF RowOf
<1>8. CASE st.do = "say"
  <2>1. RowOf(c) = Patch(st.uri, "say", Append(held, st.msg))
    BY <1>2, <1>3, <1>8 DEF RowOf
  <2>2. Append(held, st.msg) \in Texts
    BY <1>4, <1>8, EngineCallTypes
  <2> QED BY <1>6, <2>1, <2>2
<1>9. CASE st.do = "summary"
  <2>1. RowOf(c) = Patch(st.uri, "summary", Append(held, Summary))
    BY <1>2, <1>3, <1>9 DEF RowOf
  <2>2. Append(held, Summary) \in Texts
    BY <1>4
  <2> QED BY <1>6, <2>1, <2>2
<1>10. CASE st.do = "fork"
  <2>1. RowOf(c) = Patch(st.uri, "fork", held)
    BY <1>2, <1>3, <1>10 DEF RowOf
  <2> QED BY <1>5, <1>6, <2>1
<1> QED BY <1>2, <1>7, <1>8, <1>9, <1>10, EngineCallTypes DEF Writing

LEMMA SaysType ==
    ASSUME NEW view \in Seq(Rows), NEW u
    PROVE  Says(view, u) \in Texts
<1> DEFINE I == {i \in 1 .. Len(view) : view[i].op = "patch" /\ view[i].uri = u /\ view[i].msgs # None}
<1>1. Says(view, u) = LET last == IF I # {} THEN Max(I) ELSE 0 IN IF last = 0 THEN <<>> ELSE view[last].msgs
  BY DEF Says, SelectLastInSeq
<1>2. CASE I = {}
  <2>1. <<>> \in Texts
    BY DEF Texts
  <2> QED BY <1>1, <1>2, <2>1
<1>3. CASE I # {}
  <2>1. I \in SUBSET (1 .. Len(view)) /\ Len(view) \in Nat
    OBVIOUS
  <2>2. Max(I) \in I
    BY <1>3, <2>1, MaxExists
  <2>3. PICK i \in I : i = Max(I)
    BY <2>2
  <2>4. i # 0 /\ view[i] \in Rows /\ view[i].op = "patch" /\ view[i].msgs # None
    OBVIOUS
  <2>5. view[i].msgs \in Texts
    BY <2>4 DEF Rows
  <2> QED BY <1>1, <1>3, <2>3, <2>4, <2>5
<1> QED BY <1>2, <1>3

LEMMA RefreshType ==
    ASSUME TypeInv, NEW c \in Contexts
    PROVE  Refresh(c) \in Contexts
<1>1. c.view \in Seq(Rows) /\ c.applied \in Nat /\ ops \in Seq(Rows)
  BY DEF Contexts, TypeInv
<1>2. Missed(c) \in Seq(Rows) /\ Len(ops) \in Nat
  BY <1>1 DEF Missed
<1>3. Replayed(c.view, Missed(c)) \in Outcomes
  BY <1>1, <1>2, ReplayedTypes
<1>4. PICK r \in Outcomes : r = Replayed(c.view, Missed(c))
  BY <1>3
<1> QED BY <1>1, <1>2, <1>4 DEF Refresh, Contexts, Outcomes

\* The programs of the tools.
LEMMA ToolTypes ==
    ASSUME NEW program \in Tools
    PROVE  program \in Seq(EngineCalls) /\ program # <<>>
<1>1. PICK u \in Chats : program \in QsoTools(u) \cup ChatRead(u) \cup ChatAppend(u) \cup ChatSummarize(u) \cup ChatFork(u)
  BY DEF Tools
<1>2. ASSUME NEW v \in Chats
      PROVE  /\ Get(v) \in EngineCalls /\ Ensure(v) \in EngineCalls /\ Note(v) \in EngineCalls
             /\ Do(Create(v)) \in EngineCalls /\ Do(Link(u, v)) \in EngineCalls
             /\ Summarise(v) \in Seq(EngineCalls) /\ ForkTo(v) \in Seq(EngineCalls)
             /\ \A m \in Messages : Say(v, m) \in EngineCalls
  <2>1. Create(v) \in Rows /\ Link(u, v) \in Rows /\ Patch(v, "note", None) \in Rows
    BY DEF Create, Link, Patch, Rows
  <2>2. Get(v) \in EngineCalls /\ Ensure(v) \in EngineCalls
    BY DEF Get, Ensure, EngineCalls
  <2>3. Note(v) \in EngineCalls /\ Do(Create(v)) \in EngineCalls /\ Do(Link(u, v)) \in EngineCalls
    BY <2>1 DEF Note, Do, EngineCalls, Create, Link, Patch
  <2>4. [do |-> "summary", uri |-> v] \in EngineCalls /\ [do |-> "fork", uri |-> v] \in EngineCalls
    BY DEF EngineCalls
  <2>5. Summarise(v) \in Seq(EngineCalls) /\ ForkTo(v) \in Seq(EngineCalls)
    BY <2>2, <2>4 DEF Summarise, ForkTo
  <2>6. \A m \in Messages : Say(v, m) \in EngineCalls
    BY DEF Say, EngineCalls
  <2> QED BY <2>2, <2>3, <2>5, <2>6
<1>10. PICK get \in EngineCalls : get = Get(u)
  BY <1>2
<1>11. PICK ensure \in EngineCalls : ensure = Ensure(u)
  BY <1>2
<1>12. <<ensure, get>> \in Seq(EngineCalls) /\ Len(<<ensure, get>>) = 2
  OBVIOUS
<1>3. CASE program \in QsoTools(u)
  <2>1. PICK e \in EngineCalls : program = <<e>>
    BY <1>2, <1>3 DEF QsoTools
  <2> QED BY <2>1
<1>4. CASE program \in ChatRead(u)
  <2>1. program = <<ensure, get>>
    BY <1>4, <1>10, <1>11 DEF ChatRead
  <2> QED BY <1>12, <2>1
<1>5. CASE program \in ChatAppend(u)
  <2>1. PICK m \in Messages : program = <<Ensure(u), Get(u), Say(u, m)>>
    BY <1>5 DEF ChatAppend, NewMessages
  <2>2. PICK say \in EngineCalls : say = Say(u, m)
    BY <1>2
  <2>3. program = <<ensure, get, say>>
    BY <1>10, <1>11, <2>1, <2>2
  <2> QED BY <2>3
<1>6. CASE program \in ChatSummarize(u)
  <2>1. PICK few \in Seq(EngineCalls) : few = <<ensure, get>>
    BY <1>12
  <2>2. PICK more \in Seq(EngineCalls) : more = Summarise(u)
    BY <1>2
  <2>3. program = few \o more /\ Len(few) = 2
    BY <1>6, <1>10, <1>11, <1>12, <2>1, <2>2 DEF ChatSummarize
  <2> QED BY <2>3
<1>7. CASE program \in ChatFork(u)
  <2>1. PICK v \in Chats : program = <<Ensure(u), Get(u)>> \o ForkTo(v)
    BY <1>7 DEF ChatFork
  <2>2. PICK few \in Seq(EngineCalls) : few = <<ensure, get>>
    BY <1>12
  <2>3. PICK more \in Seq(EngineCalls) : more = ForkTo(v)
    BY <1>2
  <2>4. program = few \o more /\ Len(few) = 2
    BY <1>10, <1>11, <1>12, <2>1, <2>2, <2>3
  <2> QED BY <2>4
<1> QED BY <1>1, <1>3, <1>4, <1>5, <1>6, <1>7

\* A call that may make an engine call.
Ready(s, c) ==
    /\ ctx[s] \in Contexts
    /\ c \in ToolCalls /\ c.todo # <<>> /\ ~c.fresh
    /\ Head(c.todo) \in EngineCalls /\ Tail(c.todo) \in Seq(EngineCalls)
    /\ call[s] = c \/ (call[s] = None /\ (mode = "turns" => \A x \in Servers : call[x] = None))

LEMMA WaitingTypes ==
    ASSUME TypeInv, NEW s \in Servers, NEW c \in Waiting(s)
    PROVE  Ready(s, c)
<1>1. ctx[s] # None
  <2> SUFFICES ASSUME ctx[s] = None PROVE FALSE
    OBVIOUS
  <2>1. call[s] = None
    BY DEF TypeInv
  <2>2. Waiting(s) = {}
    BY <2>1 DEF Waiting
  <2> QED BY <2>2
<1>2. ctx[s] \in Contexts /\ call[s] \in ToolCalls \cup {None}
  BY <1>1 DEF TypeInv
<1>3. CASE call[s] # None
  <2>1. c = call[s] /\ ~c.fresh /\ c.todo # <<>> /\ c \in ToolCalls
    BY <1>1, <1>2, <1>3 DEF Waiting, TypeInv
  <2>2. c.todo \in Seq(EngineCalls)
    BY <2>1 DEF ToolCalls
  <2> QED BY <1>2, <2>1, <2>2 DEF Ready
<1>4. CASE call[s] = None
  <2>1. c \in (IF (mode = "turns" /\ \E x \in Servers : call[x] # None) \/ Len(ctx[s].view) >= MaxOps[mode] THEN {}
               ELSE {[todo |-> program, held |-> <<>>, fresh |-> FALSE] : program \in Tools})
    BY <1>1, <1>4 DEF Waiting
  <2>2. /\ mode = "turns" => \A x \in Servers : call[x] = None
        /\ c \in {[todo |-> program, held |-> <<>>, fresh |-> FALSE] : program \in Tools}
    BY <2>1
  <2>3. PICK program \in Tools : c = [todo |-> program, held |-> <<>>, fresh |-> FALSE]
    BY <2>2
  <2>4. program \in Seq(EngineCalls) /\ program # <<>> /\ <<>> \in Texts
    BY ToolTypes DEF Texts
  <2>5. PICK todo \in Seq(EngineCalls) : todo = program
    BY <2>4
  <2> QED BY <1>2, <1>4, <2>2, <2>3, <2>4, <2>5 DEF Ready, ToolCalls
<1> QED BY <1>3, <1>4

\* What the state of the calls may become.
CallTypes ==
    /\ call \in [Servers -> ToolCalls \cup {None}]
    /\ \A s \in Servers : call[s] # None =>
          ctx[s] # None /\ call[s].todo # <<>> /\ (call[s].fresh => Head(call[s].todo).do \in Writing)

LEMMA GoOnTypes ==
    ASSUME TypeInv, NEW s \in Servers, NEW todo \in Seq(EngineCalls), NEW held \in Texts, GoOn(s, todo, held),
           \A x \in Servers : ctx'[x] = None => ctx[x] = None, ctx'[s] # None
    PROVE  CallTypes' /\ (call'[s] # None => ~call'[s].fresh)
<1> DEFINE new == [todo |-> todo, held |-> held, fresh |-> FALSE]
<1>1. call' = [call EXCEPT ![s] = None] \/ (call' = [call EXCEPT ![s] = new] /\ todo # <<>>)
  BY DEF GoOn
<1>2. new \in ToolCalls /\ new.todo = todo /\ ~new.fresh
  BY DEF ToolCalls
<1>3. CASE call' = [call EXCEPT ![s] = None]
  BY <1>3 DEF CallTypes, TypeInv
<1>4. CASE call' = [call EXCEPT ![s] = new] /\ todo # <<>>
  <2> HIDE DEF new
  <2>1. call' \in [Servers -> ToolCalls \cup {None}] /\ call'[s] = new /\ \A x \in Servers \ {s} : call'[x] = call[x]
    BY <1>2, <1>4 DEF TypeInv
  <2> QED BY <1>2, <1>4, <2>1 DEF CallTypes, TypeInv
<1> QED BY <1>1, <1>3, <1>4

LEMMA FailTypes ==
    ASSUME TypeInv, NEW s \in Servers, Fail(s), \A x \in Servers \ {s} : ctx'[x] = ctx[x]
    PROVE  CallTypes' /\ call'[s] = None
BY DEF CallTypes, TypeInv, Fail

LEMMA CaughtUpTypes ==
    ASSUME TypeInv, NEW s \in Servers, ctx[s] \in Contexts, CaughtUp(s)
    PROVE  /\ ctx' \in [Servers -> Contexts \cup {None}]
           /\ ctx'[s] = Refresh(ctx[s]) /\ ctx'[s] # None /\ \A x \in Servers \ {s} : ctx'[x] = ctx[x]
<1>1. Refresh(ctx[s]) \in Contexts
  BY RefreshType
<1> QED BY <1>1, NoneIsNothing DEF TypeInv, CaughtUp

LEMMA AppliedTypes ==
    ASSUME TypeInv, NEW s \in Servers, call[s] # None, call[s].fresh
    PROVE  /\ Row(s) \in Rows /\ call[s] \in ToolCalls /\ Now(s) \in EngineCalls /\ Now(s).do \in Writing
           /\ call[s].todo \in Seq(EngineCalls) /\ call[s].todo # <<>> /\ call[s].held \in Texts
           /\ ctx[s] \in Contexts /\ ctx[s].view \in Seq(Rows) /\ ctx[s].applied \in Nat
           /\ Applied(s) \in Contexts /\ Applied(s) = [ctx[s] EXCEPT !.view = Append(ctx[s].view, Row(s))]
           /\ Append(ctx[s].view, Row(s)) \in Seq(Rows)
<1>1. /\ call[s] \in ToolCalls /\ call[s].todo # <<>> /\ Head(call[s].todo).do \in Writing
      /\ ctx[s] \in Contexts
  BY DEF TypeInv
<1>2. call[s].todo \in Seq(EngineCalls) /\ call[s].held \in Texts /\ ctx[s].view \in Seq(Rows) /\ ctx[s].applied \in Nat
  BY <1>1 DEF ToolCalls, Contexts
<1>3. Row(s) \in Rows
  BY <1>1, RowOfType DEF Row
<1>4. PICK longer \in Seq(Rows) : longer = Append(ctx[s].view, Row(s))
  <2>1. PICK v \in Seq(Rows) : v = ctx[s].view
    BY <1>2
  <2>2. Append(v, Row(s)) \in Seq(Rows)
    BY <1>3
  <2> QED BY <2>1, <2>2
<1>5. Applied(s) = [ctx[s] EXCEPT !.view = longer]
  BY <1>4 DEF Applied
<1>6. Applied(s) \in Contexts
  BY <1>1, <1>5 DEF Contexts
<1>7. Now(s) \in EngineCalls
  BY <1>1, <1>2 DEF Now
<1> QED BY <1>1, <1>2, <1>3, <1>4, <1>5, <1>6, <1>7 DEF Now

LEMMA PutTypes ==
    ASSUME TypeInv, NEW row \in Rows, PutRow(row) \/ CutRow(row)
    PROVE  ops' \in Seq(Rows) /\ tail' \in {"clean", "bare", "torn"} /\ (ops' = ops \/ ops' = Append(ops, row))
<1>1. ops \in Seq(Rows)
  BY DEF TypeInv
<1>2. Append(ops, row) \in Seq(Rows)
  BY <1>1
<1> QED BY <1>1, <1>2 DEF PutRow, CutRow

\* What follows a message.
LEMMA FollowType ==
    ASSUME NEW u \in Chats, NEW msgs
    PROVE  Follow(u, msgs) \in Seq(EngineCalls)
<1>1. Ensure(u) \in EngineCalls /\ [do |-> "summary", uri |-> u] \in EngineCalls
  BY DEF Ensure, EngineCalls
<1>2. Note(u) \in EngineCalls
  <2>1. Patch(u, "note", None) \in Rows
    BY DEF Patch, Rows
  <2> QED BY <2>1 DEF Note, Do, Patch, EngineCalls
<1>3. PICK first \in Seq(EngineCalls) : first = (IF Spoken(msgs) % SummaryEvery = 0 THEN Summarise(u) ELSE <<>>)
  <2>1. Summarise(u) \in Seq(EngineCalls) /\ <<>> \in Seq(EngineCalls)
    BY <1>1 DEF Summarise
  <2>2. (IF Spoken(msgs) % SummaryEvery = 0 THEN Summarise(u) ELSE <<>>) \in Seq(EngineCalls)
    BY <2>1, Zenon
  <2> QED BY <2>2, Zenon
<1>4. PICK second \in Seq(EngineCalls) : second = (IF Len(msgs) % AuditEvery = 0 THEN <<Note(u)>> ELSE <<>>)
  <2>1. <<Note(u)>> \in Seq(EngineCalls) /\ <<>> \in Seq(EngineCalls)
    BY <1>2
  <2>2. (IF Len(msgs) % AuditEvery = 0 THEN <<Note(u)>> ELSE <<>>) \in Seq(EngineCalls)
    BY <2>1, Zenon
  <2> QED BY <2>2, Zenon
<1> QED BY <1>3, <1>4 DEF Follow

LEMMA AcknowledgeTypes ==
    ASSUME TypeInv, NEW s \in Servers, call[s] # None, call[s].fresh, Acknowledge(s),
           \A x \in Servers : ctx'[x] = None => ctx[x] = None, ctx'[s] # None
    PROVE  /\ CallTypes' /\ (call'[s] # None => ~call'[s].fresh)
           /\ acked' \in Seq([uri : Chats, msg : Messages])
           /\ \/ acked' = acked
              \/ /\ acked' = Append(acked, [uri |-> Now(s).uri, msg |-> Now(s).msg])
                 /\ Now(s).do = "say" /\ Now(s).msg \in Messages
<1>1. /\ Row(s) \in Rows /\ Now(s) \in EngineCalls /\ call[s].todo \in Seq(EngineCalls) /\ call[s].todo # <<>>
      /\ call[s].held \in Texts
  BY AppliedTypes
<1>2. PICK now \in EngineCalls : now = Now(s)
  BY <1>1
<1>3. PICK rest \in Seq(EngineCalls) : rest = Tail(call[s].todo)
  <2>1. PICK todo \in Seq(EngineCalls) : todo = call[s].todo /\ todo # <<>>
    BY <1>1
  <2>2. Tail(todo) \in Seq(EngineCalls)
    BY <2>1
  <2> QED BY <2>1, <2>2
<1>4. acked \in Seq([uri : Chats, msg : Messages])
  BY DEF TypeInv
<1>5. CASE now.do = "say"
  <2>1. now.msg \in Messages /\ now.uri \in Chats
    BY <1>5, EngineCallTypes
  <2>2. Row(s).msgs \in Texts
    <3>1. Row(s) = Patch(now.uri, "say", Append(call[s].held, now.msg))
      BY <1>2, <1>5 DEF Row, RowOf, Now
    <3>2. PICK held \in Seq(Messages \cup {Summary}) : held = call[s].held
      BY <1>1 DEF Texts
    <3>3. Append(held, now.msg) \in Texts
      BY <2>1 DEF Texts
    <3> QED BY <3>1, <3>2, <3>3 DEF Patch
  <2>3. PICK more \in Seq(EngineCalls) : more = Follow(now.uri, Row(s).msgs)
    BY <2>1, FollowType
  <2>4. rest \o more \in Seq(EngineCalls)
    OBVIOUS
  <2>5. GoOn(s, rest \o more, Row(s).msgs)
    BY <1>2, <1>3, <1>5, <2>3 DEF Acknowledge
  <2>6. CallTypes' /\ (call'[s] # None => ~call'[s].fresh)
    BY <2>2, <2>4, <2>5, GoOnTypes
  <2>7. PICK new \in [uri : Chats, msg : Messages] : new = [uri |-> now.uri, msg |-> now.msg]
    BY <2>1
  <2>8. acked' = Append(acked, new)
    BY <1>2, <1>5, <2>7 DEF Acknowledge
  <2>9. Append(acked, new) \in Seq([uri : Chats, msg : Messages])
    BY <1>4
  <2> QED BY <1>2, <1>5, <2>1, <2>6, <2>7, <2>8, <2>9
<1>6. CASE now.do # "say"
  <2>1. acked' = acked /\ GoOn(s, rest, call[s].held)
    BY <1>2, <1>3, <1>6 DEF Acknowledge
  <2> QED BY <1>1, <1>4, <2>1, GoOnTypes
<1> QED BY <1>5, <1>6

LEMMA CommitTypes ==
    ASSUME TypeInv, NEW s \in Servers, Commit(s)
    PROVE  /\ ctx' \in [Servers -> Contexts \cup {None}]
           /\ ctx'[s] = [view |-> Append(ctx[s].view, Row(s)), applied |-> ctx[s].applied + 1]
           /\ ctx'[s] # None /\ \A x \in Servers \ {s} : ctx'[x] = ctx[x]
<1>1. call[s] # None /\ call[s].fresh
  BY DEF Commit, Writes
<1>2. /\ Applied(s) \in Contexts /\ Applied(s) = [ctx[s] EXCEPT !.view = Append(ctx[s].view, Row(s))]
      /\ ctx[s].applied \in Nat /\ ctx[s] \in Contexts
  BY <1>1, AppliedTypes
<1>3. PICK c \in Contexts : c = Applied(s) /\ c.applied = ctx[s].applied /\ c.view = Append(ctx[s].view, Row(s))
  <2>1. PICK old \in Contexts : old = ctx[s]
    BY <1>2
  <2>2. Applied(s) = [old EXCEPT !.view = Append(ctx[s].view, Row(s))]
    BY <1>2, <2>1
  <2> QED BY <1>2, <2>1, <2>2 DEF Contexts
<1>4. ctx' = [ctx EXCEPT ![s] = [c EXCEPT !.applied = c.applied + 1]]
  BY <1>3 DEF Commit
<1>5. PICK d \in Contexts : d = [c EXCEPT !.applied = c.applied + 1] /\ d = [view |-> c.view, applied |-> c.applied + 1]
  <2>1. c.view \in Seq(Rows) /\ c.applied \in Nat
    BY DEF Contexts
  <2>2. [c EXCEPT !.applied = c.applied + 1] = [view |-> c.view, applied |-> c.applied + 1]
    BY DEF Contexts
  <2>3. [view |-> c.view, applied |-> c.applied + 1] \in Contexts
    BY <2>1 DEF Contexts
  <2> QED BY <2>2, <2>3
<1> QED BY <1>3, <1>4, <1>5, NoneIsNothing DEF TypeInv

LEMMA LookTypes ==
    ASSUME TypeInv, NEW s \in Servers, Look(s)
    PROVE  /\ CallTypes' /\ ctx' \in [Servers -> Contexts \cup {None}]
           /\ call'[s] # None => ~call'[s].fresh
           /\ ctx[s] \in Contexts /\ ctx'[s] = Refresh(ctx[s]) /\ \A x \in Servers \ {s} : ctx'[x] = ctx[x]
           /\ \A x \in Servers \ {s} : call'[x] = call[x]
           /\ call[s] # None \/ (mode = "turns" => \A x \in Servers : call[x] = None)
<1> DEFINE view == Refresh(ctx[s]).view
<1>1. PICK c \in Waiting(s) :
          LET u == Head(c.todo).uri
          IN  \/ Head(c.todo).do = "get" /\ GoOn(s, Tail(c.todo), Says(view, u))
              \/ Head(c.todo).do = "ensure" /\ u \in Made(view) /\ GoOn(s, Tail(c.todo), c.held)
              \/ /\ Head(c.todo).do = "ensure" /\ u \notin Made(view)
                 /\ GoOn(s, <<Do(Create(u)), Do(Patch(u, "init", <<>>))>> \o Tail(c.todo), c.held)
  BY DEF Look
<1>2. Ready(s, c)
  BY WaitingTypes
<1>3. c \in ToolCalls /\ Head(c.todo) \in EngineCalls /\ Tail(c.todo) \in Seq(EngineCalls) /\ c.held \in Texts
  BY <1>2 DEF Ready, ToolCalls
<1>4. /\ ctx' \in [Servers -> Contexts \cup {None}]
      /\ ctx'[s] = Refresh(ctx[s]) /\ ctx'[s] # None /\ \A x \in Servers \ {s} : ctx'[x] = ctx[x]
  BY <1>2, CaughtUpTypes DEF Look, Ready
<1>5. view \in Seq(Rows)
  BY <1>2, RefreshType DEF Ready, Contexts
<1>6. PICK e \in EngineCalls : e = Head(c.todo)
  BY <1>3
<1>7. PICK rest \in Seq(EngineCalls) : rest = Tail(c.todo)
  BY <1>3
<1>8. e.uri \in Chats
  BY EngineCallTypes
<1>9. PICK create \in EngineCalls : create = Do(Create(e.uri))
  BY <1>8 DEF Do, Create, Rows, EngineCalls
<1>10. PICK init \in EngineCalls : init = Do(Patch(e.uri, "init", <<>>))
  <2>1. <<>> \in Texts
    BY DEF Texts
  <2>2. Patch(e.uri, "init", <<>>) \in Rows
    BY <1>8, <2>1 DEF Patch, Rows
  <2> QED BY <1>8, <2>2 DEF Do, Patch, EngineCalls
<1>11. PICK more \in Seq(EngineCalls) : more = <<create, init>> \o rest
  <2>1. PICK both \in Seq(EngineCalls) : both = <<create, init>>
    <3>1. <<create, init>> \in Seq(EngineCalls)
      OBVIOUS
    <3> QED BY <3>1
  <2>2. both \o rest \in Seq(EngineCalls)
    OBVIOUS
  <2> QED BY <2>1, <2>2
<1>12. Says(view, e.uri) \in Texts
  BY <1>5, SaysType
<1> HIDE DEF view
<1>13. \E todo \in Seq(EngineCalls), held \in Texts : GoOn(s, todo, held)
  BY <1>1, <1>3, <1>6, <1>7, <1>9, <1>10, <1>11, <1>12
<1>14. CallTypes' /\ (call'[s] # None => ~call'[s].fresh)
  BY <1>4, <1>13, GoOnTypes
<1>15. \A x \in Servers \ {s} : call'[x] = call[x]
  BY <1>13 DEF GoOn, TypeInv
<1>16. c # None
  BY <1>3, NoneIsNothing
<1> QED BY <1>2, <1>4, <1>14, <1>15, <1>16 DEF Ready

LEMMA CatchUpTypes ==
    ASSUME TypeInv, NEW s \in Servers, CatchUp(s)
    PROVE  /\ CallTypes' /\ ctx' \in [Servers -> Contexts \cup {None}]
           /\ ctx[s] \in Contexts /\ ctx'[s] = Refresh(ctx[s]) /\ \A x \in Servers \ {s} : ctx'[x] = ctx[x]
           /\ \A x \in Servers \ {s} : call'[x] = call[x]
           /\ call'[s] # None => ~Raises(ctx'[s].view, RowOf(call'[s]))
           /\ call[s] # None \/ (mode = "turns" => \A x \in Servers : call[x] = None)
<1>1. PICK c \in Waiting(s) :
          /\ Head(c.todo).do \in {"write", "say", "summary", "fork"}
          /\ IF Raises(Refresh(ctx[s]).view, RowOf(c)) THEN Fail(s)
             ELSE call' = [call EXCEPT ![s] = [c EXCEPT !.fresh = TRUE]]
  BY DEF CatchUp
<1>2. Ready(s, c)
  BY WaitingTypes
<1>3. c \in ToolCalls /\ c.todo # <<>> /\ c # None
  BY <1>2, NoneIsNothing DEF Ready
<1>4. /\ ctx' \in [Servers -> Contexts \cup {None}]
      /\ ctx'[s] = Refresh(ctx[s]) /\ ctx'[s] # None /\ \A x \in Servers \ {s} : ctx'[x] = ctx[x]
  BY <1>2, CaughtUpTypes DEF CatchUp, Ready
<1>5. CASE Fail(s)
  <2>1. CallTypes' /\ call'[s] = None
    BY <1>4, <1>5, FailTypes
  <2>2. \A x \in Servers \ {s} : call'[x] = call[x]
    BY <1>5 DEF Fail, TypeInv
  <2> QED BY <1>2, <1>3, <1>4, <2>1, <2>2 DEF Ready
<1>6. CASE ~Raises(Refresh(ctx[s]).view, RowOf(c)) /\ call' = [call EXCEPT ![s] = [c EXCEPT !.fresh = TRUE]]
  <2>1. PICK d \in ToolCalls : d = [c EXCEPT !.fresh = TRUE] /\ d.todo = c.todo /\ d.held = c.held
    <3>0. PICK yes \in BOOLEAN : yes = TRUE
      OBVIOUS
    <3>1. PICK todo \in Seq(EngineCalls), held \in Texts, no \in BOOLEAN : c = [todo |-> todo, held |-> held, fresh |-> no]
      BY <1>3 DEF ToolCalls
    <3>2. [c EXCEPT !.fresh = yes] = [todo |-> todo, held |-> held, fresh |-> yes]
      BY <3>1
    <3>3. [todo |-> todo, held |-> held, fresh |-> yes] \in ToolCalls
      BY DEF ToolCalls
    <3>4. c.todo = todo /\ c.held = held
      BY <3>1
    <3> QED BY <3>0, <3>2, <3>3, <3>4
  <2>2. /\ call' \in [Servers -> ToolCalls \cup {None}] /\ call'[s] = d
        /\ \A x \in Servers \ {s} : call'[x] = call[x]
    BY <1>6, <2>1 DEF TypeInv
  <2>3. CallTypes'
    <3>1. d.todo # <<>> /\ Head(d.todo).do \in Writing
      BY <1>1, <1>3, <2>1 DEF Writing
    <3>2. \A x \in Servers \ {s} : call[x] # None =>
              ctx[x] # None /\ call[x].todo # <<>> /\ (call[x].fresh => Head(call[x].todo).do \in Writing)
      BY DEF TypeInv
    <3> QED BY <1>4, <2>2, <3>1, <3>2 DEF CallTypes
  <2>4. RowOf(call'[s]) = RowOf(c)
    BY <2>1, <2>2 DEF RowOf
  <2> QED BY <1>2, <1>3, <1>4, <1>6, <2>2, <2>3, <2>4 DEF Ready
<1> QED BY <1>1, <1>5, <1>6

LEMMA OpenTypes ==
    ASSUME TypeInv, NEW s \in Servers, Open(s)
    PROVE  /\ ctx' \in [Servers -> Contexts \cup {None}]
           /\ ctx'[s] = Refresh([view |-> <<>>, applied |-> 0]) /\ \A x \in Servers \ {s} : ctx'[x] = ctx[x]
<1>1. [view |-> <<>>, applied |-> 0] \in Contexts
  BY DEF Contexts
<1>2. Refresh([view |-> <<>>, applied |-> 0]) \in Contexts
  BY <1>1, RefreshType
<1> QED BY <1>2 DEF Open, TypeInv

LEMMA TypeInit == Init => TypeInv
<1> SUFFICES ASSUME Init PROVE TypeInv
  OBVIOUS
<1>1. call \in [Servers -> ToolCalls \cup {None}] /\ ctx \in [Servers -> Contexts \cup {None}] /\ \A s \in Servers : call[s] = None
  BY DEF Init
<1> QED BY <1>1 DEF Init, TypeInv

LEMMA TypeStep ==
    ASSUME TypeInv, [Next]_vars
    PROVE  TypeInv'
<1>1. CASE UNCHANGED vars
  BY <1>1 DEF vars, TypeInv
<1>2. ASSUME NEW s \in Servers, Open(s) PROVE TypeInv'
  <2>2. ctx[s] = None /\ call[s] = None
    BY <1>2 DEF Open, TypeInv
  <2> QED BY <1>2, <2>2, OpenTypes DEF Open, TypeInv
<1>3. ASSUME NEW s \in Servers, Denied(s) PROVE TypeInv'
  <2>1. PICK c \in Waiting(s) : Ready(s, c)
    BY <1>3, WaitingTypes DEF Denied
  <2>2. ctx' \in [Servers -> Contexts \cup {None}] /\ \A x \in Servers \ {s} : ctx'[x] = ctx[x]
    BY <1>3, <2>1, CaughtUpTypes DEF Denied, Ready
  <2>3. CallTypes'
    BY <1>3, <2>2, FailTypes DEF Denied
  <2> QED BY <1>3, <2>2, <2>3 DEF Denied, TypeInv, CallTypes
<1>4. ASSUME NEW s \in Servers, Look(s) PROVE TypeInv'
  BY <1>4, LookTypes DEF Look, TypeInv, CallTypes
<1>5. ASSUME NEW s \in Servers, CatchUp(s) PROVE TypeInv'
  BY <1>5, CatchUpTypes DEF CatchUp, TypeInv, CallTypes
<1>6. ASSUME NEW s \in Servers, Commit(s) PROVE TypeInv'
  <2>1. call[s] # None /\ call[s].fresh
    BY <1>6 DEF Commit, Writes
  <2>2. /\ ctx' \in [Servers -> Contexts \cup {None}]
        /\ ctx'[s] # None /\ \A x \in Servers \ {s} : ctx'[x] = ctx[x]
    BY <1>6, CommitTypes
  <2>3. ops' \in Seq(Rows) /\ tail' \in {"clean", "bare", "torn"}
    BY <1>6, <2>1, AppliedTypes, PutTypes DEF Commit
  <2>4. CallTypes' /\ acked' \in Seq([uri : Chats, msg : Messages])
    BY <1>6, <2>1, <2>2, AcknowledgeTypes DEF Commit
  <2> QED BY <1>6, <2>2, <2>3, <2>4 DEF Commit, TypeInv, CallTypes
<1>7. ASSUME NEW s \in Servers, AppendFails(s) PROVE TypeInv'
  <2>1. call[s] # None /\ call[s].fresh
    BY <1>7 DEF AppendFails, Writes
  <2>2. ctx' \in [Servers -> Contexts \cup {None}] /\ \A x \in Servers \ {s} : ctx'[x] = ctx[x]
    BY <1>7, <2>1, AppliedTypes DEF AppendFails, TypeInv
  <2>3. ops' \in Seq(Rows) /\ tail' \in {"clean", "bare", "torn"}
    <3>1. UNCHANGED <<ops, tail>> \/ CutRow(Row(s))
      BY <1>7 DEF AppendFails
    <3> QED BY <2>1, <3>1, AppliedTypes, PutTypes DEF TypeInv
  <2>4. CallTypes'
    BY <1>7, <2>2, FailTypes DEF AppendFails
  <2> QED BY <1>7, <2>2, <2>3, <2>4 DEF AppendFails, TypeInv, CallTypes
<1>8. ASSUME NEW s \in Servers, Crash(s) PROVE TypeInv'
  <2>1. ctx' \in [Servers -> Contexts \cup {None}] /\ \A x \in Servers \ {s} : ctx'[x] = ctx[x]
    BY <1>8 DEF Crash, TypeInv
  <2>2. ops' \in Seq(Rows) /\ tail' \in {"clean", "bare", "torn"}
    <3>1. UNCHANGED <<ops, tail>> \/ (Writes(s) /\ (PutRow(Row(s)) \/ CutRow(Row(s))))
      BY <1>8 DEF Crash
    <3> QED BY <3>1, AppliedTypes, PutTypes DEF TypeInv, Writes
  <2>3. CallTypes'
    BY <1>8, <2>1, FailTypes DEF Crash
  <2> QED BY <1>8, <2>1, <2>2, <2>3 DEF Crash, TypeInv, CallTypes
<1> QED BY <1>1, <1>2, <1>3, <1>4, <1>5, <1>6, <1>7, <1>8 DEF Next

LEMMA TypesHold == Spec => []TypeInv
<1>1. TypeInv /\ [Next]_vars => TypeInv'
  BY TypeStep
<1> QED BY TypeInit, <1>1, PTL DEF Spec

-------------------------------------------------------------------------------
\* What a step does to the log: nothing, or it puts the row of a call behind it.
Grows ==
    \/ ops' = ops
    \/ \E s \in Servers : Readable /\ Writes(s) /\ ops' = Append(ops, Row(s))

LEMMA LogGrows ==
    ASSUME TypeInv, [Next]_vars
    PROVE  Grows /\ (Readable' => Readable)
<1>1. ASSUME NEW s \in Servers, Commit(s) PROVE Grows /\ (Readable' => Readable)
  BY <1>1 DEF Commit, PutRow, Grows
<1>2. ASSUME NEW s \in Servers, AppendFails(s) PROVE Grows /\ (Readable' => Readable)
  BY <1>2 DEF AppendFails, CutRow, Grows, Readable
<1>3. ASSUME NEW s \in Servers, Crash(s) PROVE Grows /\ (Readable' => Readable)
  BY <1>3 DEF Crash, PutRow, CutRow, Grows, Readable
<1>4. ASSUME NEW s \in Servers, Open(s) \/ Denied(s) \/ Look(s) \/ CatchUp(s) PROVE Grows /\ (Readable' => Readable)
  BY <1>4 DEF Open, Denied, Look, CatchUp, Grows, Readable
<1> QED BY <1>1, <1>2, <1>3, <1>4 DEF Next, vars, Grows, Readable

\* Every acknowledged message is in a row of the log.
LoggedIn(log, a) ==
    \E o \in ToSet(log) :
        /\ o.op = "patch" /\ o.uri = a.uri /\ o.why = "say"
        /\ o.msgs # None /\ a.msg \in ToSet(o.msgs)
AckedLogged == \A i \in DOMAIN acked : LoggedIn(ops, acked[i])

LEMMA InLonger ==
    ASSUME NEW rows \in Seq(Rows), NEW o \in Rows
    PROVE  /\ \A x \in ToSet(rows) : x \in ToSet(Append(rows, o))
           /\ o \in ToSet(Append(rows, o))
<1>1. PICK more \in Seq(Rows) : more = Append(rows, o)
  <2>1. Append(rows, o) \in Seq(Rows)
    OBVIOUS
  <2> QED BY <2>1
<1>2. /\ DOMAIN more = 1 .. Len(rows) + 1 /\ more[Len(rows) + 1] = o
      /\ \A i \in DOMAIN rows : i \in DOMAIN more /\ more[i] = rows[i]
  BY <1>1
<1>3. Len(rows) + 1 \in DOMAIN more
  BY <1>2
<1> QED BY <1>1, <1>2, <1>3 DEF ToSet

LEMMA AckedStep ==
    ASSUME TypeInv, AckedLogged, [Next]_vars
    PROVE  AckedLogged'
<1>1. ASSUME NEW a, LoggedIn(ops, a) PROVE LoggedIn(ops', a)
  <2>1. CASE ops' = ops
    BY <1>1, <2>1
  <2>2. ASSUME NEW s \in Servers, Writes(s), ops' = Append(ops, Row(s)) PROVE LoggedIn(ops', a)
    <3>1. Row(s) \in Rows /\ ops \in Seq(Rows)
      BY <2>2, AppliedTypes DEF Writes, TypeInv
    <3> QED BY <1>1, <2>2, <3>1, InLonger DEF LoggedIn
  <2> QED BY <2>1, <2>2, LogGrows DEF Grows
<1>2. CASE acked' = acked
  BY <1>1, <1>2 DEF AckedLogged
<1>3. ASSUME NEW s \in Servers, Commit(s) PROVE AckedLogged'
  <2>1. call[s] # None /\ call[s].fresh
    BY <1>3 DEF Commit, Writes
  <2>2. /\ \A x \in Servers : ctx'[x] = None => ctx[x] = None
        /\ ctx'[s] # None
    BY <1>3, CommitTypes
  <2>3. CASE acked' # acked
    <3>1. /\ acked' = Append(acked, [uri |-> Now(s).uri, msg |-> Now(s).msg])
          /\ Now(s).do = "say" /\ Now(s).msg \in Messages
      BY <1>3, <2>1, <2>2, <2>3, AcknowledgeTypes DEF Commit
    <3>2. /\ Row(s) \in Rows /\ Now(s) \in EngineCalls /\ call[s].held \in Texts /\ ops \in Seq(Rows)
          /\ acked \in Seq([uri : Chats, msg : Messages])
      BY <2>1, AppliedTypes DEF TypeInv
    <3>3. PICK now \in EngineCalls : now = Now(s)
      BY <3>2
    <3>4. PICK held \in Seq(Messages \cup {Summary}) : held = call[s].held
      BY <3>2 DEF Texts
    <3>5. PICK msgs \in Seq(Messages \cup {Summary}) : msgs = Append(held, now.msg)
      <4>1. Append(held, now.msg) \in Seq(Messages \cup {Summary})
        BY <3>1, <3>3
      <4> QED BY <4>1
    <3>6. Row(s) = Patch(now.uri, "say", msgs)
      BY <3>1, <3>3, <3>4, <3>5 DEF Row, RowOf, Now
    <3>7. now.msg \in ToSet(msgs)
      <4>1. Len(msgs) = Len(held) + 1 /\ msgs[Len(held) + 1] = now.msg
        BY <3>1, <3>3, <3>5
      <4> QED BY <4>1 DEF ToSet
    <3>8. PICK new \in [uri : Chats, msg : Messages] : new = [uri |-> now.uri, msg |-> now.msg]
      BY <3>1, <3>3, EngineCallTypes
    <3>9. ops' = Append(ops, Row(s))
      BY <1>3 DEF Commit, PutRow
    <3>10. LoggedIn(ops', new)
      <4>1. Row(s) \in ToSet(ops')
        BY <3>2, <3>9, InLonger
      <4>2. Row(s).op = "patch" /\ Row(s).uri = new.uri /\ Row(s).why = "say" /\ new.msg \in ToSet(Row(s).msgs)
        BY <3>6, <3>7, <3>8 DEF Patch
      <4>3. Row(s).msgs # None
        BY <3>6, NoneIsNothing DEF Patch, Texts
      <4> QED BY <4>1, <4>2, <4>3 DEF LoggedIn
    <3>11. ASSUME NEW i \in DOMAIN acked' PROVE LoggedIn(ops', acked'[i])
      <4>1. acked' = Append(acked, new)
        BY <3>1, <3>3, <3>8
      <4>2. (i \in DOMAIN acked /\ acked'[i] = acked[i]) \/ acked'[i] = new
        BY <3>2, <4>1
      <4> QED BY <1>1, <3>10, <4>2 DEF AckedLogged
    <3> QED BY <3>11 DEF AckedLogged
  <2> QED BY <1>2, <2>3
<1> QED BY <1>2, <1>3 DEF Next, vars, Open, Denied, Look, CatchUp, AppendFails, Crash

\* Also when calls race, a message whose append was acknowledged is in the log for as long
\* as the log can be read, whatever a later write of the conversation carried
\* (chat_append, ToolBackedEngine.patch).
THEOREM SandboxKeepsAcked == Spec => []AckedStaysInLog
<1>1. Init => AckedLogged
  BY DEF Init, AckedLogged
<1>2. TypeInv /\ AckedLogged /\ [Next]_vars => AckedLogged'
  BY AckedStep
<1>3. AckedLogged => AckedStaysInLog
  BY DEF AckedLogged, AckedStaysInLog, LoggedIn
<1> QED BY <1>1, <1>2, <1>3, TypesHold, PTL DEF Spec

-------------------------------------------------------------------------------
\* While calls take turns.
Reaches(c) == c.applied <= Len(ops) /\ c.view = Replayed(<<>>, SubSeq(ops, 1, c.applied)).view

\* One call at a time; the log replays; every runtime is what it replays to, and one about
\* to append has applied all of it and accepted the row.
OneCall == \A x, y \in Servers : call[x] # None /\ call[y] # None => x = y
Replays == Replayed(<<>>, ops).ok
InStep == Readable => \A s \in Opened : Reaches(ctx[s])
Accepted ==
    Readable => \A s \in Servers : call[s] # None /\ call[s].fresh =>
        ctx[s].applied = Len(ops) /\ ~Raises(ctx[s].view, Row(s))
Turns == mode = "turns" => OneCall /\ Replays /\ InStep /\ Accepted

\* A replay that got to the end got to every place before.
LEMMA PrefixReplays ==
    ASSUME NEW rows \in Seq(Rows), NEW a \in 0 .. Len(rows), Replayed(<<>>, rows).ok
    PROVE  Replayed(<<>>, SubSeq(rows, 1, a)).ok
<1> DEFINE T == {k \in Nat : a + k <= Len(rows) =>
                    (Replayed(<<>>, Upto(rows, 0, a + k)).ok => Replayed(<<>>, Upto(rows, 0, a)).ok)}
<1>1. 0 \in T
  BY DEF Upto
<1>2. ASSUME NEW k \in T PROVE k + 1 \in T
  <2> SUFFICES ASSUME a + (k + 1) <= Len(rows), Replayed(<<>>, Upto(rows, 0, a + (k + 1))).ok
               PROVE  Replayed(<<>>, Upto(rows, 0, a)).ok
    OBVIOUS
  <2>1. /\ Upto(rows, 0, a + k) \in Seq(Rows) /\ rows[a + k + 1] \in Rows
        /\ Upto(rows, 0, (a + k) + 1) = Append(Upto(rows, 0, a + k), rows[a + k + 1])
    BY UptoNext
  <2>2. a + (k + 1) = (a + k) + 1
    OBVIOUS
  <2>3. ReplayRow(Replayed(<<>>, Upto(rows, 0, a + k)), rows[a + k + 1]).ok
    BY <2>1, <2>2, ReplayedAppend
  <2>4. Replayed(<<>>, Upto(rows, 0, a + k)).ok
    BY <2>3 DEF ReplayRow
  <2> QED BY <2>4
<1>3. T = Nat
  <2> HIDE DEF T
  <2> QED BY <1>1, <1>2, SetInduction DEF T
<1>4. PICK k \in Nat : k = Len(rows) - a
  OBVIOUS
<1>5. k \in T
  <2> HIDE DEF T
  <2> QED BY <1>3
<1>6. a + k = Len(rows) /\ Upto(rows, 0, a + k) = rows /\ Upto(rows, 0, a) = SubSeq(rows, 1, a)
  <2>1. a + k = Len(rows)
    BY <1>4
  <2>2. SubSeq(rows, 1, Len(rows)) = rows
    OBVIOUS
  <2> QED BY <2>1, <2>2 DEF Upto
<1>7. Replayed(<<>>, Upto(rows, 0, a + k)).ok => Replayed(<<>>, Upto(rows, 0, a)).ok
  <2>1. a + k <= Len(rows)
    BY <1>4
  <2> QED BY <1>5, <2>1
<1> HIDE DEF T
<1> QED BY <1>6, <1>7

\* A refresh brings a runtime that is in step to the end of the log.
LEMMA RefreshReaches ==
    ASSUME TypeInv, Replays, Readable, NEW c \in Contexts, Reaches(c)
    PROVE  Refresh(c).applied = Len(ops) /\ Refresh(c).view = Replayed(<<>>, ops).view
<1>1. ops \in Seq(Rows) /\ c.applied \in 0 .. Len(ops) /\ c.view \in Seq(Rows)
  BY DEF TypeInv, Contexts, Reaches
<1>2. PICK a \in 0 .. Len(ops) : a = c.applied
  BY <1>1
<1>3. Replayed(<<>>, SubSeq(ops, 1, a)).ok
  BY <1>1, PrefixReplays DEF Replays
<1>4. Replayed(<<>>, SubSeq(ops, 1, a)) = Start(c.view)
  <2>1. SubSeq(ops, 1, a) \in Seq(Rows) /\ <<>> \in Seq(Rows)
    BY <1>1
  <2>2. Replayed(<<>>, SubSeq(ops, 1, a)) \in Outcomes
    BY <2>1, ReplayedTypes
  <2>3. PICK r \in Outcomes : r = Replayed(<<>>, SubSeq(ops, 1, a))
    BY <2>2
  <2>4. r.ok = TRUE /\ r.view = c.view
    BY <1>2, <1>3, <2>3 DEF Reaches, Outcomes
  <2> QED BY <2>3, <2>4 DEF Outcomes, Start
<1>5. Replayed(c.view, Missed(c)) = Replayed(<<>>, ops)
  BY <1>1, <1>2, <1>4, ReplayedOn DEF Missed
<1> QED BY <1>5 DEF Refresh, Replays

\* The whole log is what reaching its end means.
LEMMA EndReached ==
    ASSUME TypeInv, NEW c, c.applied = Len(ops), c.view = Replayed(<<>>, ops).view
    PROVE  Reaches(c)
<1>1. ops \in Seq(Rows)
  BY DEF TypeInv
<1>2. SubSeq(ops, 1, Len(ops)) = ops /\ Len(ops) <= Len(ops)
  BY <1>1
<1> QED BY <1>2 DEF Reaches

\* What is in step stays so when the log grows.
LEMMA StillReaches ==
    ASSUME TypeInv, NEW o \in Rows, ops' = ops \/ ops' = Append(ops, o), NEW c \in Contexts, Reaches(c)
    PROVE  c.applied <= Len(ops') /\ c.view = Replayed(<<>>, SubSeq(ops', 1, c.applied)).view
<1>1. ops \in Seq(Rows) /\ c.applied \in Nat /\ c.applied <= Len(ops)
  BY DEF TypeInv, Contexts, Reaches
<1>2. CASE ops' = Append(ops, o)
  <2>1. PICK a \in 0 .. Len(ops) : a = c.applied
    BY <1>1
  <2>2. PICK more \in Seq(Rows) : more = Append(ops, o)
    <3>1. Append(ops, o) \in Seq(Rows)
      BY <1>1
    <3> QED BY <3>1
  <2>3. Len(more) = Len(ops) + 1 /\ \A i \in 1 .. a : more[i] = ops[i]
    BY <1>1, <2>2
  <2>4. SubSeq(more, 1, a) = SubSeq(ops, 1, a)
    <3>1. PICK f : f = SubSeq(more, 1, a)
      OBVIOUS
    <3>2. PICK g : g = SubSeq(ops, 1, a)
      OBVIOUS
    <3>3. f \in Seq(Rows) /\ Len(f) = a /\ \A i \in 1 .. a : f[i] = more[i]
      BY <2>3, <3>1
    <3>4. g \in Seq(Rows) /\ Len(g) = a /\ \A i \in 1 .. a : g[i] = ops[i]
      BY <1>1, <3>2
    <3>5. f = g
      BY <2>3, <3>3, <3>4, SeqEqual
    <3> QED BY <3>1, <3>2, <3>5
  <2>5. ops' = more /\ a <= Len(more)
    BY <1>1, <1>2, <2>1, <2>2, <2>3
  <2>6. c.view = Replayed(<<>>, SubSeq(ops, 1, a)).view
    BY <2>1 DEF Reaches
  <2> QED BY <2>1, <2>4, <2>5, <2>6
<1>3. CASE ops' = ops
  BY <1>3 DEF Reaches
<1> QED BY <1>2, <1>3

\* A row that was accepted at the end of the log is accepted by every replay of it.
LEMMA PutReplays ==
    ASSUME TypeInv, Turns, mode = "turns", Readable, NEW s \in Servers, Writes(s), ops' = Append(ops, Row(s))
    PROVE  Replayed(<<>>, ops').ok /\ Replayed(<<>>, ops').view = Append(ctx[s].view, Row(s))
<1>1. /\ Row(s) \in Rows /\ ops \in Seq(Rows) /\ ctx[s] \in Contexts
      /\ call[s] # None /\ call[s].fresh /\ ctx[s] # None
  BY AppliedTypes DEF Writes, TypeInv
<1>2. ctx[s].applied = Len(ops) /\ ~Raises(ctx[s].view, Row(s)) /\ Replayed(<<>>, ops).ok /\ Reaches(ctx[s])
  BY <1>1 DEF Turns, Accepted, InStep, Opened, Replays
<1>3. SubSeq(ops, 1, Len(ops)) = ops
  BY <1>1
<1>4. ctx[s].view = Replayed(<<>>, ops).view
  BY <1>2, <1>3 DEF Reaches
<1>5. <<>> \in Seq(Rows)
  OBVIOUS
<1>6. Replayed(<<>>, ops) \in Outcomes
  BY <1>1, <1>5, ReplayedTypes
<1>7. PICK r \in Outcomes : r = Replayed(<<>>, ops)
  BY <1>6
<1>8. Replayed(<<>>, ops') = ReplayRow(r, Row(s))
  BY <1>1, <1>7, ReplayedAppend
<1>9. r.ok /\ ~Raises(r.view, Row(s)) /\ r.view = ctx[s].view
  BY <1>2, <1>4, <1>7
<1>10. ReplayRow(r, Row(s)) = [r EXCEPT !.view = Append(r.view, Row(s))]
  BY <1>9 DEF ReplayRow
<1>11. ReplayRow(r, Row(s)).ok = r.ok /\ ReplayRow(r, Row(s)).view = Append(r.view, Row(s))
  BY <1>10 DEF Outcomes
<1> QED BY <1>8, <1>9, <1>11

\* Who has a call after a step.
LEMMA OneCallStep ==
    ASSUME TypeInv, Turns, mode = "turns", [Next]_vars
    PROVE  OneCall'
<1>1. ASSUME NEW s \in Servers, \A x \in Servers \ {s} : call'[x] = call[x],
             call[s] # None \/ call'[s] = None \/ \A x \in Servers : call[x] = None
      PROVE  OneCall'
  BY <1>1 DEF Turns, OneCall
<1>2. ASSUME NEW s \in Servers, Fail(s) PROVE OneCall'
  BY <1>1, <1>2 DEF Fail, TypeInv
<1>3. ASSUME NEW s \in Servers, Look(s) PROVE OneCall'
  BY <1>1, <1>3, LookTypes
<1>4. ASSUME NEW s \in Servers, CatchUp(s) PROVE OneCall'
  BY <1>1, <1>4, CatchUpTypes
<1>5. ASSUME NEW s \in Servers, Commit(s) PROVE OneCall'
  <2>1. \A x \in Servers \ {s} : call'[x] = call[x]
    BY <1>5 DEF Commit, Acknowledge, GoOn, TypeInv
  <2> QED BY <1>1, <1>5, <2>1 DEF Commit, Writes
<1>6. CASE call' = call
  BY <1>6 DEF Turns, OneCall
<1> QED BY <1>2, <1>3, <1>4, <1>5, <1>6 DEF Next, vars, Open, Denied, AppendFails, Crash

\* The runtimes of the servers that do not take the step stay in step.
LEMMA OthersInStep ==
    ASSUME TypeInv, Turns, mode = "turns", Grows, Readable, NEW x \in Servers, ctx[x] # None, ctx'[x] = ctx[x]
    PROVE  Reaches(ctx[x])'
<1>1. ctx[x] \in Contexts /\ Reaches(ctx[x])
  BY DEF TypeInv, Turns, InStep, Opened
<1>2. PICK c \in Contexts : c = ctx[x]
  BY <1>1
<1>3. c.applied <= Len(ops') /\ c.view = Replayed(<<>>, SubSeq(ops', 1, c.applied)).view
  <2>1. CASE ops' = ops
    BY <1>1, <1>2, <2>1 DEF Reaches
  <2>2. ASSUME NEW s \in Servers, Writes(s), ops' = Append(ops, Row(s))
        PROVE  c.applied <= Len(ops') /\ c.view = Replayed(<<>>, SubSeq(ops', 1, c.applied)).view
    <3>1. Row(s) \in Rows
      BY <2>2, AppliedTypes DEF Writes
    <3> QED BY <1>1, <1>2, <2>2, <3>1, StillReaches
  <2> QED BY <2>1, <2>2 DEF Grows
<1> QED BY <1>2, <1>3 DEF Reaches

\* A step of s that refreshes its runtime brings it to the end.
LEMMA CaughtUpReaches ==
    ASSUME TypeInv, Turns, mode = "turns", Readable, NEW s \in Servers, ctx[s] \in Contexts,
           ctx'[s] = Refresh(ctx[s]), ops' = ops
    PROVE  Reaches(ctx[s])' /\ ctx'[s].applied = Len(ops')
<1>1. ctx[s] # None
  BY NoneIsNothing
<1>2. Reaches(ctx[s]) /\ Replays
  BY <1>1 DEF Turns, InStep, Opened
<1>3. PICK c \in Contexts : c = Refresh(ctx[s])
  BY RefreshType
<1>4. c.applied = Len(ops) /\ c.view = Replayed(<<>>, ops).view
  BY <1>2, <1>3, RefreshReaches
<1>5. Reaches(c)
  BY <1>4, EndReached
<1> QED BY <1>3, <1>4, <1>5 DEF Reaches

LEMMA InStepStep ==
    ASSUME TypeInv, Turns, mode = "turns", [Next]_vars
    PROVE  InStep'
<1>1. Grows /\ (Readable' => Readable)
  BY LogGrows
<1> SUFFICES ASSUME Readable', Readable, NEW x \in Servers, ctx'[x] # None PROVE Reaches(ctx[x])'
  BY <1>1 DEF InStep, Opened
<1>2. CASE ctx'[x] = ctx[x]
  BY <1>1, <1>2, OthersInStep
<1>3. ASSUME NEW s \in Servers, Open(s), x = s PROVE Reaches(ctx[x])'
  <2>1. ops' = ops /\ ops \in Seq(Rows)
    BY <1>3 DEF Open, TypeInv
  <2>2. PICK c \in Contexts : c = [view |-> <<>>, applied |-> 0]
    <3>1. [view |-> <<>>, applied |-> 0] \in Contexts
      BY DEF Contexts
    <3> QED BY <3>1
  <2>3. Reaches(c)
    <3>1. SubSeq(ops, 1, 0) = <<>> /\ 0 <= Len(ops)
      BY <2>1
    <3>2. c.view = <<>> /\ c.applied = 0
      BY <2>2
    <3>3. Replayed(<<>>, <<>>).view = <<>>
      BY ReplayedNothing DEF Start
    <3> QED BY <3>1, <3>2, <3>3 DEF Reaches
  <2>4. PICK d \in Contexts : d = Refresh(c)
    BY RefreshType
  <2>5. d.applied = Len(ops) /\ d.view = Replayed(<<>>, ops).view
    BY <2>3, <2>4, RefreshReaches DEF Turns
  <2>6. Reaches(d)
    BY <2>5, EndReached
  <2>7. ctx'[x] = d
    BY <1>3, <2>2, <2>4, OpenTypes
  <2> QED BY <2>1, <2>6, <2>7 DEF Reaches
<1>4. ASSUME NEW s \in Servers, Denied(s), x = s PROVE Reaches(ctx[x])'
  <2>1. PICK c \in Waiting(s) : Ready(s, c)
    BY <1>4, WaitingTypes DEF Denied
  <2>2. ctx[s] \in Contexts /\ ctx'[s] = Refresh(ctx[s]) /\ ops' = ops
    BY <1>4, <2>1, CaughtUpTypes DEF Denied, Ready
  <2> QED BY <1>4, <2>2, CaughtUpReaches
<1>5. ASSUME NEW s \in Servers, Look(s), x = s PROVE Reaches(ctx[x])'
  <2>1. ctx[s] \in Contexts /\ ctx'[s] = Refresh(ctx[s]) /\ ops' = ops
    BY <1>5, LookTypes DEF Look
  <2> QED BY <1>5, <2>1, CaughtUpReaches
<1>6. ASSUME NEW s \in Servers, CatchUp(s), x = s PROVE Reaches(ctx[x])'
  <2>1. ctx[s] \in Contexts /\ ctx'[s] = Refresh(ctx[s]) /\ ops' = ops
    BY <1>6, CatchUpTypes DEF CatchUp
  <2> QED BY <1>6, <2>1, CaughtUpReaches
<1>7. ASSUME NEW s \in Servers, Commit(s), x = s PROVE Reaches(ctx[x])'
  <2>1. Writes(s) /\ ops' = Append(ops, Row(s)) /\ call[s] # None /\ call[s].fresh
    BY <1>7 DEF Commit, PutRow, Writes
  <2>2. Replayed(<<>>, ops').view = Append(ctx[s].view, Row(s))
    BY <2>1, PutReplays
  <2>3. ctx'[s] = [view |-> Append(ctx[s].view, Row(s)), applied |-> ctx[s].applied + 1]
    BY <1>7, CommitTypes
  <2>4. ctx[s].applied = Len(ops) /\ ops \in Seq(Rows) /\ Row(s) \in Rows
    BY <2>1, AppliedTypes DEF Turns, Accepted, TypeInv
  <2>5. PICK more \in Seq(Rows) : more = Append(ops, Row(s)) /\ Len(more) = Len(ops) + 1
    BY <2>4, AppendProperties
  <2>6. SubSeq(more, 1, Len(more)) = more /\ Len(more) <= Len(more)
    OBVIOUS
  <2>7. ctx'[s].applied = Len(more) /\ ctx'[s].view = Replayed(<<>>, more).view
    BY <2>1, <2>2, <2>3, <2>4, <2>5
  <2> QED BY <1>7, <2>1, <2>5, <2>6, <2>7 DEF Reaches
<1>8. ASSUME NEW s \in Servers, AppendFails(s), x = s PROVE FALSE
  BY <1>8 DEF AppendFails, Readable
<1>9. ASSUME NEW s \in Servers, Crash(s), x = s PROVE FALSE
  BY <1>9 DEF Crash, TypeInv
<1>10. CASE ctx' = ctx
  BY <1>2, <1>10
<1>11. ASSUME NEW s \in Servers, Open(s) \/ Denied(s) \/ Look(s) \/ CatchUp(s) \/ Commit(s) \/ AppendFails(s) \/ Crash(s), x # s
       PROVE  ctx'[x] = ctx[x]
  BY <1>11 DEF Open, Denied, Look, CatchUp, CaughtUp, Commit, AppendFails, Crash, TypeInv
<1> QED BY <1>2, <1>3, <1>4, <1>5, <1>6, <1>7, <1>8, <1>9, <1>10, <1>11 DEF Next, vars

LEMMA ReplaysStep ==
    ASSUME TypeInv, Turns, mode = "turns", [Next]_vars
    PROVE  Replays'
<1>1. CASE ops' = ops
  BY <1>1 DEF Turns, Replays
<1>2. ASSUME NEW s \in Servers, Readable, Writes(s), ops' = Append(ops, Row(s)) PROVE Replays'
  BY <1>2, PutReplays DEF Replays
<1> QED BY <1>1, <1>2, LogGrows DEF Grows

LEMMA AcceptedStep ==
    ASSUME TypeInv, Turns, mode = "turns", [Next]_vars
    PROVE  Accepted'
<1>1. Readable' => Readable
  BY LogGrows
<1> SUFFICES ASSUME Readable', Readable, NEW x \in Servers, call'[x] # None, call'[x].fresh
             PROVE  ctx'[x].applied = Len(ops') /\ ~Raises(ctx'[x].view, RowOf(call'[x]))
  BY <1>1 DEF Accepted, Row
<1>2. CASE call'[x] = call[x] /\ ctx'[x] = ctx[x] /\ ops' = ops
  BY <1>2 DEF Turns, Accepted, Row
<1>3. ASSUME NEW s \in Servers, Look(s) PROVE ctx'[x] = ctx[x] /\ call'[x] = call[x] /\ ops' = ops
  BY <1>3, LookTypes DEF Look
<1>4. ASSUME NEW s \in Servers, CatchUp(s), x = s
      PROVE  ctx'[x].applied = Len(ops') /\ ~Raises(ctx'[x].view, RowOf(call'[x]))
  <2>1. /\ ctx[s] \in Contexts /\ ctx'[s] = Refresh(ctx[s]) /\ ops' = ops
        /\ ~Raises(ctx'[s].view, RowOf(call'[s]))
    BY <1>4, CatchUpTypes DEF CatchUp
  <2> QED BY <1>4, <2>1, CaughtUpReaches
<1>5. ASSUME NEW s \in Servers, CatchUp(s), x # s PROVE ctx'[x] = ctx[x] /\ call'[x] = call[x] /\ ops' = ops
  BY <1>5, CatchUpTypes DEF CatchUp
<1>6. ASSUME NEW s \in Servers, Commit(s) PROVE FALSE
  <2>1. call[s] # None /\ call[s].fresh
    BY <1>6 DEF Commit, Writes
  <2>2. /\ \A y \in Servers : ctx'[y] = None => ctx[y] = None
        /\ ctx'[s] # None
    BY <1>6, CommitTypes
  <2>3. x # s
    BY <1>6, <2>1, <2>2, AcknowledgeTypes DEF Commit
  <2>4. call'[x] = call[x]
    BY <1>6, <2>3 DEF Commit, Acknowledge, GoOn, TypeInv
  <2> QED BY <2>1, <2>3, <2>4 DEF Turns, OneCall
<1>7. ASSUME NEW s \in Servers, Fail(s) PROVE x # s /\ call'[x] = call[x]
  BY <1>7 DEF Fail, TypeInv
<1>8. ASSUME NEW s \in Servers, Denied(s) PROVE ctx'[x] = ctx[x] /\ call'[x] = call[x] /\ ops' = ops
  <2>1. x # s /\ call'[x] = call[x] /\ ops' = ops
    BY <1>7, <1>8 DEF Denied
  <2> QED BY <1>8, <2>1 DEF Denied, CaughtUp, TypeInv
<1>9. ASSUME NEW s \in Servers, AppendFails(s) PROVE ctx'[x] = ctx[x] /\ call'[x] = call[x] /\ ops' = ops
  <2>1. x # s /\ call'[x] = call[x]
    BY <1>7, <1>9 DEF AppendFails
  <2> QED BY <1>9, <2>1 DEF AppendFails, TypeInv
<1>10. ASSUME NEW s \in Servers, Crash(s) PROVE ctx'[x] = ctx[x] /\ call'[x] = call[x] /\ ops' = ops
  <2>1. x # s /\ call'[x] = call[x]
    BY <1>7, <1>10 DEF Crash
  <2>2. ~Writes(s)
    BY <2>1 DEF Turns, OneCall, Writes
  <2> QED BY <1>10, <2>1, <2>2 DEF Crash, TypeInv
<1>11. ASSUME NEW s \in Servers, Open(s) PROVE ctx'[x] = ctx[x] /\ call'[x] = call[x] /\ ops' = ops
  <2>1. ctx[s] = None /\ call' = call /\ ops' = ops
    BY <1>11 DEF Open
  <2>2. x # s
    BY <2>1 DEF TypeInv
  <2> QED BY <1>11, <2>1, <2>2 DEF Open, TypeInv
<1>12. CASE UNCHANGED vars
  BY <1>2, <1>12 DEF vars
<1> QED BY <1>2, <1>3, <1>4, <1>5, <1>6, <1>8, <1>9, <1>10, <1>11, <1>12 DEF Next

LEMMA TurnsInit == Init => Turns
<1> SUFFICES ASSUME Init PROVE Turns
  OBVIOUS
<1>1. Replayed(<<>>, ops) = Start(<<>>)
  BY ReplayedNothing DEF Init
<1>2. Replays
  BY <1>1 DEF Replays, Start
<1> QED BY <1>2 DEF Init, Turns, OneCall, InStep, Accepted, Opened

LEMMA TurnsStep == TypeInv /\ Turns /\ [Next]_vars => Turns'
<1> SUFFICES ASSUME TypeInv, Turns, [Next]_vars, mode' = "turns" PROVE (OneCall /\ Replays /\ InStep /\ Accepted)'
  BY DEF Turns
<1>1. mode = "turns"
  BY DEF Next, vars, Open, Denied, Look, CatchUp, Commit, AppendFails, Crash
<1> QED BY <1>1, OneCallStep, ReplaysStep, InStepStep, AcceptedStep

LEMMA TurnsHold == Spec => []Turns
BY TypesHold, TurnsInit, TurnsStep, PTL DEF Spec

\* While the calls of the servers take turns, every runtime holds what the log replays to
\* up to the position it has reached, through crashes, torn rows and refused tools
\* (SandboxRuntimeManager._refresh, record).
THEOREM SandboxSameState == Spec => []TurnsReplaySameState
<1>1. Turns => TurnsReplaySameState
  BY DEF Turns, InStep, TurnsReplaySameState, SameState, Reaches
<1> QED BY <1>1, TurnsHold, PTL

\* While the calls take turns the log replays to its end: what one server accepted, no
\* server that opens the sandbox later refuses.
THEOREM SandboxLogReplays == Spec => []TurnsLogReplays
<1>1. Turns => TurnsLogReplays
  BY DEF Turns, Replays, TurnsLogReplays
<1> QED BY <1>1, TurnsHold, PTL

-------------------------------------------------------------------------------
\* What a conversation says behind one row more.
Tells(o, u) == o.op = "patch" /\ o.uri = u /\ o.msgs # None

LEMMA SaysNext ==
    ASSUME NEW rows \in Seq(Rows), NEW o \in Rows, NEW u
    PROVE  /\ Tells(o, u) => Says(Append(rows, o), u) = o.msgs
           /\ ~Tells(o, u) => Says(Append(rows, o), u) = Says(rows, u)
<1> DEFINE n == Len(rows)
           more == Append(rows, o)
           I == {i \in 1 .. n : Tells(rows[i], u)}
           J == {i \in 1 .. n + 1 : Tells(more[i], u)}
<1>1. /\ n \in Nat /\ Len(more) = n + 1 /\ more[n + 1] = o
      /\ \A i \in 1 .. n : more[i] = rows[i]
  OBVIOUS
<1>2. Says(rows, u) = LET last == IF I # {} THEN Max(I) ELSE 0 IN IF last = 0 THEN <<>> ELSE rows[last].msgs
  BY DEF Says, SelectLastInSeq, Tells
<1>3. Says(more, u) = LET last == IF J # {} THEN Max(J) ELSE 0 IN IF last = 0 THEN <<>> ELSE more[last].msgs
  <2>1. J = {i \in 1 .. Len(more) : more[i].op = "patch" /\ more[i].uri = u /\ more[i].msgs # None}
    BY <1>1 DEF Tells
  <2> HIDE DEF more, J
  <2> QED BY <2>1 DEF Says, SelectLastInSeq
<1> HIDE DEF more
<1>4. CASE Tells(o, u)
  <2>1. n + 1 \in J /\ J \in SUBSET (1 .. n + 1)
    BY <1>1, <1>4
  <2> HIDE DEF J, n
  <2>2. Max(J) = n + 1
    BY <1>1, <2>1, MaxOf
  <2>3. J # {} /\ n + 1 # 0
    BY <1>1, <2>1
  <2> QED BY <1>1, <1>3, <1>4, <2>2, <2>3 DEF more
<1>5. CASE ~Tells(o, u)
  <2>1. J = I
    <3>1. \A i \in 1 .. n + 1 : i \in 1 .. n \/ i = n + 1
      BY <1>1
    <3>2. \A i \in 1 .. n : i \in 1 .. n + 1
      BY <1>1
    <3> QED BY <1>1, <1>5, <3>1, <3>2
  <2>2. I \in SUBSET (1 .. n)
    OBVIOUS
  <2>3. I # {} => Max(I) \in 1 .. n
    <3> HIDE DEF I, n
    <3> QED BY <1>1, <2>2, MaxExists
  <2> HIDE DEF I, J, n
  <2> QED BY <1>1, <1>2, <1>3, <1>5, <2>1, <2>3 DEF more
<1> QED BY <1>4, <1>5

\* It is what one of the rows wrote.
LEMMA SaysFrom ==
    ASSUME NEW rows \in Seq(Rows), NEW u
    PROVE  Says(rows, u) = <<>> \/ \E o \in ToSet(rows) : Tells(o, u) /\ Says(rows, u) = o.msgs
<1> DEFINE I == {i \in 1 .. Len(rows) : Tells(rows[i], u)}
<1>1. Says(rows, u) = LET last == IF I # {} THEN Max(I) ELSE 0 IN IF last = 0 THEN <<>> ELSE rows[last].msgs
  BY DEF Says, SelectLastInSeq, Tells
<1>2. CASE I # {}
  <2>1. I \in SUBSET (1 .. Len(rows)) /\ Len(rows) \in Nat
    OBVIOUS
  <2>2. Max(I) \in I
    <3> HIDE DEF I
    <3> QED BY <1>2, <2>1, MaxExists
  <2>3. PICK i \in I : i = Max(I)
    BY <2>2
  <2>4. i # 0 /\ Tells(rows[i], u) /\ rows[i] \in ToSet(rows)
    BY DEF ToSet
  <2> QED BY <1>1, <1>2, <2>3, <2>4
<1>3. CASE I = {}
  BY <1>1, <1>3
<1> QED BY <1>2, <1>3

\* Lists that keep what was acknowledged.
Acks == [uri : Chats, msg : Messages]
Unheard(x, acks, u) == \A i \in DOMAIN acks : acks[i].uri = u => acks[i].msg # x

LEMMA KeepsLonger ==
    ASSUME NEW msgs \in Texts, NEW acks \in Seq(Acks), NEW u, NEW x \in Messages \cup {Summary},
           Keeps(msgs, acks, u), Unheard(x, acks, u)
    PROVE  Keeps(Append(msgs, x), acks, u)
<1>1. PICK more : more = Append(msgs, x)
  OBVIOUS
<1>2. /\ Len(msgs) \in Nat /\ DOMAIN msgs = 1 .. Len(msgs) /\ DOMAIN more = 1 .. Len(msgs) + 1
      /\ more[Len(msgs) + 1] = x /\ \A k \in DOMAIN msgs : more[k] = msgs[k]
  BY <1>1 DEF Texts
<1>3. ASSUME NEW i \in DOMAIN acks, acks[i].uri = u, NEW k \in DOMAIN more, more[k] = acks[i].msg
      PROVE  k \in DOMAIN msgs /\ msgs[k] = acks[i].msg
  BY <1>2, <1>3 DEF Unheard
<1>4. ASSUME NEW i \in DOMAIN acks, acks[i].uri = u
      PROVE  \E k \in DOMAIN more : more[k] = acks[i].msg
  BY <1>2, <1>4 DEF Keeps
<1>5. ASSUME NEW i \in DOMAIN acks, NEW j \in DOMAIN acks, acks[i].uri = u, acks[j].uri = u,
             NEW k \in DOMAIN more, NEW l \in DOMAIN more, more[k] = acks[i].msg, more[l] = acks[j].msg
      PROVE  i < j <=> k < l
  <2>1. k \in DOMAIN msgs /\ msgs[k] = acks[i].msg /\ l \in DOMAIN msgs /\ msgs[l] = acks[j].msg
    BY <1>3, <1>5
  <2> QED BY <1>5, <2>1 DEF Keeps
<1> QED BY <1>1, <1>4, <1>5 DEF Keeps

LEMMA KeepsOther ==
    ASSUME NEW msgs \in Texts, NEW acks \in Seq(Acks), NEW u, NEW a \in Acks, a.uri # u, Keeps(msgs, acks, u)
    PROVE  Keeps(msgs, Append(acks, a), u)
<1>1. PICK more : more = Append(acks, a)
  OBVIOUS
<1>2. /\ DOMAIN acks = 1 .. Len(acks) /\ DOMAIN more = 1 .. Len(acks) + 1
      /\ more[Len(acks) + 1] = a /\ \A i \in DOMAIN acks : more[i] = acks[i]
  BY <1>1
<1>3. ASSUME NEW i \in DOMAIN more, more[i].uri = u
      PROVE  i \in DOMAIN acks /\ more[i] = acks[i] /\ acks[i].uri = u
  BY <1>2, <1>3
<1>4. ASSUME NEW i \in DOMAIN more, more[i].uri = u
      PROVE  \E k \in DOMAIN msgs : msgs[k] = more[i].msg
  BY <1>3, <1>4 DEF Keeps
<1>5. ASSUME NEW i \in DOMAIN more, NEW j \in DOMAIN more, more[i].uri = u, more[j].uri = u,
             NEW k \in DOMAIN msgs, NEW l \in DOMAIN msgs, msgs[k] = more[i].msg, msgs[l] = more[j].msg
      PROVE  i < j <=> k < l
  <2>1. i \in DOMAIN acks /\ more[i] = acks[i] /\ j \in DOMAIN acks /\ more[j] = acks[j]
    BY <1>3, <1>5
  <2> QED BY <1>5, <2>1 DEF Keeps
<1> QED BY <1>1, <1>4, <1>5 DEF Keeps

LEMMA KeepsNew ==
    ASSUME NEW msgs \in Texts, NEW acks \in Seq(Acks), NEW a \in Acks,
           Keeps(msgs, acks, a.uri), Unheard(a.msg, acks, a.uri), a.msg \notin ToSet(msgs)
    PROVE  Keeps(Append(msgs, a.msg), Append(acks, a), a.uri)
<1>1. PICK longer : longer = Append(msgs, a.msg)
  OBVIOUS
<1>2. PICK more : more = Append(acks, a)
  OBVIOUS
<1>3. PICK n \in Nat, m \in Nat : n = Len(msgs) /\ m = Len(acks)
  BY DEF Texts
<1>4. /\ DOMAIN msgs = 1 .. n /\ DOMAIN longer = 1 .. n + 1
      /\ longer[n + 1] = a.msg /\ \A k \in 1 .. n : longer[k] = msgs[k] /\ msgs[k] # a.msg
  BY <1>1, <1>3 DEF Texts, ToSet
<1>5. /\ DOMAIN acks = 1 .. m /\ DOMAIN more = 1 .. m + 1
      /\ more[m + 1] = a /\ \A i \in 1 .. m : more[i] = acks[i]
  BY <1>2, <1>3
<1>6. ASSUME NEW i \in 1 .. m + 1, more[i].uri = a.uri, NEW k \in 1 .. n + 1, longer[k] = more[i].msg
      PROVE  (i = m + 1 /\ k = n + 1) \/ (i \in 1 .. m /\ k \in 1 .. n /\ msgs[k] = acks[i].msg /\ acks[i].uri = a.uri)
  <2>1. CASE i = m + 1
    <3>1. longer[k] = a.msg
      BY <1>5, <1>6, <2>1
    <3>2. k = n + 1
      BY <1>4, <3>1
    <3> QED BY <2>1, <3>2
  <2>2. CASE i \in 1 .. m
    <3>1. more[i] = acks[i] /\ acks[i].msg # a.msg
      BY <1>5, <1>6, <2>2 DEF Unheard
    <3>2. k \in 1 .. n
      BY <1>4, <1>6, <3>1
    <3> QED BY <1>4, <1>6, <2>2, <3>1, <3>2
  <2> QED BY <2>1, <2>2
<1>7. ASSUME NEW i \in 1 .. m + 1, more[i].uri = a.uri
      PROVE  \E k \in 1 .. n + 1 : longer[k] = more[i].msg
  <2>1. CASE i = m + 1
    BY <1>4, <1>5, <2>1
  <2>2. CASE i \in 1 .. m
    <3>1. PICK k \in 1 .. n : msgs[k] = acks[i].msg
      BY <1>4, <1>5, <1>7, <2>2 DEF Keeps
    <3> QED BY <1>4, <1>5, <2>2, <3>1
  <2> QED BY <2>1, <2>2
<1>8. ASSUME NEW i \in 1 .. m + 1, NEW j \in 1 .. m + 1, more[i].uri = a.uri, more[j].uri = a.uri,
             NEW k \in 1 .. n + 1, NEW l \in 1 .. n + 1, longer[k] = more[i].msg, longer[l] = more[j].msg
      PROVE  i < j <=> k < l
  <2>1. (i = m + 1 /\ k = n + 1) \/ (i \in 1 .. m /\ k \in 1 .. n /\ msgs[k] = acks[i].msg /\ acks[i].uri = a.uri)
    BY <1>6, <1>8
  <2>2. (j = m + 1 /\ l = n + 1) \/ (j \in 1 .. m /\ l \in 1 .. n /\ msgs[l] = acks[j].msg /\ acks[j].uri = a.uri)
    BY <1>6, <1>8
  <2>3. CASE i \in 1 .. m /\ j \in 1 .. m
    BY <1>4, <1>5, <2>1, <2>2, <2>3 DEF Keeps
  <2> QED BY <2>1, <2>2, <2>3
<1> QED BY <1>1, <1>2, <1>4, <1>5, <1>7, <1>8 DEF Keeps

-------------------------------------------------------------------------------
\* What a call still has to do, while calls take turns: it writes an empty list only into
\* an object it has just made, a new message last of all, and a message or a summary to
\* the conversation it has read as that is now, or will read before.
Unwritten(rows, m) == \A o \in ToSet(rows) : o.op = "patch" /\ o.msgs # None => m \notin ToSet(o.msgs)
Quiet(o) == o.op = "patch" => o.msgs = None
Speaking == {"say", "summary"}

Begun(rows, todo, i) ==
    /\ todo[i].row = Patch(todo[i].uri, "init", <<>>)
    /\ \/ i = 1 /\ Says(rows, todo[i].uri) = <<>>
       \/ i = 2 /\ todo[1] = Do(Create(todo[i].uri))
Knows(rows, todo, held, i) ==
    /\ \A j \in DOMAIN todo : todo[j].do = "get" => todo[j].uri = todo[i].uri
    /\ \A j \in DOMAIN todo : todo[j].do \in Speaking => j = i
    /\ (\E j \in DOMAIN todo : j < i /\ todo[j].do = "get") \/ held = Says(rows, todo[i].uri)
Fits(rows, todo, held, i) ==
    /\ todo[i].do = "write" => Quiet(todo[i].row) \/ Begun(rows, todo, i)
    /\ todo[i].do \in {"say", "fork"} => i = Len(todo)
    /\ todo[i].do = "say" => Unwritten(rows, todo[i].msg)
    /\ todo[i].do \in Speaking => Knows(rows, todo, held, i)
Planned(rows, todo, held) == \A i \in DOMAIN todo : Fits(rows, todo, held, i)

LEMMA Rest ==
    ASSUME NEW todo \in Seq(EngineCalls), todo # <<>>
    PROVE  /\ Tail(todo) \in Seq(EngineCalls) /\ DOMAIN todo = 1 .. Len(todo) /\ Len(todo) \in Nat \ {0}
           /\ todo[1] = Head(todo) /\ todo[1] \in EngineCalls
           /\ Len(Tail(todo)) = Len(todo) - 1 /\ DOMAIN Tail(todo) = 1 .. (Len(todo) - 1)
           /\ \A i \in DOMAIN Tail(todo) : i + 1 \in DOMAIN todo /\ Tail(todo)[i] = todo[i + 1]
           /\ \A i \in DOMAIN todo : i = 1 \/ i - 1 \in DOMAIN Tail(todo)
OBVIOUS

\* Nothing speaks but what knows.
LEMMA PlannedSilent ==
    ASSUME NEW rows, NEW todo, NEW held, \A i \in DOMAIN todo : todo[i].do \in {"get", "ensure"}
    PROVE  Planned(rows, todo, held)
BY DEF Planned, Fits, Speaking

LEMMA PlannedGet ==
    ASSUME NEW rows \in Seq(Rows), NEW todo \in Seq(EngineCalls), todo # <<>>, NEW held,
           Planned(rows, todo, held), Head(todo).do = "get"
    PROVE  Planned(rows, Tail(todo), Says(rows, Head(todo).uri))
<1>1. PICK rest \in Seq(EngineCalls) : rest = Tail(todo)
  BY Rest
<1>2. /\ DOMAIN todo = 1 .. Len(todo) /\ Len(todo) \in Nat \ {0} /\ todo[1] = Head(todo)
      /\ Len(rest) = Len(todo) - 1 /\ DOMAIN rest = 1 .. (Len(todo) - 1)
      /\ \A i \in DOMAIN rest : i + 1 \in DOMAIN todo /\ rest[i] = todo[i + 1]
  BY <1>1, Rest
<1>3. ASSUME NEW i \in DOMAIN rest PROVE Fits(rows, rest, Says(rows, Head(todo).uri), i)
  <2>1. Fits(rows, todo, held, i + 1) /\ rest[i] = todo[i + 1] /\ i \in Nat \ {0}
    BY <1>2 DEF Planned
  <2>2. rest[i].do = "write" => Quiet(rest[i].row)
    <3>1. todo[1] # Do(Create(todo[i + 1].uri))
      BY <1>2 DEF Do
    <3>2. ~Begun(rows, todo, i + 1)
      BY <2>1, <3>1 DEF Begun
    <3> QED BY <2>1, <3>2 DEF Fits
  <2>3. rest[i].do \in {"say", "fork"} => i = Len(rest)
    BY <1>2, <2>1 DEF Fits
  <2>4. rest[i].do \in Speaking => Knows(rows, rest, Says(rows, Head(todo).uri), i)
    <3> SUFFICES ASSUME rest[i].do \in Speaking PROVE Knows(rows, rest, Says(rows, Head(todo).uri), i)
      OBVIOUS
    <3>1. Knows(rows, todo, held, i + 1)
      BY <2>1 DEF Fits
    <3>2. todo[1].uri = rest[i].uri
      BY <1>2, <2>1, <3>1 DEF Knows
    <3>3. \A j \in DOMAIN rest : rest[j].do = "get" => rest[j].uri = rest[i].uri
      BY <1>2, <2>1, <3>1 DEF Knows
    <3>4. \A j \in DOMAIN rest : rest[j].do \in Speaking => j = i
      <4> TAKE j \in DOMAIN rest
      <4>1. todo[j + 1].do \in Speaking => j + 1 = i + 1
        BY <1>2, <3>1 DEF Knows
      <4> QED BY <1>2, <2>1, <4>1
    <3> QED BY <1>2, <3>2, <3>3, <3>4 DEF Knows
  <2> QED BY <2>1, <2>2, <2>3, <2>4 DEF Fits
<1> QED BY <1>1, <1>3 DEF Planned

\* What does not change what is said, and is no read, leaves the rest of the plan.
LEMMA PlannedRest ==
    ASSUME NEW rows \in Seq(Rows), NEW next, NEW todo \in Seq(EngineCalls), todo # <<>>, NEW held,
           Planned(rows, todo, held), Head(todo).do # "get",
           \A u \in Chats : Says(next, u) = Says(rows, u),
           \A m \in Messages : Unwritten(rows, m) => Unwritten(next, m),
           \A u \in Chats : todo[1] = Do(Create(u)) => Says(next, u) = <<>>
    PROVE  Planned(next, Tail(todo), held)
<1>1. PICK rest \in Seq(EngineCalls) : rest = Tail(todo)
  BY Rest
<1>2. /\ DOMAIN todo = 1 .. Len(todo) /\ Len(todo) \in Nat \ {0} /\ todo[1] = Head(todo)
      /\ Len(rest) = Len(todo) - 1 /\ DOMAIN rest = 1 .. (Len(todo) - 1)
      /\ \A i \in DOMAIN rest : i + 1 \in DOMAIN todo /\ rest[i] = todo[i + 1]
  BY <1>1, Rest
<1>3. ASSUME NEW i \in DOMAIN rest PROVE Fits(next, rest, held, i)
  <2>1. Fits(rows, todo, held, i + 1) /\ rest[i] = todo[i + 1] /\ i \in Nat \ {0}
    BY <1>2 DEF Planned
  <2>0. PICK e \in EngineCalls : e = rest[i]
    OBVIOUS
  <2>2. rest[i].do = "write" => Quiet(rest[i].row) \/ Begun(next, rest, i)
    <3>1. Begun(rows, todo, i + 1) => Begun(next, rest, i)
      <4> SUFFICES ASSUME Begun(rows, todo, i + 1) PROVE Begun(next, rest, i)
        OBVIOUS
      <4>1. i = 1 /\ todo[1] = Do(Create(rest[i].uri))
        BY <2>1 DEF Begun
      <4>2. Says(next, rest[i].uri) = <<>>
        BY <2>0, <4>1, EngineCallTypes
      <4> QED BY <2>1, <4>1, <4>2 DEF Begun
    <3> QED BY <2>1, <3>1 DEF Fits
  <2>3. rest[i].do \in {"say", "fork"} => i = Len(rest)
    BY <1>2, <2>1 DEF Fits
  <2>4. rest[i].do = "say" => Unwritten(next, rest[i].msg)
    BY <2>0, <2>1, EngineCallTypes DEF Fits
  <2>5. rest[i].do \in Speaking => Knows(next, rest, held, i)
    <3> SUFFICES ASSUME rest[i].do \in Speaking PROVE Knows(next, rest, held, i)
      OBVIOUS
    <3>1. Knows(rows, todo, held, i + 1)
      BY <2>1 DEF Fits
    <3>2. \A j \in DOMAIN rest : rest[j].do = "get" => rest[j].uri = rest[i].uri
      BY <1>2, <2>1, <3>1 DEF Knows
    <3>3. \A j \in DOMAIN rest : rest[j].do \in Speaking => j = i
      <4> TAKE j \in DOMAIN rest
      <4>1. todo[j + 1].do \in Speaking => j + 1 = i + 1
        BY <1>2, <3>1 DEF Knows
      <4> QED BY <1>2, <2>1, <4>1
    <3>4. CASE held = Says(rows, todo[i + 1].uri)
      <4>1. held = Says(next, rest[i].uri)
        BY <2>0, <2>1, <3>4, EngineCallTypes
      <4> QED BY <3>2, <3>3, <4>1 DEF Knows
    <3>5. CASE \E j \in DOMAIN todo : j < i + 1 /\ todo[j].do = "get"
      <4>1. PICK j \in DOMAIN todo : j < i + 1 /\ todo[j].do = "get"
        BY <3>5
      <4>2. j # 1 /\ j - 1 \in DOMAIN rest /\ j - 1 < i /\ rest[j - 1] = todo[j]
        BY <1>2, <2>1, <4>1
      <4> QED BY <3>2, <3>3, <4>1, <4>2 DEF Knows
    <3> QED BY <3>1, <3>4, <3>5 DEF Knows
  <2> QED BY <2>2, <2>3, <2>4, <2>5 DEF Fits
<1> QED BY <1>1, <1>3 DEF Planned

\* An object that is missing is made first.
LEMMA PlannedMaking ==
    ASSUME NEW rows \in Seq(Rows), NEW todo \in Seq(EngineCalls), todo # <<>>, NEW held,
           Planned(rows, todo, held), Head(todo).do = "ensure", NEW u \in Chats
    PROVE  Planned(rows, <<Do(Create(u)), Do(Patch(u, "init", <<>>))>> \o Tail(todo), held)
<1>1. PICK rest \in Seq(EngineCalls) : rest = Tail(todo)
  BY Rest
<1>2. /\ DOMAIN todo = 1 .. Len(todo) /\ Len(todo) \in Nat \ {0} /\ todo[1] = Head(todo)
      /\ Len(rest) = Len(todo) - 1 /\ DOMAIN rest = 1 .. (Len(todo) - 1)
      /\ \A i \in DOMAIN rest : i + 1 \in DOMAIN todo /\ rest[i] = todo[i + 1]
  BY <1>1, Rest
<1>3. PICK create \in EngineCalls : create = Do(Create(u))
  BY DEF Do, Create, Rows, EngineCalls
<1>4. PICK init \in EngineCalls : init = Do(Patch(u, "init", <<>>))
  <2>1. <<>> \in Texts
    BY DEF Texts
  <2>2. Patch(u, "init", <<>>) \in Rows
    BY <2>1 DEF Patch, Rows
  <2> QED BY <2>2 DEF Do, Patch, EngineCalls
<1>5. PICK both \in Seq(EngineCalls) : both = <<create, init>>
  <2>1. <<create, init>> \in Seq(EngineCalls)
    OBVIOUS
  <2> QED BY <2>1
<1>6. PICK new \in Seq(EngineCalls) : new = both \o rest
  <2>1. both \o rest \in Seq(EngineCalls)
    OBVIOUS
  <2> QED BY <2>1
<1>7. Len(both) = 2 /\ both[1] = create /\ both[2] = init
  BY <1>5
<1>8. /\ Len(new) = Len(todo) + 1 /\ DOMAIN new = 1 .. Len(todo) + 1 /\ new[1] = create /\ new[2] = init
      /\ \A i \in 1 .. Len(todo) + 1 : i > 2 => new[i] = rest[i - 2]
  <2>1. PICK n \in Nat : n = Len(rest) /\ Len(todo) = n + 1
    <3>1. Len(rest) \in Nat /\ Len(todo) = Len(rest) + 1
      BY <1>2
    <3> QED BY <3>1
  <2>5. /\ Len(both \o rest) = Len(both) + Len(rest)
        /\ \A i \in 1 .. Len(both) + Len(rest) :
              (both \o rest)[i] = IF i <= Len(both) THEN both[i] ELSE rest[i - Len(both)]
    BY ConcatProperties
  <2>6. Len(both) + Len(rest) = n + 2
    BY <1>7, <2>1
  <2>2. Len(new) = n + 2 /\ DOMAIN new = 1 .. n + 2
    BY <1>6, <2>5, <2>6
  <2>3. \A i \in 1 .. n + 2 : new[i] = IF i <= 2 THEN both[i] ELSE rest[i - 2]
    BY <1>6, <1>7, <2>5, <2>6
  <2>4. (n + 1) + 1 = n + 2 /\ 1 \in 1 .. n + 2 /\ 2 \in 1 .. n + 2
    BY <2>1
  <2> QED BY <1>7, <2>1, <2>2, <2>3, <2>4
<1>9. \A i \in 1 .. Len(todo) + 1 : i > 2 => i - 1 \in DOMAIN todo /\ new[i] = todo[i - 1]
  <2> TAKE i \in 1 .. Len(todo) + 1
  <2> HAVE i > 2
  <2>1. i - 2 \in DOMAIN rest /\ (i - 2) + 1 = i - 1
    BY <1>2
  <2> QED BY <1>2, <1>8, <2>1
<1>10. create.do = "write" /\ init.do = "write" /\ Quiet(create.row) /\ init.row = Patch(init.uri, "init", <<>>)
       /\ create = Do(Create(init.uri))
  BY <1>3, <1>4 DEF Do, Create, Patch, Quiet
<1>11. Fits(rows, new, held, 1)
  BY <1>8, <1>10 DEF Fits, Speaking
<1>12. Fits(rows, new, held, 2)
  BY <1>8, <1>10 DEF Fits, Begun, Speaking
<1>13. ASSUME NEW i \in 1 .. Len(todo) + 1, i > 2 PROVE Fits(rows, new, held, i)
  <2>1. Fits(rows, todo, held, i - 1) /\ new[i] = todo[i - 1] /\ i - 1 \in DOMAIN todo
    BY <1>9, <1>13 DEF Planned
  <2>2. new[i].do = "write" => Quiet(new[i].row)
    <3>1. todo[1] # Do(Create(todo[i - 1].uri)) /\ i - 1 # 1
      BY <1>2, <1>13 DEF Do
    <3>2. ~Begun(rows, todo, i - 1)
      BY <2>1, <3>1 DEF Begun
    <3> QED BY <2>1, <3>2 DEF Fits
  <2>3. new[i].do \in {"say", "fork"} => i = Len(new)
    BY <1>2, <1>8, <2>1 DEF Fits
  <2>4. new[i].do \in Speaking => Knows(rows, new, held, i)
    <3> SUFFICES ASSUME new[i].do \in Speaking PROVE Knows(rows, new, held, i)
      OBVIOUS
    <3>1. Knows(rows, todo, held, i - 1)
      BY <2>1 DEF Fits
    <3>2. ASSUME NEW j \in DOMAIN new
          PROVE  /\ new[j].do = "get" => new[j].uri = new[i].uri
                 /\ new[j].do \in Speaking => j = i
      <4>1. CASE j > 2
        <5>1. j - 1 \in DOMAIN todo /\ new[j] = todo[j - 1]
          BY <1>8, <1>9, <4>1
        <5>2. todo[j - 1].do \in Speaking => j - 1 = i - 1
          BY <3>1, <5>1 DEF Knows
        <5>3. new[j].do = "get" => new[j].uri = new[i].uri
          BY <2>1, <3>1, <5>1 DEF Knows
        <5> QED BY <1>8, <5>1, <5>2, <5>3
      <4>2. CASE j \in {1, 2}
        BY <1>8, <1>10, <4>2 DEF Speaking
      <4> QED BY <1>2, <1>8, <4>1, <4>2
    <3>3. ASSUME NEW j \in DOMAIN todo, j < i - 1, todo[j].do = "get"
          PROVE  j + 1 \in DOMAIN new /\ j + 1 < i /\ new[j + 1].do = "get"
      <4>1. j # 1
        BY <1>2, <3>3
      <4>2. j + 1 \in 1 .. Len(todo) + 1 /\ j + 1 > 2 /\ (j + 1) - 1 = j
        BY <1>2, <4>1
      <4> QED BY <1>8, <1>9, <3>3, <4>2
    <3> QED BY <2>1, <3>1, <3>2, <3>3 DEF Knows
  <2> QED BY <2>1, <2>2, <2>3, <2>4 DEF Fits
<1>14. Planned(rows, new, held)
  <2>1. \A i \in DOMAIN new : i = 1 \/ i = 2 \/ i > 2
    BY <1>8
  <2> QED BY <1>8, <1>11, <1>12, <1>13, <2>1 DEF Planned
<1> QED BY <1>1, <1>3, <1>4, <1>5, <1>6, <1>14

\* Behind a summary nothing speaks.
LEMMA PlannedSummarised ==
    ASSUME NEW rows, NEW next, NEW todo \in Seq(EngineCalls), todo # <<>>, NEW held,
           Planned(rows, todo, held), Head(todo).do = "summary"
    PROVE  Planned(next, Tail(todo), held)
<1>1. PICK rest \in Seq(EngineCalls) : rest = Tail(todo)
  BY Rest
<1>2. /\ DOMAIN todo = 1 .. Len(todo) /\ Len(todo) \in Nat \ {0} /\ todo[1] = Head(todo)
      /\ Len(rest) = Len(todo) - 1 /\ DOMAIN rest = 1 .. (Len(todo) - 1)
      /\ \A i \in DOMAIN rest : i + 1 \in DOMAIN todo /\ rest[i] = todo[i + 1]
  BY <1>1, Rest
<1>3. ASSUME NEW i \in DOMAIN rest PROVE Fits(next, rest, held, i)
  <2>1. Fits(rows, todo, held, i + 1) /\ rest[i] = todo[i + 1] /\ i \in Nat \ {0} /\ i + 1 # 1
    BY <1>2 DEF Planned
  <2>2. Fits(rows, todo, held, 1) /\ 1 \in DOMAIN todo
    BY <1>2 DEF Planned
  <2>3. rest[i].do \notin Speaking
    <3>1. \A j \in DOMAIN todo : todo[j].do \in Speaking => j = 1
      BY <1>2, <2>2 DEF Fits, Knows, Speaking
    <3> QED BY <1>2, <2>1, <3>1
  <2>4. rest[i].do = "write" => Quiet(rest[i].row)
    <3>1. todo[1] # Do(Create(todo[i + 1].uri))
      BY <1>2 DEF Do
    <3>2. ~Begun(rows, todo, i + 1)
      BY <2>1, <3>1 DEF Begun
    <3> QED BY <2>1, <3>2 DEF Fits
  <2>5. rest[i].do \in {"say", "fork"} => i = Len(rest)
    BY <1>2, <2>1 DEF Fits
  <2> QED BY <2>3, <2>4, <2>5 DEF Fits, Speaking
<1> QED BY <1>1, <1>3 DEF Planned

\* What follows a message speaks of what that wrote.
LEMMA PlannedFollow ==
    ASSUME NEW next, NEW u \in Chats, NEW msgs, NEW held, held = Says(next, u)
    PROVE  Planned(next, Follow(u, msgs), held)
<1>1. PICK note \in EngineCalls : note = Note(u)
  <2>1. Patch(u, "note", None) \in Rows
    BY DEF Patch, Rows
  <2> QED BY <2>1 DEF Note, Do, Patch, EngineCalls
<1>2. note.do = "write" /\ Quiet(note.row)
  BY <1>1 DEF Note, Do, Patch, Quiet
<1>3. PICK ensure \in EngineCalls : ensure = Ensure(u) /\ ensure.do = "ensure"
  <2>1. Ensure(u) \in EngineCalls /\ Ensure(u).do = "ensure"
    BY DEF Ensure, EngineCalls
  <2> QED BY <2>1
<1>4. PICK summary \in EngineCalls : summary = [do |-> "summary", uri |-> u]
  BY DEF EngineCalls
<1>5. \/ Follow(u, msgs) = <<ensure, summary, note>> \/ Follow(u, msgs) = <<ensure, summary>>
      \/ Follow(u, msgs) = <<note>> \/ Follow(u, msgs) = <<>>
  <2>1. PICK both : both = <<ensure, summary>>
    OBVIOUS
  <2>2. PICK one : one = <<note>>
    OBVIOUS
  <2>3. \/ Follow(u, msgs) = both \o one \/ Follow(u, msgs) = both \o <<>>
        \/ Follow(u, msgs) = <<>> \o one \/ Follow(u, msgs) = <<>> \o <<>>
    <3>1. (IF Spoken(msgs) % SummaryEvery = 0 THEN Summarise(u) ELSE <<>>) \in {both, <<>>}
      BY <1>3, <1>4, <2>1, Zenon DEF Summarise
    <3>2. (IF Len(msgs) % AuditEvery = 0 THEN <<Note(u)>> ELSE <<>>) \in {one, <<>>}
      BY <1>1, <2>2, Zenon
    <3> QED BY <3>1, <3>2, Zenon DEF Follow
  <2>4. both \o one = <<ensure, summary, note>>
    <3>1. PICK all \in Seq(EngineCalls) : all = <<ensure, summary, note>>
      <4>1. <<ensure, summary, note>> \in Seq(EngineCalls)
        OBVIOUS
      <4> QED BY <4>1
    <3>2. /\ both \in Seq(EngineCalls) /\ Len(both) = 2 /\ both[1] = ensure /\ both[2] = summary
          /\ one \in Seq(EngineCalls) /\ Len(one) = 1 /\ one[1] = note
          /\ Len(all) = 3 /\ all[1] = ensure /\ all[2] = summary /\ all[3] = note
      BY <2>1, <2>2, <3>1
    <3>3. PICK joint \in Seq(EngineCalls) : joint = both \o one
      BY <3>2, ConcatProperties
    <3>4. /\ Len(joint) = Len(both) + Len(one)
          /\ \A i \in 1 .. Len(both) + Len(one) : joint[i] = IF i <= Len(both) THEN both[i] ELSE one[i - Len(both)]
      BY <3>2, <3>3, ConcatProperties
    <3>5. Len(joint) = 3 /\ \A i \in 1 .. 3 : joint[i] = IF i <= 2 THEN both[i] ELSE one[i - 2]
      BY <3>2, <3>4
    <3>6. \A i \in 1 .. 3 : joint[i] = all[i]
      BY <3>2, <3>5
    <3>7. joint = all
      BY <3>2, <3>5, <3>6, SeqEqual
    <3> QED BY <3>1, <3>3, <3>7
  <2>5. both \o <<>> = both /\ <<>> \o one = one /\ <<>> \o <<>> = <<>>
    <3>1. both \in Seq(EngineCalls) /\ one \in Seq(EngineCalls) /\ <<>> \in Seq(EngineCalls)
      BY <2>1, <2>2
    <3> QED BY <3>1, ConcatEmptySeq
  <2> QED BY <2>1, <2>2, <2>3, <2>4, <2>5
<1>6. Planned(next, <<ensure, summary, note>>, held)
  BY <1>2, <1>3, <1>4 DEF Planned, Fits, Knows, Speaking
<1>7. Planned(next, <<ensure, summary>>, held)
  BY <1>3, <1>4 DEF Planned, Fits, Knows, Speaking
<1>8. Planned(next, <<note>>, held)
  BY <1>2 DEF Planned, Fits, Speaking
<1>9. Planned(next, <<>>, held)
  BY DEF Planned
<1> QED BY <1>5, <1>6, <1>7, <1>8, <1>9

\* A tool begins with a plan.
LEMMA SayPlanned ==
    ASSUME NEW rows, NEW held, NEW u, NEW m, Unwritten(rows, m)
    PROVE  Planned(rows, <<Ensure(u), Get(u), Say(u, m)>>, held)
<1>1. PICK todo : todo = <<Ensure(u), Get(u), Say(u, m)>>
  OBVIOUS
<1>2. /\ DOMAIN todo = 1 .. 3 /\ Len(todo) = 3 /\ todo[1].do = "ensure" /\ todo[1].uri = u
      /\ todo[2].do = "get" /\ todo[2].uri = u /\ todo[3].do = "say" /\ todo[3].uri = u /\ todo[3].msg = m
  BY <1>1 DEF Ensure, Get, Say
<1>3. \A i \in DOMAIN todo : i = 1 \/ i = 2 \/ i = 3
  BY <1>2
<1>4. Knows(rows, todo, held, 3)
  BY <1>2, <1>3 DEF Knows, Speaking
<1>5. Fits(rows, todo, held, 1) /\ Fits(rows, todo, held, 2) /\ Fits(rows, todo, held, 3)
  BY <1>2, <1>4 DEF Fits, Speaking
<1> QED BY <1>1, <1>3, <1>5 DEF Planned

LEMMA PairsPlanned ==
    ASSUME NEW rows, NEW held, NEW u, NEW v, NEW do \in {"fork", "summary"}, do = "summary" => v = u
    PROVE  Planned(rows, <<Ensure(u), Get(u), Ensure(v), [do |-> do, uri |-> v]>>, held)
<1>1. PICK todo : todo = <<Ensure(u), Get(u), Ensure(v), [do |-> do, uri |-> v]>>
  OBVIOUS
<1>2. /\ DOMAIN todo = 1 .. 4 /\ Len(todo) = 4 /\ todo[1].do = "ensure" /\ todo[1].uri = u
      /\ todo[2].do = "get" /\ todo[2].uri = u /\ todo[3].do = "ensure" /\ todo[4].do = do /\ todo[4].uri = v
  BY <1>1 DEF Ensure, Get
<1>3. \A i \in DOMAIN todo : i = 1 \/ i = 2 \/ i = 3 \/ i = 4
  BY <1>2
<1>4. do = "summary" => Knows(rows, todo, held, 4)
  BY <1>2, <1>3 DEF Knows, Speaking
<1>5. Fits(rows, todo, held, 1) /\ Fits(rows, todo, held, 2) /\ Fits(rows, todo, held, 3) /\ Fits(rows, todo, held, 4)
  BY <1>2, <1>4 DEF Fits, Speaking
<1> QED BY <1>1, <1>3, <1>5 DEF Planned

LEMMA TwoAndTwo ==
    ASSUME NEW a \in EngineCalls, NEW b \in EngineCalls, NEW c \in EngineCalls, NEW d \in EngineCalls
    PROVE  <<a, b>> \o <<c, d>> = <<a, b, c, d>>
<1>1. PICK first \in Seq(EngineCalls) : first = <<a, b>>
  <2>1. <<a, b>> \in Seq(EngineCalls)
    OBVIOUS
  <2> QED BY <2>1
<1>2. PICK second \in Seq(EngineCalls) : second = <<c, d>>
  <2>1. <<c, d>> \in Seq(EngineCalls)
    OBVIOUS
  <2> QED BY <2>1
<1>3. PICK all \in Seq(EngineCalls) : all = <<a, b, c, d>>
  <2>1. <<a, b, c, d>> \in Seq(EngineCalls)
    OBVIOUS
  <2> QED BY <2>1
<1>4. /\ Len(first) = 2 /\ first[1] = a /\ first[2] = b /\ Len(second) = 2 /\ second[1] = c /\ second[2] = d
      /\ Len(all) = 4 /\ all[1] = a /\ all[2] = b /\ all[3] = c /\ all[4] = d
  BY <1>1, <1>2, <1>3
<1>5. PICK joint \in Seq(EngineCalls) : joint = first \o second
  BY ConcatProperties
<1>6. /\ Len(joint) = Len(first) + Len(second)
      /\ \A i \in 1 .. Len(first) + Len(second) :
            joint[i] = IF i <= Len(first) THEN first[i] ELSE second[i - Len(first)]
  BY <1>5, ConcatProperties
<1>7. Len(joint) = 4 /\ \A i \in 1 .. 4 : joint[i] = IF i <= 2 THEN first[i] ELSE second[i - 2]
  BY <1>4, <1>6
<1>8. \A i \in 1 .. 4 : joint[i] = all[i]
  BY <1>4, <1>7
<1>9. joint = all
  BY <1>4, <1>7, <1>8, SeqEqual
<1> QED BY <1>1, <1>2, <1>3, <1>5, <1>9

LEMMA ToolPlanned ==
    ASSUME TypeInv, NEW program \in Tools
    PROVE  Planned(ops, program, <<>>)
<1>1. PICK u \in Chats : program \in QsoTools(u) \cup ChatRead(u) \cup ChatAppend(u) \cup ChatSummarize(u) \cup ChatFork(u)
  BY DEF Tools
<1>2. ASSUME NEW m \in NewMessages PROVE Unwritten(ops, m)
  <2> SUFFICES ASSUME NEW o \in ToSet(ops), o.op = "patch", o.msgs # None PROVE m \notin ToSet(o.msgs)
    BY DEF Unwritten
  <2>1. ToSet(o.msgs) \subseteq Written
    BY DEF Written
  <2> QED BY <2>1 DEF NewMessages
<1>3. ASSUME NEW v \in Chats
      PROVE  /\ Get(v) \in EngineCalls /\ Ensure(v) \in EngineCalls
             /\ [do |-> "summary", uri |-> v] \in EngineCalls /\ [do |-> "fork", uri |-> v] \in EngineCalls
             /\ Note(v) \in EngineCalls /\ Do(Create(v)) \in EngineCalls /\ Do(Link(u, v)) \in EngineCalls
  <2>1. Create(v) \in Rows /\ Link(u, v) \in Rows /\ Patch(v, "note", None) \in Rows
    BY DEF Create, Link, Patch, Rows
  <2>2. Note(v) \in EngineCalls /\ Do(Create(v)) \in EngineCalls /\ Do(Link(u, v)) \in EngineCalls
    BY <2>1 DEF Note, Do, EngineCalls, Create, Link, Patch
  <2>3. Get(v) \in EngineCalls /\ Ensure(v) \in EngineCalls
    BY DEF Get, Ensure, EngineCalls
  <2>4. [do |-> "summary", uri |-> v] \in EngineCalls /\ [do |-> "fork", uri |-> v] \in EngineCalls
    BY DEF EngineCalls
  <2> QED BY <2>2, <2>3, <2>4
<1>4. CASE program \in QsoTools(u)
  <2>1. PICK e \in EngineCalls : program = <<e>> /\ e.do = "write" /\ Quiet(e.row)
    <3>1. ASSUME NEW v \in Chats
          PROVE  /\ Note(v).do = "write" /\ Quiet(Note(v).row) /\ Do(Create(v)).do = "write" /\ Quiet(Do(Create(v)).row)
                 /\ Do(Link(u, v)).do = "write" /\ Quiet(Do(Link(u, v)).row)
      BY DEF Note, Do, Patch, Create, Link, Quiet
    <3> QED BY <1>3, <1>4, <3>1 DEF QsoTools
  <2>2. e.do = "write" /\ Quiet(e.row) => Planned(ops, <<e>>, <<>>)
    BY DEF Planned, Fits, Speaking
  <2> QED BY <2>1, <2>2
<1>5. CASE program \in ChatRead(u)
  <2>1. \A i \in {1, 2} : <<Ensure(u), Get(u)>>[i].do \in {"get", "ensure"}
    BY DEF Ensure, Get
  <2> QED BY <1>5, <2>1, PlannedSilent DEF ChatRead
<1>6. CASE program \in ChatAppend(u)
  <2>1. PICK m \in NewMessages : program = <<Ensure(u), Get(u), Say(u, m)>>
    BY <1>6 DEF ChatAppend
  <2> QED BY <1>2, <2>1, SayPlanned
<1>7. ASSUME NEW v \in Chats, NEW do \in {"fork", "summary"}, do = "summary" => v = u,
             program = <<Ensure(u), Get(u)>> \o <<Ensure(v), [do |-> do, uri |-> v]>>
      PROVE  Planned(ops, program, <<>>)
  <2>1. program = <<Ensure(u), Get(u), Ensure(v), [do |-> do, uri |-> v]>>
    <3>1. PICK last \in EngineCalls : last = [do |-> do, uri |-> v]
      BY <1>3
    <3>2. Ensure(u) \in EngineCalls /\ Get(u) \in EngineCalls /\ Ensure(v) \in EngineCalls
      BY <1>3
    <3>3. <<Ensure(u), Get(u)>> \o <<Ensure(v), last>> = <<Ensure(u), Get(u), Ensure(v), last>>
      BY <3>2, TwoAndTwo
    <3> QED BY <1>7, <3>1, <3>3, Zenon
  <2> QED BY <1>7, <2>1, PairsPlanned
<1>8. CASE program \in ChatSummarize(u)
  BY <1>7, <1>8 DEF ChatSummarize, Summarise
<1>9. CASE program \in ChatFork(u)
  BY <1>7, <1>9 DEF ChatFork, ForkTo
<1> QED BY <1>1, <1>4, <1>5, <1>6, <1>8, <1>9

-------------------------------------------------------------------------------
\* While calls take turns: calls follow their plan, patches are of objects that were made,
\* the log replays to itself and conversations keep what was acknowledged.
Plans == Readable => \A s \in Servers : call[s] # None => Planned(ops, call[s].todo, call[s].held)
Patches == \A o \in ToSet(ops) : o.op = "patch" => o.uri \in Made(ops)
Whole == Replayed(<<>>, ops).view = ops
Kept == \A u \in Chats : ForkedOver(u) \/ Keeps(Says(ops, u), acked, u)
Talks == mode = "turns" => Plans /\ Patches /\ Whole /\ Kept

LEMMA WaitingPlanned ==
    ASSUME TypeInv, Plans, Readable, NEW s \in Servers, NEW c \in Waiting(s)
    PROVE  Planned(ops, c.todo, c.held)
<1>1. ctx[s] # None
  <2> SUFFICES ASSUME ctx[s] = None PROVE FALSE
    OBVIOUS
  <2>1. Waiting(s) = {}
    BY DEF Waiting, TypeInv
  <2> QED BY <2>1
<1>2. CASE call[s] # None
  <2>1. c = call[s]
    BY <1>1, <1>2 DEF Waiting
  <2> QED BY <1>2, <2>1 DEF Plans
<1>3. CASE call[s] = None
  <2>1. c \in (IF (mode = "turns" /\ \E x \in Servers : call[x] # None) \/ Len(ctx[s].view) >= MaxOps[mode] THEN {}
               ELSE {[todo |-> program, held |-> <<>>, fresh |-> FALSE] : program \in Tools})
    BY <1>1, <1>3 DEF Waiting
  <2>2. PICK program \in Tools : c = [todo |-> program, held |-> <<>>, fresh |-> FALSE]
    BY <2>1
  <2> QED BY <2>2, ToolPlanned
<1> QED BY <1>2, <1>3

LEMMA GoOnPlanned ==
    ASSUME TypeInv, NEW s \in Servers, NEW rows, NEW todo, NEW held, GoOn(s, todo, held), Planned(rows, todo, held),
           call'[s] # None
    PROVE  Planned(rows, call'[s].todo, call'[s].held)
<1>1. call' = [call EXCEPT ![s] = None] \/ call' = [call EXCEPT ![s] = [todo |-> todo, held |-> held, fresh |-> FALSE]]
  BY DEF GoOn
<1> QED BY <1>1 DEF TypeInv

\* What the step of a call puts in the log.
LEMMA PutKnows ==
    ASSUME TypeInv, Turns, Talks, mode = "turns", Readable, NEW s \in Servers, Writes(s)
    PROVE  /\ Fits(ops, call[s].todo, call[s].held, 1) /\ call[s].todo[1] = Now(s)
           /\ ctx[s].view = ops /\ ~Raises(ops, Row(s))
<1>1. call[s] # None /\ call[s].fresh
  BY DEF Writes
<1>2. /\ call[s].todo \in Seq(EngineCalls) /\ call[s].todo # <<>> /\ ctx[s] # None /\ ops \in Seq(Rows)
  BY <1>1, AppliedTypes DEF TypeInv
<1>3. PICK todo \in Seq(EngineCalls) : todo = call[s].todo /\ todo # <<>>
  BY <1>2
<1>4. 1 \in DOMAIN todo /\ todo[1] = Head(todo)
  BY <1>3, Rest
<1>5. Fits(ops, call[s].todo, call[s].held, 1)
  BY <1>1, <1>3, <1>4 DEF Talks, Plans, Planned
<1>6. ctx[s].applied = Len(ops) /\ ~Raises(ctx[s].view, Row(s)) /\ Reaches(ctx[s])
  BY <1>1, <1>2 DEF Turns, Accepted, InStep, Opened
<1>7. SubSeq(ops, 1, Len(ops)) = ops
  BY <1>2
<1>8. ctx[s].view = ops
  BY <1>6, <1>7 DEF Reaches, Talks, Whole
<1> QED BY <1>3, <1>4, <1>5, <1>6, <1>8 DEF Now

LEMMA AckedUnheard ==
    ASSUME AckedLogged, NEW m, Unwritten(ops, m), NEW u
    PROVE  Unheard(m, acked, u)
BY DEF AckedLogged, LoggedIn, Unwritten, Unheard

LEMMA SaidWritten ==
    ASSUME TypeInv, NEW m, Unwritten(ops, m), NEW u
    PROVE  m \notin ToSet(Says(ops, u))
<1>1. Says(ops, u) = <<>> \/ \E o \in ToSet(ops) : Tells(o, u) /\ Says(ops, u) = o.msgs
  BY SaysFrom DEF TypeInv
<1>2. ToSet(<<>>) = {}
  BY DEF ToSet
<1> QED BY <1>1, <1>2 DEF Unwritten, Tells

\* The row a call appends.
LEMMA RowIs ==
    ASSUME TypeInv, NEW s \in Servers, call[s] # None, call[s].fresh
    PROVE  /\ Now(s).do = "write" => Row(s) = Now(s).row
           /\ Now(s).do = "say" => Row(s) = Patch(Now(s).uri, "say", Append(call[s].held, Now(s).msg))
           /\ Now(s).do = "summary" => Row(s) = Patch(Now(s).uri, "summary", Append(call[s].held, Summary))
           /\ Now(s).do = "fork" => Row(s) = Patch(Now(s).uri, "fork", call[s].held)
BY DEF Row, RowOf, Now

LEMMA ForkedLonger ==
    ASSUME TypeInv, NEW o \in Rows, ops' = Append(ops, o), NEW u
    PROVE  /\ ForkedOver(u) => ForkedOver(u)'
           /\ (o.op = "patch" /\ o.uri = u /\ o.why = "fork") => ForkedOver(u)'
<1>1. ops \in Seq(Rows)
  BY DEF TypeInv
<1>2. PICK more : more = Append(ops, o)
  OBVIOUS
<1>3. /\ DOMAIN ops = 1 .. Len(ops) /\ DOMAIN more = 1 .. Len(ops) + 1 /\ more[Len(ops) + 1] = o
      /\ \A i \in DOMAIN ops : more[i] = ops[i]
  BY <1>1, <1>2
<1>4. ForkedOver(u)' <=> \E i \in DOMAIN more : more[i].op = "patch" /\ more[i].uri = u /\ more[i].why = "fork"
  BY <1>2 DEF ForkedOver
<1>5. Len(ops) + 1 \in DOMAIN more /\ \A i \in DOMAIN ops : i \in DOMAIN more
  BY <1>1, <1>3
<1> QED BY <1>3, <1>4, <1>5 DEF ForkedOver

LEMMA PutKeeps ==
    ASSUME TypeInv, Turns, Talks, AckedLogged, mode = "turns", Readable, NEW s \in Servers, Writes(s),
           ops' = Append(ops, Row(s)), NEW u \in Chats, ~ForkedOver(u)'
    PROVE  /\ Keeps(Says(ops', u), acked, u)
           /\ Now(s).do = "say" => Keeps(Says(ops', u), Append(acked, [uri |-> Now(s).uri, msg |-> Now(s).msg]), u)
<1>1. /\ call[s] # None /\ call[s].fresh /\ Row(s) \in Rows /\ Now(s) \in EngineCalls /\ call[s].held \in Texts
      /\ ops \in Seq(Rows) /\ acked \in Seq(Acks)
  BY AppliedTypes DEF Writes, TypeInv, Acks
<1>2. PICK o \in Rows : o = Row(s)
  BY <1>1
<1>3. PICK now \in EngineCalls : now = Now(s)
  BY <1>1
<1>4. PICK held \in Texts : held = call[s].held
  BY <1>1
<1>5. Keeps(Says(ops, u), acked, u)
  BY <1>1, <1>2, ForkedLonger DEF Talks, Kept
<1>6. PICK said \in Texts : said = Says(ops, u)
  BY <1>1, SaysType
<1>7. /\ now.do = "write" => Quiet(now.row) \/ Begun(ops, call[s].todo, 1)
      /\ now.do = "say" => Unwritten(ops, now.msg)
      /\ now.do \in Speaking => held = Says(ops, now.uri)
  <2>1. Fits(ops, call[s].todo, call[s].held, 1) /\ call[s].todo[1] = now
    BY <1>3, PutKnows
  <2>2. \A j \in DOMAIN call[s].todo : ~(j < 1)
    <3>1. PICK todo \in Seq(EngineCalls) : todo = call[s].todo
      BY <1>1, AppliedTypes
    <3> QED BY <3>1
  <2> QED BY <1>4, <2>1, <2>2 DEF Fits, Knows
<1>8. /\ now.do = "write" => o = now.row
      /\ now.do = "say" => o = Patch(now.uri, "say", Append(held, now.msg))
      /\ now.do = "summary" => o = Patch(now.uri, "summary", Append(held, Summary))
      /\ now.do = "fork" => o = Patch(now.uri, "fork", held)
  BY <1>1, <1>2, <1>3, <1>4, RowIs
<1>9. /\ Tells(o, u) => Says(ops', u) = o.msgs
      /\ ~Tells(o, u) => Says(ops', u) = said
  BY <1>1, <1>2, <1>6, SaysNext
<1>10. now.do \in Writing
  BY <1>1, <1>3, AppliedTypes
<1>11. CASE now.do = "write"
  <2>1. CASE Tells(o, u)
    <3>1. Begun(ops, call[s].todo, 1)
      BY <1>7, <1>8, <1>11, <2>1 DEF Tells, Quiet
    <3>2. call[s].todo[1] = now
      BY <1>3, PutKnows
    <3>3. now.row = Patch(now.uri, "init", <<>>) /\ Says(ops, now.uri) = <<>>
      BY <3>1, <3>2 DEF Begun
    <3>4. u = now.uri /\ o.msgs = <<>>
      BY <1>8, <1>11, <2>1, <3>3 DEF Tells, Patch
    <3> QED BY <1>3, <1>5, <1>9, <1>11, <2>1, <3>3, <3>4
  <2>2. CASE ~Tells(o, u)
    BY <1>3, <1>5, <1>6, <1>9, <1>11, <2>2
  <2> QED BY <2>1, <2>2
<1>12. CASE now.do = "say"
  <2>1. now.msg \in Messages /\ now.uri \in Chats
    BY <1>12, EngineCallTypes
  <2>2. PICK a \in Acks : a = [uri |-> now.uri, msg |-> now.msg] /\ a.uri = now.uri /\ a.msg = now.msg
    <3>1. [uri |-> now.uri, msg |-> now.msg] \in Acks
      BY <2>1 DEF Acks
    <3> QED BY <3>1
  <2>3. Unwritten(ops, a.msg)
    BY <1>7, <1>12, <2>2
  <2>4. CASE u = now.uri
    <3>1. Tells(o, u) /\ o.msgs = Append(held, a.msg)
      <4>1. o.msgs = Append(held, now.msg) /\ o.op = "patch" /\ o.uri = u
        BY <1>8, <1>12, <2>4 DEF Patch
      <4>2. Append(held, now.msg) \in Texts
        BY <2>1 DEF Texts
      <4> QED BY <2>2, <4>1, <4>2, NoneIsNothing DEF Tells
    <3>2. held = said
      BY <1>6, <1>7, <1>12, <2>4 DEF Speaking
    <3>3. Unheard(a.msg, acked, u)
      BY <2>3, AckedUnheard
    <3>4. a.msg \notin ToSet(held)
      BY <1>6, <2>3, <3>2, SaidWritten
    <3>5. Keeps(held, acked, u) /\ a.msg \in Messages \cup {Summary} /\ a.uri = u
      BY <1>5, <1>6, <2>2, <2>4, <3>2 DEF Acks
    <3>6. Keeps(Append(held, a.msg), acked, u)
      BY <1>1, <3>3, <3>5, KeepsLonger
    <3>7. Keeps(Append(held, a.msg), Append(acked, a), a.uri)
      BY <1>1, <3>3, <3>4, <3>5, KeepsNew
    <3> QED BY <1>3, <1>9, <2>2, <3>1, <3>5, <3>6, <3>7
  <2>5. CASE u # now.uri
    <3>1. ~Tells(o, u)
      BY <1>8, <1>12, <2>5 DEF Tells, Patch
    <3>2. Keeps(said, Append(acked, a), u)
      BY <1>1, <1>5, <1>6, <2>2, <2>5, KeepsOther
    <3> QED BY <1>3, <1>5, <1>6, <1>9, <2>2, <3>1, <3>2
  <2> QED BY <2>4, <2>5
<1>13. CASE now.do = "summary"
  <2>1. CASE u = now.uri
    <3>1. Tells(o, u) /\ o.msgs = Append(held, Summary)
      <4>1. o.msgs = Append(held, Summary) /\ o.op = "patch" /\ o.uri = u
        BY <1>8, <1>13, <2>1 DEF Patch
      <4>2. Append(held, Summary) \in Texts
        BY DEF Texts
      <4> QED BY <4>1, <4>2, NoneIsNothing DEF Tells
    <3>2. held = said
      BY <1>6, <1>7, <1>13, <2>1 DEF Speaking
    <3>3. Unheard(Summary, acked, u)
      <4>1. \A i \in DOMAIN acked : acked[i] \in Acks
        BY <1>1
      <4>2. \A a \in Acks : a.msg # Summary
        BY SandboxAssumption DEF Acks
      <4> QED BY <4>1, <4>2 DEF Unheard
    <3>4. Keeps(Append(held, Summary), acked, u)
      BY <1>1, <1>5, <1>6, <3>2, <3>3, KeepsLonger
    <3> QED BY <1>3, <1>9, <1>13, <3>1, <3>4
  <2>2. CASE u # now.uri
    <3>1. ~Tells(o, u)
      BY <1>8, <1>13, <2>2 DEF Tells, Patch
    <3> QED BY <1>3, <1>5, <1>6, <1>9, <1>13, <3>1
  <2> QED BY <2>1, <2>2
<1>14. CASE now.do = "fork"
  <2>1. u # now.uri
    <3>1. o.op = "patch" /\ o.uri = now.uri /\ o.why = "fork"
      BY <1>8, <1>14 DEF Patch
    <3> QED BY <1>2, <3>1, ForkedLonger
  <2>2. ~Tells(o, u)
    BY <1>8, <1>14, <2>1 DEF Tells, Patch
  <2> QED BY <1>3, <1>5, <1>6, <1>9, <1>14, <2>2
<1> QED BY <1>10, <1>11, <1>12, <1>13, <1>14 DEF Writing

LEMMA OnlyOneMore ==
    ASSUME NEW rows \in Seq(Rows), NEW o \in Rows, NEW x \in ToSet(Append(rows, o))
    PROVE  x \in ToSet(rows) \/ x = o
<1>1. \A i \in 1 .. Len(rows) + 1 : Append(rows, o)[i] = IF i = Len(rows) + 1 THEN o ELSE rows[i]
  BY AppendProperties
<1>2. PICK i \in DOMAIN Append(rows, o) : x = Append(rows, o)[i]
  BY DEF ToSet
<1>3. DOMAIN Append(rows, o) = 1 .. Len(rows) + 1 /\ DOMAIN rows = 1 .. Len(rows)
  OBVIOUS
<1>4. i = Len(rows) + 1 \/ i \in DOMAIN rows
  BY <1>3
<1> QED BY <1>1, <1>2, <1>3, <1>4 DEF ToSet

LEMMA PutWhole ==
    ASSUME TypeInv, Turns, Talks, mode = "turns", Readable, NEW s \in Servers, Writes(s), ops' = Append(ops, Row(s))
    PROVE  Patches' /\ Whole'
<1>1. Row(s) \in Rows /\ ops \in Seq(Rows)
  BY AppliedTypes DEF Writes, TypeInv
<1>2. ctx[s].view = ops /\ ~Raises(ops, Row(s))
  BY PutKnows
<1>3. Whole'
  BY <1>2, PutReplays DEF Whole
<1>4. ASSUME NEW o \in ToSet(ops'), o.op = "patch" PROVE o.uri \in Made(ops')
  <2>1. Made(ops) \subseteq Made(ops')
    BY <1>1, InLonger DEF Made
  <2>2. o \in ToSet(ops) \/ o = Row(s)
    BY <1>1, <1>4, OnlyOneMore
  <2>3. o = Row(s) => o.uri \in Made(ops)
    BY <1>2, <1>4 DEF Raises
  <2> QED BY <1>4, <2>1, <2>2, <2>3 DEF Talks, Patches
<1> QED BY <1>3, <1>4 DEF Patches

\* A call that has appended a row goes on with a plan.
LEMMA PutWrite ==
    ASSUME TypeInv, Turns, Talks, mode = "turns", Readable, NEW s \in Servers, Writes(s),
           ops' = Append(ops, Row(s)), Now(s).do = "write"
    PROVE  /\ \A u \in Chats : Says(ops', u) = Says(ops, u)
           /\ \A m \in Messages : Unwritten(ops, m) => Unwritten(ops', m)
           /\ \A u \in Chats : Now(s) = Do(Create(u)) => Says(ops', u) = <<>>
<1>1. /\ call[s] # None /\ call[s].fresh /\ Row(s) \in Rows /\ Now(s) \in EngineCalls /\ ops \in Seq(Rows)
  BY AppliedTypes DEF Writes, TypeInv
<1>2. PICK o \in Rows : o = Row(s) /\ o = Now(s).row
  BY <1>1, RowIs
<1>3. Quiet(o) \/ (o = Patch(Now(s).uri, "init", <<>>) /\ Says(ops, Now(s).uri) = <<>>)
  <2>1. Fits(ops, call[s].todo, call[s].held, 1) /\ call[s].todo[1] = Now(s)
    BY PutKnows
  <2>2. Quiet(Now(s).row) \/ Begun(ops, call[s].todo, 1)
    BY <2>1 DEF Fits
  <2> QED BY <1>2, <2>1, <2>2 DEF Begun
<1>4. ASSUME NEW u \in Chats PROVE Says(ops', u) = Says(ops, u)
  <2>1. /\ Tells(o, u) => Says(ops', u) = o.msgs
        /\ ~Tells(o, u) => Says(ops', u) = Says(ops, u)
    BY <1>1, <1>2, SaysNext
  <2>2. Tells(o, u) => o.msgs = <<>> /\ u = Now(s).uri /\ Says(ops, u) = <<>>
    BY <1>3 DEF Tells, Quiet, Patch
  <2> QED BY <2>1, <2>2
<1>5. ASSUME NEW m \in Messages, Unwritten(ops, m) PROVE Unwritten(ops', m)
  <2>1. o.op = "patch" /\ o.msgs # None => m \notin ToSet(o.msgs)
    <3>1. ToSet(<<>>) = {}
      BY DEF ToSet
    <3> QED BY <1>3, <3>1 DEF Quiet, Patch
  <2>2. \A x \in ToSet(ops') : x \in ToSet(ops) \/ x = o
    BY <1>1, <1>2, OnlyOneMore
  <2> QED BY <1>5, <2>1, <2>2 DEF Unwritten
<1>6. ASSUME NEW u \in Chats, Now(s) = Do(Create(u)) PROVE Says(ops', u) = <<>>
  <2>1. o = Create(u)
    BY <1>2, <1>6 DEF Do
  <2>2. u \notin Made(ops)
    <3>1. ~Raises(ops, Create(u))
      BY <1>2, <2>1, PutKnows
    <3>2. Create(u).op = "create" /\ Create(u).uri = u
      BY DEF Create
    <3> QED BY <3>1, <3>2 DEF Raises
  <2>3. Says(ops, u) = <<>>
    BY <1>1, <2>2, SaysFrom DEF Talks, Patches, Tells
  <2> QED BY <1>4, <2>3
<1> QED BY <1>4, <1>5, <1>6

LEMMA CommitPlanned ==
    ASSUME TypeInv, Turns, Talks, mode = "turns", NEW s \in Servers, Commit(s), call'[s] # None
    PROVE  Planned(ops', call'[s].todo, call'[s].held)
<1>1. /\ Writes(s) /\ Readable /\ ops' = Append(ops, Row(s)) /\ call[s] # None /\ call[s].fresh
      /\ Acknowledge(s)
  BY DEF Commit, PutRow, Writes
<1>2. /\ Row(s) \in Rows /\ Now(s) \in EngineCalls /\ Now(s).do \in Writing /\ call[s].held \in Texts /\ ops \in Seq(Rows)
      /\ call[s].todo \in Seq(EngineCalls) /\ call[s].todo # <<>>
  BY <1>1, AppliedTypes DEF TypeInv
<1>3. PICK todo \in Seq(EngineCalls) : todo = call[s].todo /\ todo # <<>>
  BY <1>2
<1>4. PICK held \in Texts : held = call[s].held
  BY <1>2
<1>5. PICK now \in EngineCalls : now = Now(s) /\ now = Head(todo)
  BY <1>2, <1>3 DEF Now
<1>6. Fits(ops, todo, held, 1) /\ todo[1] = now /\ Planned(ops, todo, held)
  BY <1>1, <1>3, <1>4, <1>5, PutKnows DEF Talks, Plans
<1>7. now.do # "say" => GoOn(s, Tail(todo), held)
  BY <1>1, <1>3, <1>4, <1>5 DEF Acknowledge
<1>8. now.do \in {"say", "fork"} => Tail(todo) = <<>>
  <2> SUFFICES ASSUME now.do \in {"say", "fork"} PROVE Tail(todo) = <<>>
    OBVIOUS
  <2>1. Len(todo) = 1
    BY <1>6 DEF Fits
  <2>2. Tail(todo) \in Seq(EngineCalls) /\ Len(Tail(todo)) = Len(todo) - 1
    BY <1>3, Rest
  <2>3. PICK rest \in Seq(EngineCalls) : rest = Tail(todo)
    BY <2>2
  <2>4. Len(rest) = 0
    BY <2>1, <2>2, <2>3
  <2> QED BY <2>3, <2>4, EmptySeq
<1>9. CASE now.do = "write"
  <2>1. Planned(ops', Tail(todo), held)
    BY <1>1, <1>2, <1>3, <1>5, <1>6, <1>9, PutWrite, PlannedRest
  <2> QED BY <1>7, <1>9, <2>1, GoOnPlanned
<1>10. CASE now.do = "summary"
  <2>1. Planned(ops', Tail(todo), held)
    BY <1>3, <1>5, <1>6, <1>10, PlannedSummarised
  <2> QED BY <1>7, <1>10, <2>1, GoOnPlanned
<1>11. CASE now.do = "fork"
  <2>1. Planned(ops', Tail(todo), held)
    BY <1>8, <1>11 DEF Planned
  <2> QED BY <1>7, <1>11, <2>1, GoOnPlanned
<1>12. CASE now.do = "say"
  <2>1. now.msg \in Messages /\ now.uri \in Chats
    BY <1>12, EngineCallTypes
  <2>2. Row(s) = Patch(now.uri, "say", Append(held, now.msg))
    BY <1>1, <1>4, <1>5, <1>12, RowIs
  <2>3. PICK msgs \in Texts : msgs = Append(held, now.msg)
    <3>1. Append(held, now.msg) \in Texts
      BY <2>1 DEF Texts
    <3> QED BY <3>1
  <2>4. Row(s).msgs = msgs /\ Tells(Row(s), now.uri)
    <3>1. Row(s) = [op |-> "patch", uri |-> now.uri, why |-> "say", msgs |-> msgs]
      BY <2>2, <2>3, Zenon DEF Patch
    <3>2. msgs # None
      BY NoneIsNothing
    <3> QED BY <3>1, <3>2 DEF Tells
  <2>5. msgs = Says(ops', now.uri)
    BY <1>1, <1>2, <2>4, SaysNext
  <2>6. PICK more \in Seq(EngineCalls) : more = Follow(now.uri, msgs)
    BY <2>1, FollowType
  <2>7. Planned(ops', more, msgs)
    BY <2>1, <2>5, <2>6, PlannedFollow
  <2>8. GoOn(s, <<>> \o more, msgs)
    BY <1>1, <1>3, <1>5, <1>8, <1>12, <2>4, <2>6 DEF Acknowledge
  <2>9. <<>> \o more = more
    BY ConcatEmptySeq
  <2> QED BY <2>7, <2>8, <2>9, GoOnPlanned
<1> QED BY <1>2, <1>5, <1>9, <1>10, <1>11, <1>12 DEF Writing

LEMMA LookPlanned ==
    ASSUME TypeInv, Turns, Talks, mode = "turns", Readable, NEW s \in Servers, Look(s), call'[s] # None
    PROVE  Planned(ops, call'[s].todo, call'[s].held)
<1> DEFINE view == Refresh(ctx[s]).view
<1>1. PICK c \in Waiting(s) :
          LET u == Head(c.todo).uri
          IN  \/ Head(c.todo).do = "get" /\ GoOn(s, Tail(c.todo), Says(view, u))
              \/ Head(c.todo).do = "ensure" /\ u \in Made(view) /\ GoOn(s, Tail(c.todo), c.held)
              \/ /\ Head(c.todo).do = "ensure" /\ u \notin Made(view)
                 /\ GoOn(s, <<Do(Create(u)), Do(Patch(u, "init", <<>>))>> \o Tail(c.todo), c.held)
  BY DEF Look
<1>2. Ready(s, c) /\ Planned(ops, c.todo, c.held)
  BY WaitingTypes, WaitingPlanned DEF Talks
<1>3. ctx[s] \in Contexts /\ ctx[s] # None /\ c \in ToolCalls /\ c.todo # <<>> /\ Head(c.todo) \in EngineCalls
  BY <1>2, NoneIsNothing DEF Ready
<1>4. PICK todo \in Seq(EngineCalls) : todo = c.todo /\ todo # <<>>
  BY <1>3 DEF ToolCalls
<1>5. PICK e \in EngineCalls : e = Head(todo) /\ e.uri \in Chats
  BY <1>3, <1>4, EngineCallTypes
<1>6. view = ops
  <2>1. Reaches(ctx[s])
    BY <1>3 DEF Turns, InStep, Opened
  <2> QED BY <1>3, <2>1, RefreshReaches DEF Turns, Talks, Whole
<1> HIDE DEF view
<1>7. CASE e.do = "get" /\ GoOn(s, Tail(todo), Says(ops, e.uri))
  <2>1. Planned(ops, Tail(todo), Says(ops, e.uri))
    BY <1>2, <1>4, <1>5, <1>7, PlannedGet DEF TypeInv
  <2> QED BY <1>7, <2>1, GoOnPlanned
<1>8. CASE e.do = "ensure" /\ GoOn(s, Tail(todo), c.held)
  <2>1. \A u \in Chats : todo[1] # Do(Create(u))
    <3>1. todo[1] = e
      BY <1>4, <1>5, Rest
    <3> QED BY <1>8, <3>1 DEF Do
  <2>2. Planned(ops, Tail(todo), c.held)
    BY <1>2, <1>4, <1>5, <1>8, <2>1, PlannedRest DEF TypeInv
  <2> QED BY <1>8, <2>2, GoOnPlanned
<1>9. CASE e.do = "ensure" /\ GoOn(s, <<Do(Create(e.uri)), Do(Patch(e.uri, "init", <<>>))>> \o Tail(todo), c.held)
  <2>1. Planned(ops, <<Do(Create(e.uri)), Do(Patch(e.uri, "init", <<>>))>> \o Tail(todo), c.held)
    BY <1>2, <1>4, <1>5, <1>9, PlannedMaking DEF TypeInv
  <2> QED BY <1>9, <2>1, GoOnPlanned
<1> QED BY <1>1, <1>4, <1>5, <1>6, <1>7, <1>8, <1>9

LEMMA CatchUpPlanned ==
    ASSUME TypeInv, Talks, mode = "turns", Readable, NEW s \in Servers, CatchUp(s), call'[s] # None
    PROVE  Planned(ops, call'[s].todo, call'[s].held)
<1>1. PICK c \in Waiting(s) : Fail(s) \/ call' = [call EXCEPT ![s] = [c EXCEPT !.fresh = TRUE]]
  BY DEF CatchUp
<1>2. Planned(ops, c.todo, c.held) /\ c \in ToolCalls
  BY WaitingTypes, WaitingPlanned DEF Talks, Ready
<1>3. ~Fail(s)
  BY DEF Fail, TypeInv
<1>4. call'[s] = [c EXCEPT !.fresh = TRUE]
  BY <1>1, <1>3 DEF TypeInv
<1>5. call'[s].todo = c.todo /\ call'[s].held = c.held
  BY <1>2, <1>4 DEF ToolCalls
<1> QED BY <1>2, <1>5

LEMMA PlansStep ==
    ASSUME TypeInv, Turns, Talks, mode = "turns", [Next]_vars
    PROVE  Plans'
<1>1. Readable' => Readable
  BY LogGrows
<1> SUFFICES ASSUME Readable', Readable, NEW x \in Servers, call'[x] # None
             PROVE  Planned(ops', call'[x].todo, call'[x].held)
  BY <1>1 DEF Plans
<1>2. CASE call'[x] = call[x] /\ ops' = ops
  BY <1>2 DEF Talks, Plans
<1>3. ASSUME NEW s \in Servers, Fail(s) PROVE x # s /\ call'[x] = call[x]
  BY <1>3 DEF Fail, TypeInv
<1>4. ASSUME NEW s \in Servers, Look(s) PROVE Planned(ops', call'[x].todo, call'[x].held)
  <2>1. ops' = ops
    BY <1>4 DEF Look
  <2>2. CASE x # s
    BY <1>2, <1>4, <2>1, <2>2, LookTypes
  <2> QED BY <1>4, <2>1, <2>2, LookPlanned
<1>5. ASSUME NEW s \in Servers, CatchUp(s) PROVE Planned(ops', call'[x].todo, call'[x].held)
  <2>1. ops' = ops
    BY <1>5 DEF CatchUp
  <2>2. CASE x # s
    BY <1>2, <1>5, <2>1, <2>2, CatchUpTypes
  <2> QED BY <1>5, <2>1, <2>2, CatchUpPlanned
<1>6. ASSUME NEW s \in Servers, Commit(s) PROVE Planned(ops', call'[x].todo, call'[x].held)
  <2>1. CASE x # s
    <3>1. call'[x] = call[x]
      BY <1>6, <2>1 DEF Commit, Acknowledge, GoOn, TypeInv
    <3> QED BY <1>6, <2>1, <3>1 DEF Turns, OneCall, Commit, Writes
  <2> QED BY <1>6, <2>1, CommitPlanned
<1>7. ASSUME NEW s \in Servers, Denied(s) PROVE Planned(ops', call'[x].todo, call'[x].held)
  BY <1>2, <1>3, <1>7 DEF Denied
<1>8. ASSUME NEW s \in Servers, AppendFails(s) PROVE FALSE
  BY <1>8 DEF AppendFails
<1>9. ASSUME NEW s \in Servers, Crash(s) PROVE Planned(ops', call'[x].todo, call'[x].held)
  <2>1. x # s /\ call'[x] = call[x]
    BY <1>3, <1>9 DEF Crash
  <2>2. ~Writes(s)
    BY <2>1 DEF Turns, OneCall, Writes
  <2> QED BY <1>2, <1>9, <2>1, <2>2 DEF Crash
<1>10. ASSUME NEW s \in Servers, Open(s) PROVE Planned(ops', call'[x].todo, call'[x].held)
  BY <1>2, <1>10 DEF Open
<1>11. CASE UNCHANGED vars
  BY <1>2, <1>11 DEF vars
<1> QED BY <1>4, <1>5, <1>6, <1>7, <1>8, <1>9, <1>10, <1>11 DEF Next

LEMMA KeptStep ==
    ASSUME TypeInv, Turns, Talks, AckedLogged, mode = "turns", [Next]_vars
    PROVE  Kept'
<1> SUFFICES ASSUME NEW u \in Chats, ~ForkedOver(u)' PROVE Keeps(Says(ops', u), acked', u)
  BY DEF Kept
<1>1. CASE ops' = ops /\ acked' = acked
  <2>1. ForkedOver(u) => ForkedOver(u)'
    BY <1>1 DEF ForkedOver
  <2> QED BY <1>1, <2>1 DEF Talks, Kept
<1>2. CASE acked' = acked
  <2>1. ASSUME NEW s \in Servers, Readable, Writes(s), ops' = Append(ops, Row(s)) PROVE Keeps(Says(ops', u), acked, u)
    BY <2>1, PutKeeps
  <2> QED BY <1>1, <1>2, <2>1, LogGrows DEF Grows
<1>3. ASSUME NEW s \in Servers, Commit(s) PROVE Keeps(Says(ops', u), acked', u)
  <2>1. Writes(s) /\ Readable /\ ops' = Append(ops, Row(s)) /\ Acknowledge(s)
    BY <1>3 DEF Commit, PutRow
  <2>2. acked' = acked \/ (Now(s).do = "say" /\ acked' = Append(acked, [uri |-> Now(s).uri, msg |-> Now(s).msg]))
    BY <2>1 DEF Acknowledge
  <2> QED BY <2>1, <2>2, PutKeeps
<1> QED BY <1>2, <1>3 DEF Next, vars, Open, Denied, Look, CatchUp, AppendFails, Crash

LEMMA TalksInit == Init => Talks
<1> SUFFICES ASSUME Init PROVE Talks
  OBVIOUS
<1>1. ops = <<>> /\ acked = <<>> /\ Replayed(<<>>, ops).view = <<>>
  BY ReplayedNothing DEF Init, Start
<1>2. Patches
  BY <1>1 DEF Patches, ToSet
<1>3. Kept
  BY <1>1 DEF Kept, Keeps
<1>4. Plans
  BY DEF Init, Plans
<1> QED BY <1>1, <1>2, <1>3, <1>4 DEF Talks, Whole

LEMMA TalksStep == TypeInv /\ Turns /\ Talks /\ AckedLogged /\ [Next]_vars => Talks'
<1> SUFFICES ASSUME TypeInv, Turns, Talks, AckedLogged, [Next]_vars, mode' = "turns"
             PROVE  (Plans /\ Patches /\ Whole /\ Kept)'
  BY DEF Talks
<1>1. mode = "turns"
  BY DEF Next, vars, Open, Denied, Look, CatchUp, Commit, AppendFails, Crash
<1>2. Patches' /\ Whole'
  <2>1. CASE ops' = ops
    BY <1>1, <2>1 DEF Talks, Patches, Whole
  <2>2. ASSUME NEW s \in Servers, Readable, Writes(s), ops' = Append(ops, Row(s)) PROVE Patches' /\ Whole'
    BY <1>1, <2>2, PutWhole
  <2> QED BY <2>1, <2>2, LogGrows DEF Grows
<1> QED BY <1>1, <1>2, PlansStep, KeptStep

\* While the calls take turns a conversation that no fork replaced keeps every message
\* that was acknowledged, once and in that order: a call writes back the list it has read,
\* with its own message behind it (qso_chat_append, _append_summary_message, _ensure_chat_object).
THEOREM SandboxKeepsMessages == Spec => []TurnsKeepMessages
<1>1. Init => AckedLogged
  BY DEF Init, AckedLogged
<1>2. TypeInv /\ AckedLogged /\ [Next]_vars => AckedLogged'
  BY AckedStep
<1>3. Talks => TurnsKeepMessages
  BY DEF Talks, Kept, TurnsKeepMessages
<1> QED BY <1>1, <1>2, <1>3, TalksInit, TalksStep, TypesHold, TurnsHold, PTL DEF Spec
===============================================================================
