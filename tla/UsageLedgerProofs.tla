--------------------------- MODULE UsageLedgerProofs ---------------------------
(***************************************************************************)
(* The usage-evidence protocol implements the ledger of UsageLedger, for   *)
(* every number of facts, processes and faults: a fact becomes true once,  *)
(* it is reported at most once and keeps its number, numbers have no gap,  *)
(* and they follow the order of the saves.                                 *)
(*                                                                         *)
(* The argument.  What mark_ready sees of an order is the version a row    *)
(* was staged with.  So the record, and the copy a lock holder may write   *)
(* back, must agree with the order of the saves: of two facts, the one of  *)
(* the later save is staged only when the earlier one is numbered, given   *)
(* up, or staged with a smaller version (InOrder), and the deferred facts  *)
(* stand in the order of their saves (Describes).                          *)
(***************************************************************************)
EXTENDS UsageEvidenceProofs

(***************************************************************************)
(* The saves, as a sequence of sets of facts.                              *)
(***************************************************************************)
\* Fact j became true in an earlier save of h than fact k.
EarlierIn(h, j, k) == \E a, b \in DOMAIN h : a < b /\ j \in h[a] /\ k \in h[b]

\* No fact became true twice.
OnceIn(h) == \A a, b \in DOMAIN h : a < b => h[a] \cap h[b] = {}

KnownIn(h) == UNION Elems(h)

\* The list q of facts follows the order of the saves.
InSaveOrder(q, h) == \A a, b \in DOMAIN q : a < b => ~EarlierIn(h, q[b], q[a])

\* A row staged by one of the attempts in T.
StagedBy(table, k, T) == table[k].status = "staged" /\ TokenOf(table, k) \in T

\* If T were the committed attempts, h the saves and up the facts given up:
\* a fact is staged only after every fact of an earlier save.
InOrder(table, up, T, h) ==
  /\ OnceIn(h)
  /\ \A k \in Facts : StagedBy(table, k, T) => k \in KnownIn(h)
  /\ \A k \in Facts, j \in Facts \ up :
       StagedBy(table, k, T) /\ EarlierIn(h, j, k) =>
         \/ table[j].status = "ready"
         \/ StagedBy(table, j, T) /\ table[j].version < table[k].version

\* Record m knows these facts and these versions.
Describes(m, table, T, h) ==
  /\ KnownIn(h) \subseteq m.applied
  /\ Elems(m.unstaged) \subseteq KnownIn(h) /\ InSaveOrder(m.unstaged, h)
  /\ \A k \in Facts : StagedBy(table, k, T) => table[k].version <= m.version

(***************************************************************************)
(* The strengthening of the invariant.                                     *)
(***************************************************************************)
\* The committed attempts and the saves, once a process has saved its copy.
Mine(w) == landed \cup (IF Staging(w) THEN items[w] ELSE {})
Saves(w) == IF pc[w] = "save" THEN Append(history, Elems(queue[w])) ELSE history

Holder(w) == lock = w /\ pc[w] \in Working /\ snap[w] # NoMeta

CopiesInOrder ==
  \A w \in Proc : Holder(w) =>
    /\ InOrder(rows, givenUp, Mine(w), Saves(w))
    /\ Describes(snap[w], rows, Mine(w), Saves(w))

RecordInOrder ==
  /\ InOrder(rows, givenUp, landed, history)
  /\ meta # NoMeta => Describes(meta, rows, landed, history)

\* An ordinary request holds facts that are new, and nothing is deferred.
RequestIsNew ==
  \A w \in Proc : lock = w /\ pc[w] \in {"prune", "stage"} =>
    Elems(queue[w]) \cap Committed = {} /\ snap[w].unstaged = << >>

Numbered(table) == {k \in Facts : table[k].status = "ready"}

\* The numbers given so far are 1 to last, one for each numbered row.
NumbersExact ==
  /\ \A k \in Facts : rows[k].status = "ready" <=> rows[k].number # 0
  /\ \A k \in Facts : rows[k].number <= last
  /\ \A j, k \in Numbered(rows) : rows[j].number = rows[k].number => j = k
  /\ last = Cardinality(Numbered(rows))

LInv == IInv /\ CopiesInOrder /\ RecordInOrder /\ RequestIsNew /\ NumbersExact

(***************************************************************************)
(* The numbers mark_ready gives: a rank in the (version, event id) order.  *)
(***************************************************************************)
RankOf(table, F, k) == Cardinality({j \in F : Before(table, j, k)})

LEMMA BeforeFacts ==
  ASSUME NEW table \in [Facts -> Row], NEW i \in Facts, NEW j \in Facts, NEW k \in Facts
  PROVE  /\ ~Before(table, k, k)
         /\ j # k => Before(table, j, k) \/ Before(table, k, j)
         /\ Before(table, i, j) /\ Before(table, j, k) => Before(table, i, k)
<1>1. i \in Nat /\ j \in Nat /\ k \in Nat
  BY FactsAssumption
<1>2. \A x \in Facts : table[x].version \in Nat
  BY DEF Row
<1> QED BY <1>1, <1>2 DEF Before

LEMMA RankFacts ==
  ASSUME NEW table \in [Facts -> Row], NEW F \in SUBSET Facts
  PROVE  /\ \A k \in F : RankOf(table, F, k) \in 0..(Cardinality(F) - 1)
         /\ \A j, k \in F : Before(table, j, k) => RankOf(table, F, j) < RankOf(table, F, k)
         /\ \A j, k \in F : RankOf(table, F, j) = RankOf(table, F, k) => j = k
<1> DEFINE B(k) == {j \in F : Before(table, j, k)}
<1>1. IsFiniteSet(F) /\ Cardinality(F) \in Nat
  BY FactsAssumption, FS_Subset, FS_CardinalityType
<1>2. \A S \in SUBSET F : /\ IsFiniteSet(S) /\ Cardinality(S) \in Nat
                          /\ Cardinality(S) <= Cardinality(F)
                          /\ Cardinality(F) = Cardinality(S) => F = S
  BY <1>1, FS_Subset, FS_CardinalityType
<1>3. \A k \in Facts : B(k) \in SUBSET F /\ k \notin B(k)
  BY BeforeFacts
<1>4. ASSUME NEW k \in F PROVE RankOf(table, F, k) \in 0..(Cardinality(F) - 1)
  <2>1. Cardinality(B(k)) \in Nat /\ Cardinality(B(k)) <= Cardinality(F)
        /\ Cardinality(F) # Cardinality(B(k))
    BY <1>2, <1>3, <1>4
  <2> HIDE DEF B
  <2>2. Cardinality(B(k)) \in 0..(Cardinality(F) - 1)
    BY <1>1, <2>1
  <2> QED BY <2>2 DEF RankOf, B
<1>5. ASSUME NEW j \in F, NEW k \in F, Before(table, j, k)
      PROVE  RankOf(table, F, j) < RankOf(table, F, k)
  <2>1. B(j) \subseteq B(k) /\ j \in B(k) /\ j \notin B(j)
    BY <1>5, BeforeFacts
  <2>2. IsFiniteSet(B(k)) /\ B(j) \in SUBSET B(k) /\ Cardinality(B(j)) \in Nat
        /\ Cardinality(B(k)) \in Nat
    BY <1>2, <1>3, <2>1
  <2>3. Cardinality(B(j)) <= Cardinality(B(k)) /\ Cardinality(B(j)) # Cardinality(B(k))
    BY <2>1, <2>2, FS_Subset
  <2> HIDE DEF B
  <2>4. Cardinality(B(j)) < Cardinality(B(k))
    BY <2>2, <2>3
  <2> QED BY <2>4 DEF RankOf, B
<1>6. \A k \in F : RankOf(table, F, k) \in Nat
  BY <1>2, <1>3 DEF RankOf
<1>7. ASSUME NEW j \in F, NEW k \in F, RankOf(table, F, j) = RankOf(table, F, k) PROVE j = k
  <2>1. ~Before(table, j, k) /\ ~Before(table, k, j)
    BY <1>5, <1>6, <1>7
  <2> QED BY <2>1, BeforeFacts
<1> QED BY <1>4, <1>5, <1>7

\* The table after mark_ready: the flipped rows get the next numbers, in order.
NumberedTo(table, F, n) ==
  \A k \in Facts :
     /\ k \notin F => table[k] = rows[k]
     /\ k \in F => /\ table[k].status = "ready" /\ table[k].token = rows[k].token
                   /\ table[k].number = n + 1 + RankOf(rows, F, k)

LEMMA NumberingFacts ==
  ASSUME rows \in [Facts -> Row], last \in Nat, NEW I
  PROVE  /\ Flipped(rows, I) \in SUBSET Facts
         /\ NumberedTo(MarkReady(rows, I, last), Flipped(rows, I), last)
<1> DEFINE F == Flipped(rows, I)
           N(k) == last + 1 + RankOf(rows, F, k)
<1>1. F \in SUBSET Facts
  BY DEF Flipped, Presented
<1>2. MarkReady(rows, I, last) =
        [k \in Facts |-> IF k \in F THEN [rows[k] EXCEPT !.status = "ready", !.number = N(k)]
                         ELSE rows[k]]
  BY DEF MarkReady, RankOf
<1> HIDE DEF F, N
<1>3. NumberedTo(MarkReady(rows, I, last), F, last)
  <2>1. \A k \in Facts :
          [rows[k] EXCEPT !.status = "ready", !.number = N(k)].token = rows[k].token
    BY DEF Row
  <2>2. \A k \in Facts :
          /\ [rows[k] EXCEPT !.status = "ready", !.number = N(k)].status = "ready"
          /\ [rows[k] EXCEPT !.status = "ready", !.number = N(k)].number = N(k)
    BY DEF Row
  <2> QED BY <1>2, <2>1, <2>2 DEF NumberedTo, N
<1> QED BY <1>1, <1>3 DEF F

(***************************************************************************)
(* A step that changes rows without staging an attempt of T, or releasing  *)
(* one, keeps the order.                                                   *)
(***************************************************************************)
Harmless(old, new, T) ==
  \A k \in Facts :
     /\ StagedBy(new, k, T) => new[k] = old[k]
     /\ old[k].status = "ready" => new[k].status = "ready"
     /\ StagedBy(old, k, T) => new[k] = old[k] \/ new[k].status = "ready"

LEMMA OrderKept ==
  ASSUME NEW old, NEW new, NEW T, NEW h, NEW up, NEW more, up \subseteq more,
         Harmless(old, new, T), InOrder(old, up, T, h)
  PROVE  InOrder(new, more, T, h)
<1>1. \A k \in Facts : StagedBy(new, k, T) => StagedBy(old, k, T) /\ new[k] = old[k]
  BY DEF Harmless, StagedBy, TokenOf
<1>2. \A k \in Facts : StagedBy(new, k, T) => k \in KnownIn(h)
  BY <1>1 DEF InOrder
<1>3. ASSUME NEW k \in Facts, NEW j \in Facts \ more, StagedBy(new, k, T), EarlierIn(h, j, k)
      PROVE  \/ new[j].status = "ready"
             \/ StagedBy(new, j, T) /\ new[j].version < new[k].version
  <2>1. StagedBy(old, k, T) /\ new[k] = old[k] /\ j \in Facts \ up
    BY <1>1, <1>3
  <2>2. CASE old[j].status = "ready"
    BY <2>2 DEF Harmless
  <2>3. CASE StagedBy(old, j, T) /\ old[j].version < old[k].version
    <3>1. new[j] = old[j] \/ new[j].status = "ready"
      BY <2>3 DEF Harmless
    <3> QED BY <2>1, <2>3, <3>1 DEF StagedBy, TokenOf
  <2> QED BY <1>3, <2>1, <2>2, <2>3 DEF InOrder
<1>4. OnceIn(h)
  BY DEF InOrder
<1> QED BY <1>2, <1>3, <1>4 DEF InOrder

\* The fields Describes looks at.
SameFields(m, n) ==
  m.applied = n.applied /\ m.unstaged = n.unstaged /\ m.version = n.version

LEMMA DescriptionKept ==
  ASSUME NEW old, NEW new, NEW T, NEW h, NEW m, NEW n, SameFields(m, n),
         Harmless(old, new, T), Describes(n, old, T, h)
  PROVE  Describes(m, new, T, h)
<1>1. \A k \in Facts : StagedBy(new, k, T) => StagedBy(old, k, T) /\ new[k] = old[k]
  BY DEF Harmless, StagedBy, TokenOf
<1>2. \A k \in Facts : StagedBy(new, k, T) => new[k].version <= m.version
  BY <1>1 DEF Describes, SameFields
<1> QED BY <1>2 DEF Describes, SameFields

(***************************************************************************)
(* One more save.                                                          *)
(***************************************************************************)
LEMMA KnownFacts ==
  ASSUME NEW h \in Seq(SUBSET Facts), NEW D \in SUBSET Facts
  PROVE  /\ KnownIn(Append(h, D)) = KnownIn(h) \cup D
         /\ \A j, k : EarlierIn(Append(h, D), j, k) <=>
                        EarlierIn(h, j, k) \/ (j \in KnownIn(h) /\ k \in D)
         /\ OnceIn(h) /\ D \cap KnownIn(h) = {} => OnceIn(Append(h, D))
         /\ OnceIn(Append(h, D)) => D \cap KnownIn(h) = {}
         /\ \A j, k : EarlierIn(h, j, k) => j \in KnownIn(h) /\ k \in KnownIn(h)
         /\ OnceIn(h) => \A k : ~EarlierIn(h, k, k)
<1> DEFINE s == Append(h, D)
<1>1. /\ s \in Seq(SUBSET Facts) /\ Len(s) = Len(h) + 1
      /\ \A i \in 1..Len(h) : s[i] = h[i]
      /\ s[Len(h) + 1] = D
  BY AppendProperties
<1>2. DOMAIN h = 1..Len(h) /\ DOMAIN s = 1..(Len(h) + 1) /\ Len(h) \in Nat
  BY <1>1, LenProperties
<1> HIDE DEF s
<1>3. KnownIn(s) = KnownIn(h) \cup D
  BY ElemsFacts, Zenon DEF KnownIn, s
<1>4. \A j : j \in KnownIn(h) <=> \E a \in DOMAIN h : j \in h[a]
  BY DEF KnownIn, Elems
<1>5. \A a \in DOMAIN h : a \in DOMAIN s /\ s[a] = h[a] /\ a < Len(h) + 1
  BY <1>1, <1>2
<1>6. Len(h) + 1 \in DOMAIN s /\ s[Len(h) + 1] = D
  BY <1>1, <1>2
<1>7. \A a, b \in DOMAIN s : a < b => a \in DOMAIN h /\ (b \in DOMAIN h \/ b = Len(h) + 1)
  BY <1>2
<1>8. ASSUME NEW j, NEW k
      PROVE  EarlierIn(s, j, k) <=> EarlierIn(h, j, k) \/ (j \in KnownIn(h) /\ k \in D)
  <2>1. EarlierIn(s, j, k) => EarlierIn(h, j, k) \/ (j \in KnownIn(h) /\ k \in D)
    BY <1>4, <1>5, <1>6, <1>7 DEF EarlierIn
  <2>2. EarlierIn(h, j, k) => EarlierIn(s, j, k)
    BY <1>5 DEF EarlierIn
  <2>3. j \in KnownIn(h) /\ k \in D => EarlierIn(s, j, k)
    BY <1>4, <1>5, <1>6 DEF EarlierIn
  <2> QED BY <2>1, <2>2, <2>3
<1>9. OnceIn(h) /\ D \cap KnownIn(h) = {} => OnceIn(s)
  <2> SUFFICES ASSUME OnceIn(h), D \cap KnownIn(h) = {}, NEW a \in DOMAIN s, NEW b \in DOMAIN s, a < b
               PROVE  s[a] \cap s[b] = {}
    BY DEF OnceIn
  <2>1. a \in DOMAIN h /\ s[a] = h[a]
    BY <1>5, <1>7
  <2>2. CASE b \in DOMAIN h
    BY <1>5, <2>1, <2>2 DEF OnceIn
  <2>3. CASE b = Len(h) + 1
    BY <1>4, <1>6, <2>1, <2>3
  <2> QED BY <1>7, <2>2, <2>3
<1>10. OnceIn(s) => D \cap KnownIn(h) = {}
  BY <1>4, <1>5, <1>6 DEF OnceIn
<1>11. \A j, k : EarlierIn(h, j, k) => j \in KnownIn(h) /\ k \in KnownIn(h)
  BY <1>4 DEF EarlierIn
<1>12. OnceIn(h) => \A k : ~EarlierIn(h, k, k)
  BY DEF OnceIn, EarlierIn
<1> QED BY <1>3, <1>8, <1>9, <1>10, <1>11, <1>12 DEF s

LEMMA OrderWithSave ==
  ASSUME NEW table, NEW up, NEW T, NEW h \in Seq(SUBSET Facts), NEW D \in SUBSET Facts,
         D \cap KnownIn(h) = {}, InOrder(table, up, T, h)
  PROVE  InOrder(table, up, T, Append(h, D))
<1>1. OnceIn(Append(h, D))
  BY KnownFacts, Zenon DEF InOrder
<1>2. \A k \in Facts : StagedBy(table, k, T) => k \in KnownIn(h) /\ k \in KnownIn(Append(h, D))
  BY KnownFacts DEF InOrder
<1>3. ASSUME NEW k \in Facts, NEW j \in Facts \ up, StagedBy(table, k, T), EarlierIn(Append(h, D), j, k)
      PROVE  EarlierIn(h, j, k)
  BY <1>2, <1>3, KnownFacts
<1> QED BY <1>1, <1>2, <1>3 DEF InOrder

LEMMA DescriptionOfDeferral ==
  ASSUME NEW table, NEW T, NEW h \in Seq(SUBSET Facts), NEW q \in Seq(Facts), NEW m, NEW n,
         m.unstaged \in Seq(Facts), Elems(q) \cap KnownIn(h) = {}, Describes(m, table, T, h),
         n.applied = m.applied \cup Elems(q), n.unstaged = m.unstaged \o q, n.version = m.version
  PROVE  Describes(n, table, T, Append(h, Elems(q)))
<1> DEFINE D == Elems(q)
           p == m.unstaged
           g == Append(h, D)
<1>1. D \in SUBSET Facts /\ Elems(n.unstaged) = Elems(p) \cup D
  BY ElemsType, ElemsFacts, Zenon
<1>2. KnownIn(g) = KnownIn(h) \cup D
  BY <1>1, KnownFacts, Zenon
<1>3. \A j, k : EarlierIn(g, j, k) => EarlierIn(h, j, k) \/ (j \in KnownIn(h) /\ k \in D)
  BY <1>1, KnownFacts, Zenon
<1>4. \A j, k : EarlierIn(h, j, k) => j \in KnownIn(h) /\ k \in KnownIn(h)
  BY KnownFacts, Zenon
<1>5. /\ Len(n.unstaged) = Len(p) + Len(q) /\ DOMAIN n.unstaged = 1..(Len(p) + Len(q))
      /\ \A i \in 1..(Len(p) + Len(q)) :
           n.unstaged[i] = IF i <= Len(p) THEN p[i] ELSE q[i - Len(p)]
  <2>1. p \o q \in Seq(Facts)
    BY ConcatProperties
  <2> QED BY <2>1, ConcatProperties, LenProperties
<1>6. DOMAIN p = 1..Len(p) /\ DOMAIN q = 1..Len(q) /\ Len(p) \in Nat /\ Len(q) \in Nat
  BY LenProperties
<1>7. /\ \A i \in DOMAIN n.unstaged : \/ i \in DOMAIN p /\ n.unstaged[i] = p[i]
                                      \/ i > Len(p) /\ n.unstaged[i] \in D
      /\ \A i \in DOMAIN p : i <= Len(p) /\ p[i] \in KnownIn(h)
  <2>1. \A i \in 1..(Len(p) + Len(q)) : i <= Len(p) \/ i - Len(p) \in 1..Len(q)
    BY <1>6
  <2>2. \A i \in DOMAIN p : p[i] \in KnownIn(h)
    BY DEF Describes, Elems
  <2> QED BY <1>5, <1>6, <2>1, <2>2 DEF Elems
<1> HIDE DEF D, p, g
<1>8. InSaveOrder(n.unstaged, g)
  <2> SUFFICES ASSUME NEW a \in DOMAIN n.unstaged, NEW b \in DOMAIN n.unstaged, a < b,
                      EarlierIn(g, n.unstaged[b], n.unstaged[a])
               PROVE  FALSE
    BY DEF InSaveOrder
  <2>1. n.unstaged[b] \in KnownIn(h)
    BY <1>3, <1>4
  <2>2. n.unstaged[b] \notin D /\ b \in DOMAIN p /\ n.unstaged[b] = p[b]
    BY <1>7, <2>1 DEF D
  <2>3. a \in DOMAIN p /\ n.unstaged[a] = p[a]
    <3>1. a \in 1..(Len(p) + Len(q)) /\ b \in 1..Len(p)
      BY <1>5, <1>6, <2>2, Zenon
    <3>2. ~(a > Len(p))
      BY <1>6, <3>1
    <3> QED BY <1>7, <3>2
  <2>4. p[a] \notin D
    BY <1>7, <2>3 DEF D
  <2>5. EarlierIn(h, p[b], p[a])
    BY <1>3, <2>2, <2>3, <2>4
  <2> QED BY <2>2, <2>3, <2>5 DEF Describes, InSaveOrder, p
<1>9. /\ KnownIn(g) \subseteq n.applied /\ Elems(n.unstaged) \subseteq KnownIn(g)
      /\ \A k \in Facts : StagedBy(table, k, T) => table[k].version <= n.version
  BY <1>1, <1>2 DEF Describes, D, p
<1> QED BY <1>8, <1>9 DEF Describes, g, D

LEMMA TailFacts ==
  ASSUME NEW q \in Seq(Facts), q # << >>, NEW h
  PROVE  /\ Elems(Tail(q)) \subseteq Elems(q) /\ Head(q) \in Elems(q)
         /\ InSaveOrder(q, h) =>
              /\ InSaveOrder(Tail(q), h)
              /\ \A j \in Elems(q) : j = Head(q) \/ ~EarlierIn(h, j, Head(q))
<1>1. /\ Head(q) \in Facts /\ Tail(q) \in Seq(Facts)
      /\ Len(q) \in Nat /\ Len(q) # 0 /\ DOMAIN q = 1..Len(q)
      /\ Len(Tail(q)) = Len(q) - 1 /\ \A i \in 1..Len(Tail(q)) : Tail(q)[i] = q[i + 1]
      /\ DOMAIN Tail(q) = 1..Len(Tail(q)) /\ Head(q) = q[1]
  BY HeadTailProperties, LenProperties, EmptySeq
<1>2. 1 \in DOMAIN q /\ \A i \in DOMAIN q : i = 1 \/ 1 < i
  BY <1>1
<1>3. \A i \in DOMAIN Tail(q) : i + 1 \in DOMAIN q /\ Tail(q)[i] = q[i + 1]
  BY <1>1
<1>4. \A a, b \in DOMAIN Tail(q) : a < b => a + 1 < b + 1
  BY <1>1
<1>5. Elems(Tail(q)) \subseteq Elems(q) /\ Head(q) \in Elems(q)
  BY <1>1, <1>2, <1>3 DEF Elems
<1>6. InSaveOrder(q, h) => InSaveOrder(Tail(q), h)
  BY <1>3, <1>4 DEF InSaveOrder
<1>7. InSaveOrder(q, h) => \A j \in Elems(q) : j = Head(q) \/ ~EarlierIn(h, j, Head(q))
  BY <1>1, <1>2 DEF InSaveOrder, Elems
<1> QED BY <1>5, <1>6, <1>7

(***************************************************************************)
(* A staging call: the new rows carry fresh tokens and the next version.   *)
(***************************************************************************)
StagedAs(new, old, D, n, v) ==
  \A k \in Facts :
     \/ /\ k \in D /\ old[k].status \in {"none", "discarded"}
        /\ new[k].status = "staged" /\ new[k].token = n /\ new[k].version = v /\ new[k].number = 0
     \/ new[k] = old[k] /\ ~(k \in D /\ old[k].status \in {"none", "discarded"})

LEMMA StagedAsStage ==
  ASSUME NEW table \in [Facts -> Row], NEW D, NEW n \in Nat, NEW v \in Nat
  PROVE  StagedAs(Stage(table, D, n, v), table, D, n, v)
BY DEF Stage, Stageable, StagedAs, Row

FreshAttempt(old, T, mine, n) ==
  /\ \A k \in Facts : old[k].token < n
  /\ \A t \in T : t[2] < n
  /\ \A t \in mine : t[2] = n

\* Every fact of an earlier save is numbered, given up or staged by now.
Stageables(old, up, T, h, D, v) ==
  /\ \A k \in Facts : StagedBy(old, k, T) => old[k].version <= v
  /\ D \subseteq KnownIn(h)
  /\ \A k \in D \cap Facts, j \in Facts \ up :
       EarlierIn(h, j, k) => old[j].status = "ready" \/ StagedBy(old, j, T)

LEMMA OrderOfStaging ==
  ASSUME NEW old \in [Facts -> Row], NEW new, NEW D, NEW n \in Nat, NEW v \in Nat,
         NEW T, NEW mine, NEW up, NEW h,
         StagedAs(new, old, D, n, v + 1), InOrder(old, up, T, h),
         FreshAttempt(old, T, mine, n), Stageables(old, up, T, h, D, v)
  PROVE  /\ InOrder(new, up, T \cup mine, h)
         /\ \A k \in Facts : StagedBy(new, k, T \cup mine) =>
              new[k].version <= (IF mine = {} THEN v ELSE v + 1)
<1> USE DEF FreshAttempt, Stageables
<1>1. \A k \in Facts : old[k].version \in Nat /\ old[k].token \in Nat
  BY DEF Row
<1> DEFINE Fresh(k) == /\ k \in D /\ old[k].status \in {"none", "discarded"} /\ mine # {}
                       /\ new[k].version = v + 1
           Same(k) == new[k] = old[k] /\ StagedBy(old, k, T)
<1>2. ASSUME NEW k \in Facts, StagedBy(new, k, T \cup mine) PROVE Fresh(k) \/ Same(k)
  <2>1. CASE /\ k \in D /\ old[k].status \in {"none", "discarded"}
             /\ new[k].token = n /\ new[k].version = v + 1
    <3>1. TokenOf(new, k)[2] = n
      BY <2>1 DEF TokenOf
    <3>2. mine # {}
      BY <1>2, <3>1 DEF StagedBy
    <3> QED BY <2>1, <3>2
  <2>2. CASE new[k] = old[k]
    <3>1. TokenOf(new, k) = TokenOf(old, k) /\ TokenOf(old, k)[2] < n
      BY <2>2 DEF TokenOf
    <3>2. TokenOf(old, k) \notin mine
      BY <3>1, <1>1
    <3> QED BY <1>2, <2>2, <3>1, <3>2 DEF StagedBy
  <2> QED BY <2>1, <2>2 DEF StagedAs
<1>3. \A j \in Facts : old[j].status \in {"ready", "staged"} => new[j] = old[j]
  BY DEF StagedAs
<1>4. \A j \in Facts : StagedBy(old, j, T) => new[j] = old[j] /\ StagedBy(new, j, T \cup mine)
  BY <1>3 DEF StagedBy, TokenOf
<1>5. \A k \in Facts : StagedBy(new, k, T \cup mine) => k \in KnownIn(h)
  BY <1>2 DEF InOrder
<1>6. ASSUME NEW k \in Facts, NEW j \in Facts \ up, StagedBy(new, k, T \cup mine), EarlierIn(h, j, k)
      PROVE  \/ new[j].status = "ready"
             \/ StagedBy(new, j, T \cup mine) /\ new[j].version < new[k].version
  <2>1. CASE Fresh(k)
    <3>1. old[j].status = "ready" \/ StagedBy(old, j, T)
      BY <1>6, <2>1
    <3>2. StagedBy(old, j, T) => old[j].version < v + 1
      BY <1>1
    <3> QED BY <1>3, <1>4, <2>1, <3>1, <3>2
  <2>2. CASE Same(k)
    <3>1. old[j].status = "ready" \/ (StagedBy(old, j, T) /\ old[j].version < old[k].version)
      BY <1>6, <2>2 DEF InOrder
    <3> QED BY <1>3, <1>4, <2>2, <3>1
  <2> QED BY <1>2, <1>6, <2>1, <2>2
<1>7. \A k \in Facts : StagedBy(new, k, T \cup mine) =>
        new[k].version <= (IF mine = {} THEN v ELSE v + 1)
  <2>1. \A k \in Facts : Same(k) => new[k].version <= v /\ new[k].version \in Nat
    BY <1>1
  <2> QED BY <1>2, <2>1
<1> QED BY <1>5, <1>6, <1>7 DEF InOrder

(***************************************************************************)
(* What one step does to the ledger.                                       *)
(***************************************************************************)
NumbersKept ==
  /\ last' = last
  /\ \A k \in Facts :
       /\ rows'[k].status = "ready" <=> rows[k].status = "ready"
       /\ rows'[k].number = rows[k].number \/ (rows'[k].number = 0 /\ rows[k].status # "ready")

LedgerFrom ==
  \/ NumbersKept /\ UNCHANGED <<history, givenUp>>
  \/ /\ NumbersKept /\ UNCHANGED givenUp
     /\ \E w \in Proc : lock = w /\ pc[w] = "save" /\ history' = Append(history, Elems(queue[w]))
  \/ /\ NumbersKept /\ UNCHANGED history
     /\ \E k \in Facts : givenUp' = givenUp \cup {k}
  \/ /\ UNCHANGED <<history, givenUp>>
     /\ \E I \in SUBSET landed :
          rows' = MarkReady(rows, I, last) /\ last' = LastAfter(rows, I, last)

LEMMA StagingKeepsNumbers ==
  ASSUME TypeOK, NEW D, NEW v \in Nat, rows' = Stage(rows, D, attempts + 1, v), last' = last
  PROVE  NumbersKept
<1>1. rows \in [Facts -> Row] /\ attempts + 1 \in Nat
  BY DEF TypeOK
<1>2. StagedAs(rows', rows, D, attempts + 1, v)
  BY <1>1, StagedAsStage, Zenon
<1> QED BY <1>2 DEF StagedAs, NumbersKept

LEMMA ReleaseKeepsNumbers ==
  ASSUME TypeOK, NEW I, NEW d, rows' = Release(rows, I, d), last' = last PROVE NumbersKept
<1>1. rows \in [Facts -> Row]
  BY DEF TypeOK
<1>2. ASSUME NEW k \in Facts
      PROVE  \/ rows'[k] = rows[k]
             \/ rows[k].status = "staged" /\ rows'[k].status # "ready" /\ rows'[k].number = 0
  BY <1>1 DEF Release, Row, NoRow
<1> QED BY <1>2 DEF NumbersKept

LEMMA LedgerStep == TypeOK /\ HasSnap /\ ProofLanded /\ [Next]_vars => LedgerFrom
<1> SUFFICES ASSUME TypeOK, HasSnap, ProofLanded, [Next]_vars PROVE LedgerFrom
  OBVIOUS
<1>0. UNCHANGED <<rows, last>> => NumbersKept
  BY DEF NumbersKept
<1>1. ASSUME NEW w \in Proc, StageRequest(w) PROVE LedgerFrom
  <2>1. snap[w] \in Meta
    BY <1>1 DEF StageRequest, HasSnap, Working
  <2>2. snap[w].version + 1 \in Nat
    BY <2>1 DEF Meta
  <2>3. \/ UNCHANGED rows
        \/ rows' = Stage(rows, Elems(queue[w]), attempts + 1, snap[w].version + 1)
    BY <1>1, Zenon DEF StageRequest
  <2>4. UNCHANGED <<last, history, givenUp>>
    BY <1>1, Zenon DEF StageRequest, ghost
  <2>5. NumbersKept
    BY <1>0, <2>2, <2>3, <2>4, StagingKeepsNumbers, Zenon
  <2> QED BY <2>4, <2>5, Zenon DEF LedgerFrom
<1>2. ASSUME NEW w \in Proc, StageDeferred(w) \/ StageDeferredFails(w) PROVE LedgerFrom
  <2> DEFINE k == Head(snap[w].unstaged)
  <2>1. snap[w] \in Meta /\ snap[w].unstaged # << >>
    BY <1>2 DEF StageDeferred, StageDeferredFails, HasSnap, Working
  <2>2. snap[w].version + 1 \in Nat /\ k \in Facts
    BY <2>1, MetaFacts DEF Meta
  <2>3. \/ UNCHANGED rows
        \/ rows' = Stage(rows, {k}, attempts + 1, snap[w].version + 1)
    BY <1>2, Zenon DEF StageDeferred, StageDeferredFails
  <2>4. UNCHANGED <<last, history>> /\ (UNCHANGED givenUp \/ givenUp' = givenUp \cup {k})
    BY <1>2, Zenon DEF StageDeferred, StageDeferredFails, ghost
  <2>5. NumbersKept
    BY <1>0, <2>2, <2>3, <2>4, StagingKeepsNumbers, Zenon
  <2> QED BY <2>2, <2>4, <2>5, Zenon DEF LedgerFrom
<1>3. ASSUME NEW w \in Proc, NEW I \in SUBSET landed, UNCHANGED ghost,
             rows' = MarkReady(rows, I, last), last' = LastAfter(rows, I, last)
      PROVE  LedgerFrom
  BY <1>3, Zenon DEF LedgerFrom, ghost
<1>4. ASSUME NEW w \in Proc, CommitRequest(w) \/ FlipDrained(w) PROVE LedgerFrom
  <2>1. items[w] \in SUBSET landed
    BY <1>4 DEF CommitRequest, FlipDrained, ProofLanded
  <2> QED BY <1>3, <1>4, <2>1, Zenon DEF CommitRequest, FlipDrained
<1>5. ASSUME NEW w \in Proc, FlipRow(w) PROVE LedgerFrom
  <2>1. {target[w]} \in SUBSET landed
    BY <1>5 DEF FlipRow, ProofLanded
  <2> QED BY <1>3, <1>5, <2>1, Zenon DEF FlipRow
<1>6. ASSUME NEW w \in Proc, AbortRequest(w) \/ Discard(w) PROVE LedgerFrom
  <2>1. NumbersKept
    BY <1>6, ReleaseKeepsNumbers, Zenon DEF AbortRequest, Discard
  <2> QED BY <1>6, <2>1, Zenon DEF AbortRequest, Discard, ghost, LedgerFrom
<1>7. ASSUME NEW w \in Proc, SaveRequest(w) PROVE LedgerFrom
  BY <1>0, <1>7, Zenon DEF SaveRequest, outbox, LedgerFrom
<1>8. ASSUME UNCHANGED <<rows, last, history, givenUp>> PROVE LedgerFrom
  BY <1>0, <1>8, Zenon DEF LedgerFrom
<1>9. ASSUME NEW w \in Proc,
             \/ LoadRequest(w) \/ PruneProof(w)
             \/ LoadSession(w) \/ KeepAlive(w) \/ Reread(w) \/ CheckCleanup(w) \/ PurgeMeta(w)
      PROVE LedgerFrom
  BY <1>8, <1>9, Zenon DEF LoadRequest, PruneProof, LoadSession, KeepAlive, Reread, CheckCleanup,
                    PurgeMeta, outbox, ghost
<1>10. ASSUME NEW w \in Proc,
              \/ LoadHeld(w) \/ KeepHeld(w) \/ ReadDeferred(w) \/ Reload(w)
              \/ AllDeferredStaged(w) \/ WriteDrained(w)
       PROVE LedgerFrom
  BY <1>8, <1>10, Zenon DEF LoadHeld, KeepHeld, ReadDeferred, Reload, AllDeferredStaged, WriteDrained,
                     outbox, ghost
<1>11. ASSUME NEW w \in Proc, StopStep(w) \/ Begin(w) PROVE LedgerFrom
  BY <1>8, <1>11, Zenon
     DEF StopStep, ListRows, CountRemaining, DeleteMeta, MarkCleanup, SaveMark, Begin,
         BeginRequest, PickStale, LockRow, BeginDrain, BeginStop, Enter, outbox, ghost
<1>12. ASSUME NEW w \in Proc, Exit(w) \/ Fail(w) \/ Crash(w) \/ SessionUnreadable(w) \/ FlipDrainedFails(w)
       PROVE LedgerFrom
  BY <1>8, <1>12, Zenon DEF Exit, Fail, Crash, SessionUnreadable, FlipDrainedFails, outbox, ghost
<1>13. CASE LeaseExpires \/ MetaExpires \/ UNCHANGED vars
  BY <1>8, <1>13, Zenon DEF LeaseExpires, MetaExpires, vars, outbox, ghost
<1> QED BY <1>1, <1>2, <1>4, <1>5, <1>6, <1>7, <1>9, <1>10, <1>11, <1>12, <1>13, Zenon
  DEF Next, Step, Fault, Caught, RequestStep, ResolveStep, DrainStep

(***************************************************************************)
(* Numbers have no gap, and follow the order of the saves.                 *)
(***************************************************************************)
LEMMA NumbersKeptExact ==
  ASSUME TypeOK, NumbersExact, NumbersKept PROVE NumbersExact'
<1>1. Numbered(rows') = Numbered(rows)
  BY DEF NumbersKept, Numbered
<1>2. \A k \in Facts : rows'[k].status = "ready" => rows'[k].number = rows[k].number
  BY DEF NumbersKept
<1>3. \A k \in Facts : rows'[k].status = "ready" <=> rows'[k].number # 0
  BY DEF NumbersKept, NumbersExact
<1>4. \A k \in Facts : rows'[k].number <= last'
  BY DEF NumbersKept, NumbersExact, TypeOK
<1>5. \A j, k \in Numbered(rows') : rows'[j].number = rows'[k].number => j = k
  BY <1>1, <1>2 DEF NumbersExact, Numbered
<1>6. last' = Cardinality(Numbered(rows'))
  BY <1>1 DEF NumbersKept, NumbersExact
<1> QED BY <1>3, <1>4, <1>5, <1>6 DEF NumbersExact

\* What mark_ready numbers are facts of committed attempts that had no number,
\* each with every fact of an earlier save before it.
LEMMA FlippedInOrder ==
  ASSUME TypeOK, CommittedNotDiscarded, RecordInOrder, NEW I \in SUBSET landed
  PROVE  /\ \A k \in Flipped(rows, I) : StagedBy(rows, k, landed) /\ k \in KnownIn(history)
         /\ \A k \in Flipped(rows, I), j \in Facts \ givenUp : EarlierIn(history, j, k) =>
              \/ rows[j].status = "ready"
              \/ j \in Flipped(rows, I) /\ Before(rows, j, k)
<1>1. \A k \in Facts : rows[k].version \in Nat
  BY DEF TypeOK, Row
<1>2. ASSUME NEW k \in Flipped(rows, I) PROVE k \in Facts /\ StagedBy(rows, k, landed)
  BY DEF Flipped, Presented, CommittedNotDiscarded, StagedBy
<1>3. \A k \in Flipped(rows, I) : k \in KnownIn(history)
  BY <1>2 DEF RecordInOrder, InOrder
<1>4. ASSUME NEW k \in Flipped(rows, I), NEW j \in Facts, rows[j].status = "staged",
             rows[j].version < rows[k].version
      PROVE  j \in Flipped(rows, I)
  <2>1. k \in Facts /\ WithinHorizon(rows, I, k)
    BY <1>2 DEF Flipped
  <2>2. j \in Presented(rows, I)
    BY <1>1, <1>4, <2>1 DEF WithinHorizon
  <2>3. WithinHorizon(rows, I, j)
    <3> SUFFICES ASSUME NEW i \in Facts \ Presented(rows, I), rows[i].status = "staged"
                 PROVE  rows[j].version <= rows[i].version
      BY DEF WithinHorizon
    <3>1. rows[k].version <= rows[i].version
      BY <2>1 DEF WithinHorizon
    <3> QED BY <1>1, <1>4, <2>1, <3>1
  <2> QED BY <2>2, <2>3 DEF Flipped
<1>5. ASSUME NEW k \in Flipped(rows, I), NEW j \in Facts \ givenUp, EarlierIn(history, j, k),
             rows[j].status # "ready"
      PROVE  j \in Flipped(rows, I) /\ Before(rows, j, k)
  <2>1. StagedBy(rows, j, landed) /\ rows[j].version < rows[k].version
    BY <1>2, <1>5 DEF RecordInOrder, InOrder
  <2> QED BY <1>4, <2>1 DEF StagedBy, Before
<1> QED BY <1>2, <1>3, <1>5

LEMMA NumbersFlippedExact ==
  ASSUME TypeOK, NumbersExact, CommittedNotDiscarded, RecordInOrder, NEW I \in SUBSET landed,
         rows' = MarkReady(rows, I, last), last' = LastAfter(rows, I, last)
  PROVE  /\ NumbersExact'
         /\ \A k \in Flipped(rows, I) : rows'[k].number \in (last + 1)..(last + Cardinality(Flipped(rows, I)))
         /\ \A j, k \in Flipped(rows, I) : Before(rows, j, k) => rows'[j].number < rows'[k].number
         /\ \A j, k \in Flipped(rows, I) : rows'[j].number = rows'[k].number => j = k
         /\ \A k \in Facts \ Flipped(rows, I) : rows'[k] = rows[k]
<1> DEFINE F == Flipped(rows, I)
           R(k) == RankOf(rows, F, k)
<1>1. rows \in [Facts -> Row] /\ last \in Nat
  BY DEF TypeOK
<1>2. F \in SUBSET Facts /\ NumberedTo(rows', F, last)
  BY <1>1, NumberingFacts, Zenon
<1>3. IsFiniteSet(F) /\ Cardinality(F) \in Nat
  BY <1>2, FactsAssumption, FS_Subset, FS_CardinalityType
<1>4. \A k \in F : rows[k].status = "staged"
  BY FlippedInOrder DEF StagedBy
<1>5. last' = last + Cardinality(F)
  BY DEF LastAfter
<1> HIDE DEF F
<1>6. /\ \A k \in F : R(k) \in 0..(Cardinality(F) - 1)
      /\ \A j, k \in F : Before(rows, j, k) => R(j) < R(k)
      /\ \A j, k \in F : R(j) = R(k) => j = k
  BY <1>1, <1>2, RankFacts, Zenon
<1>7. /\ \A k \in F : rows'[k].status = "ready" /\ rows'[k].number = last + 1 + R(k)
      /\ \A k \in Facts \ F : rows'[k] = rows[k]
  BY <1>2 DEF NumberedTo
<1> HIDE DEF R
<1>8. \A k \in F : rows'[k].number \in (last + 1)..(last + Cardinality(F))
  BY <1>1, <1>3, <1>6, <1>7
<1>9. \A j, k \in F : Before(rows, j, k) => rows'[j].number < rows'[k].number
  BY <1>1, <1>3, <1>6, <1>7
<1>10. \A j, k \in F : rows'[j].number = rows'[k].number => j = k
  BY <1>1, <1>3, <1>6, <1>7
<1>11. Numbered(rows') = Numbered(rows) \cup F /\ Numbered(rows) \cap F = {}
  BY <1>2, <1>4, <1>7 DEF Numbered
<1>12. last' = Cardinality(Numbered(rows'))
  <2>1. IsFiniteSet(Numbered(rows))
    BY FactsAssumption, FS_Subset DEF Numbered
  <2>2. Cardinality(Numbered(rows)) = last
    BY DEF NumbersExact
  <2>3. Cardinality(Numbered(rows) \cup F) =
          Cardinality(Numbered(rows)) + Cardinality(F) - Cardinality(Numbered(rows) \cap F)
    BY <1>3, <2>1, FS_Union, Zenon
  <2>4. Cardinality(Numbered(rows) \cap F) = 0
    BY <1>11, FS_EmptySet
  <2> QED BY <1>1, <1>3, <1>5, <1>11, <2>2, <2>3, <2>4
<1>13. \A k \in Facts : rows'[k].status = "ready" <=> rows'[k].number # 0
  BY <1>1, <1>3, <1>7, <1>8 DEF NumbersExact
<1>14. \A k \in Facts : rows'[k].number <= last'
  <2>1. \A k \in Facts : rows[k].number \in Nat
    BY <1>1 DEF Row
  <2> QED BY <1>1, <1>3, <1>5, <1>7, <1>8, <2>1 DEF NumbersExact
<1>15. \A j, k \in Numbered(rows') : rows'[j].number = rows'[k].number => j = k
  <2>1. \A k \in Numbered(rows) \ F : rows'[k].number = rows[k].number /\ rows'[k].number <= last
    BY <1>7 DEF Numbered, NumbersExact
  <2>2. \A k \in F : ~(rows'[k].number <= last)
    BY <1>1, <1>3, <1>8
  <2> QED BY <1>10, <1>11, <2>1, <2>2 DEF NumbersExact
<1>16. NumbersExact'
  BY <1>12, <1>13, <1>14, <1>15 DEF NumbersExact
<1> QED BY <1>7, <1>8, <1>9, <1>10, <1>16 DEF F

LEMMA NumbersStep ==
  ASSUME TypeOK, NumbersExact, CommittedNotDiscarded, RecordInOrder, LedgerFrom
  PROVE  NumbersExact'
BY NumbersKeptExact, NumbersFlippedExact DEF LedgerFrom

(***************************************************************************)
(* Where a copy in use comes from: the process keeps it, reads the record, *)
(* or computes a new one.                                                  *)
(***************************************************************************)
Keeping(w) ==
  /\ pc[w] \in Working /\ snap[w] # NoMeta /\ SameFields(snap'[w], snap[w])
  /\ Staging(w)' <=> Staging(w)
  /\ Staging(w) => items'[w] = items[w]
  /\ pc'[w] = "save" <=> pc[w] = "save"
  /\ pc[w] = "save" => queue'[w] = queue[w]

Reading(w) ==
  /\ meta # NoMeta /\ SameFields(snap'[w], meta) /\ pc'[w] # "save"
  /\ Staging(w)' => items'[w] = {}
  /\ UNCHANGED <<rows, givenUp>>

RecordingOnly(w) ==
  /\ meta # NoMeta /\ pc'[w] = "save" /\ items'[w] = {} /\ queue'[w] = queue[w]
  /\ Elems(queue[w]) \cap meta.applied = {}
  /\ snap'[w].applied = meta.applied \cup Elems(queue[w])
  /\ snap'[w].unstaged = meta.unstaged \o queue[w] /\ snap'[w].version = meta.version
  /\ UNCHANGED <<rows, givenUp>>

\* The copy of a process that staged the attempts mine, under the next version.
Stamping(w, mine) ==
  /\ \A t \in mine : t[2] = attempts + 1
  /\ snap'[w].version = IF mine = {} THEN snap[w].version ELSE snap[w].version + 1

StagingRequest(w) ==
  /\ pc[w] = "stage" /\ pc'[w] = "save" /\ snap[w] \in Meta /\ queue'[w] = queue[w]
  /\ \E mine \in SUBSET Token : items'[w] = mine /\ Stamping(w, mine)
  /\ snap'[w].applied = snap[w].applied \cup Elems(queue[w])
  /\ snap'[w].unstaged = snap[w].unstaged
  /\ rows' = Stage(rows, Elems(queue[w]), attempts + 1, snap[w].version + 1)
  /\ UNCHANGED givenUp

TakingHead(w) ==
  /\ pc[w] = "stageOne" /\ pc'[w] = "stageOne" /\ snap[w] \in Meta /\ snap[w].unstaged # << >>
  /\ snap'[w].applied = snap[w].applied /\ snap'[w].unstaged = Tail(snap[w].unstaged)
  /\ \E mine \in SUBSET Token :
       /\ items'[w] = items[w] \cup mine /\ Stamping(w, mine)
       /\ \/ mine = {} /\ rows' = rows /\ givenUp \subseteq givenUp'
          \/ /\ rows' = Stage(rows, {Head(snap[w].unstaged)}, attempts + 1, snap[w].version + 1)
             /\ UNCHANGED givenUp

CopiesFrom ==
  \A w \in Proc : pc'[w] \in Working /\ snap'[w] # NoMeta =>
    Keeping(w) \/ Reading(w) \/ RecordingOnly(w) \/ StagingRequest(w) \/ TakingHead(w)

\* A request on its way to stage its facts.
RequestFrom ==
  \A w \in Proc : pc'[w] \in {"prune", "stage"} =>
    /\ queue'[w] = queue[w]
    /\ \/ pc[w] \in {"prune", "stage"} /\ snap'[w].unstaged = snap[w].unstaged
       \/ /\ pc[w] = "load" /\ meta # NoMeta /\ snap'[w] = meta
          /\ Elems(queue[w]) \cap meta.applied = {} /\ meta.unstaged = << >>

LEMMA MoreMetaFields ==
  ASSUME NEW m \in Meta
  PROVE  /\ \A D \in SUBSET Facts :
              Applying(m, D).applied = m.applied \cup D /\ Applying(m, D).version = m.version
         /\ \A q \in Seq(Facts) :
              Deferring(m, q).applied = m.applied /\ Deferring(m, q).version = m.version
         /\ \A T \in SUBSET Token :
              /\ Stamped(m, T).applied = m.applied
              /\ Stamped(m, T).version = IF T = {} THEN m.version ELSE m.version + 1
         /\ SameFields(Pruned(m), m) /\ SameFields([m EXCEPT !.cleanup = TRUE], m)
         /\ WithoutHead(m).applied = m.applied /\ WithoutHead(m).version = m.version
<1>1. \A D \in SUBSET Facts :
        Applying(m, D).applied = m.applied \cup D /\ Applying(m, D).version = m.version
  BY DEF Meta, Applying
<1>2. \A q \in Seq(Facts) :
        Deferring(m, q).applied = m.applied /\ Deferring(m, q).version = m.version
  BY DEF Meta, Deferring
<1>3. \A T \in SUBSET Token :
        /\ Stamped(m, T).applied = m.applied
        /\ Stamped(m, T).version = IF T = {} THEN m.version ELSE m.version + 1
  BY DEF Meta, Stamped
<1>4. SameFields(Pruned(m), m) /\ SameFields([m EXCEPT !.cleanup = TRUE], m)
  BY DEF Meta, Pruned, SameFields
<1>5. WithoutHead(m).applied = m.applied /\ WithoutHead(m).version = m.version
  BY DEF Meta, WithoutHead
<1> QED BY <1>1, <1>2, <1>3, <1>4, <1>5

LEMMA LoadedCopy ==
  ASSUME TypeOK, NoItemsYet, NEW w \in Proc, LoadRequest(w)
  PROVE  /\ pc[w] = "load"
         /\ UNCHANGED <<rows, givenUp, queue, items>>
         /\ \A u \in Proc : u # w => pc'[u] = pc[u] /\ snap'[u] = snap[u]
         /\ \/ pc'[w] = "exit"
            \/ /\ pc'[w] = "prune" /\ meta # NoMeta /\ snap'[w] = meta
               /\ Elems(queue[w]) \cap meta.applied = {} /\ meta.unstaged = << >>
            \/ RecordingOnly(w)
<1> DEFINE D == Elems(queue[w])
           n == Applying(meta, D)
           m == Deferring(n, queue[w])
<1>1. /\ pc[w] = "load" /\ UNCHANGED <<rows, givenUp, queue, items>>
      /\ pc \in [Proc -> PC] /\ snap \in [Proc -> Meta \cup {NoMeta}]
      /\ queue[w] \in Seq(Facts) /\ (meta # NoMeta => meta \in Meta) /\ items[w] = {}
  BY DEF LoadRequest, TypeOK, NoItemsYet, outbox, ghost
<1>2. D \in SUBSET Facts
  BY <1>1, ElemsType, Zenon
<1>3. meta # NoMeta => n \in Meta /\ n.applied = meta.applied \cup D /\ n.unstaged = meta.unstaged
                       /\ n.version = meta.version
  BY <1>1, <1>2, MetaFacts, MetaFields, MoreMetaFields, Zenon
<1> HIDE DEF n
<1>4. meta # NoMeta => m.applied = n.applied /\ m.unstaged = n.unstaged \o queue[w]
                       /\ m.version = n.version
  BY <1>1, <1>3, MetaFields, MoreMetaFields, Zenon
<1> HIDE DEF m
<1>5. /\ \A u \in Proc : u # w => pc'[u] = pc[u] /\ snap'[u] = snap[u]
      /\ \/ pc'[w] = "exit"
         \/ /\ meta # NoMeta /\ D \cap meta.applied = {} /\ meta.unstaged = << >>
            /\ pc'[w] = "prune" /\ snap'[w] = meta
         \/ meta # NoMeta /\ D \cap meta.applied = {} /\ pc'[w] = "save" /\ snap'[w] = m
  <2>1. \/ pc' = [pc EXCEPT ![w] = "exit"] /\ UNCHANGED snap
        \/ /\ meta # NoMeta /\ D \cap meta.applied = {} /\ meta.unstaged = << >>
           /\ pc' = [pc EXCEPT ![w] = "prune"] /\ snap' = [snap EXCEPT ![w] = meta]
        \/ /\ meta # NoMeta /\ D \cap meta.applied = {}
           /\ pc' = [pc EXCEPT ![w] = "save"] /\ snap' = [snap EXCEPT ![w] = m]
    BY Zenon DEF LoadRequest, Load, Goto, m, n
  <2> HIDE DEF D
  <2> QED BY <1>1, <2>1
<1>6. CASE meta # NoMeta /\ D \cap meta.applied = {} /\ pc'[w] = "save" /\ snap'[w] = m
  <2>1. RecordingOnly(w)
    BY <1>1, <1>3, <1>4, <1>6, Zenon DEF RecordingOnly
  <2> QED BY <1>1, <1>5, <2>1, Zenon
<1> QED BY <1>1, <1>5, <1>6, Zenon

LEMMA StagedCopy ==
  ASSUME TypeOK, HasSnap, NEW w \in Proc, StageRequest(w)
  PROVE  /\ UNCHANGED <<queue, givenUp>>
         /\ \A u \in Proc : u # w => pc'[u] = pc[u] /\ snap'[u] = snap[u] /\ items'[u] = items[u]
         /\ pc'[w] = "exit" \/ StagingRequest(w)
<1> DEFINE D == Elems(queue[w])
           mine == {<<k, attempts + 1>> : k \in Stageable(rows, D)}
           n == Applying(snap[w], D)
           m == Stamped(n, mine)
<1>1. /\ pc[w] = "stage" /\ queue[w] \in Seq(Facts) /\ attempts \in Nat /\ UNCHANGED <<queue, givenUp>>
      /\ pc \in [Proc -> PC] /\ snap \in [Proc -> Meta \cup {NoMeta}]
      /\ items \in [Proc -> SUBSET Token]
  BY DEF StageRequest, TypeOK, ghost
<1>2. snap[w] \in Meta /\ attempts + 1 \in Nat
  BY <1>1 DEF HasSnap, Working
<1>3. D \in SUBSET Facts
  BY <1>1, ElemsType, Zenon
<1>4. mine \in SUBSET Token /\ \A t \in mine : t[2] = attempts + 1
  <2> HIDE DEF D
  <2> QED BY <1>2, <1>3 DEF Stageable, Token
<1>5. n \in Meta /\ n.applied = snap[w].applied \cup D /\ n.unstaged = snap[w].unstaged
      /\ n.version = snap[w].version
  BY <1>2, <1>3, MetaFacts, MetaFields, MoreMetaFields, Zenon
<1>6. \/ pc' = [pc EXCEPT ![w] = "exit"] /\ UNCHANGED <<rows, attempts, snap, items>>
      \/ /\ pc' = [pc EXCEPT ![w] = "save"]
         /\ items' = [items EXCEPT ![w] = mine] /\ snap' = [snap EXCEPT ![w] = m]
         /\ rows' = Stage(rows, D, attempts + 1, snap[w].version + 1)
  BY Zenon DEF StageRequest, Goto
<1> HIDE DEF n, mine
<1>7. /\ m.applied = n.applied /\ m.unstaged = n.unstaged
      /\ m.version = IF mine = {} THEN n.version ELSE n.version + 1
  BY <1>4, <1>5, MetaFields, MoreMetaFields, Zenon
<1> HIDE DEF m, D
<1>8. /\ \A u \in Proc : u # w => pc'[u] = pc[u] /\ snap'[u] = snap[u] /\ items'[u] = items[u]
      /\ \/ pc'[w] = "exit"
         \/ /\ pc'[w] = "save" /\ items'[w] = mine /\ snap'[w] = m
            /\ rows' = Stage(rows, D, attempts + 1, snap[w].version + 1)
  BY <1>1, <1>6
<1>9. CASE /\ pc'[w] = "save" /\ items'[w] = mine /\ snap'[w] = m
           /\ rows' = Stage(rows, D, attempts + 1, snap[w].version + 1)
  <2>1. Stamping(w, mine)
    BY <1>4, <1>5, <1>7, <1>9 DEF Stamping
  <2>2. StagingRequest(w)
    BY <1>1, <1>2, <1>4, <1>5, <1>7, <1>9, <2>1, Zenon DEF StagingRequest, D
  <2> QED BY <1>1, <1>8, <2>2, Zenon
<1> QED BY <1>1, <1>8, <1>9, Zenon

LEMMA TakenCopy ==
  ASSUME TypeOK, HasSnap, NEW w \in Proc, StageDeferred(w)
  PROVE  /\ pc[w] = "stageOne"
         /\ \A u \in Proc : u # w => /\ pc'[u] = pc[u] /\ snap'[u] = snap[u] /\ items'[u] = items[u]
                                     /\ queue'[u] = queue[u]
         /\ \/ TakingHead(w)
            \/ /\ pc'[w] \in {"list", "reload", "write"}
               /\ UNCHANGED <<snap, items, queue>>
<1> DEFINE k == Head(snap[w].unstaged)
           mine == {<<k, attempts + 1>> : j \in Stageable(rows, {k})}
           n == WithoutHead(snap[w])
           m(T) == Stamped(n, T)
<1>1. /\ pc[w] = "stageOne" /\ snap[w].unstaged # << >> /\ attempts \in Nat
      /\ pc \in [Proc -> PC] /\ snap \in [Proc -> Meta \cup {NoMeta}]
      /\ items \in [Proc -> SUBSET Token] /\ queue \in [Proc -> Seq(Facts)]
  BY DEF StageDeferred, TypeOK
<1>2. snap[w] \in Meta /\ attempts + 1 \in Nat
  BY <1>1 DEF HasSnap, Working
<1>3. n \in Meta /\ n.applied = snap[w].applied /\ n.unstaged = Tail(snap[w].unstaged)
      /\ n.version = snap[w].version /\ k \in Facts
  BY <1>1, <1>2, MetaFacts, MetaFields, MoreMetaFields, Zenon
<1>4. mine \in SUBSET Token /\ \A t \in mine : t[2] = attempts + 1
  <2> HIDE DEF k
  <2> QED BY <1>2, <1>3 DEF Stageable, Token
<1> HIDE DEF n
<1>5. \A T \in SUBSET Token :
        /\ m(T).applied = n.applied /\ m(T).unstaged = n.unstaged
        /\ m(T).version = IF T = {} THEN n.version ELSE n.version + 1
  BY <1>3, MetaFields, MoreMetaFields, Zenon
<1>6. ASSUME NEW T, TakeHead(w, T)
      PROVE  /\ pc' = [pc EXCEPT ![w] = "stageOne"]
             /\ items' = [items EXCEPT ![w] = items[w] \cup T]
             /\ snap' = [snap EXCEPT ![w] = m(T)]
             /\ queue' = [queue EXCEPT ![w] = Append(queue[w], k)]
  BY <1>6, Zenon DEF TakeHead, Goto, n
<1>7. \/ /\ AfterDrain(w) \/ Goto(w, "write")
         /\ UNCHANGED <<queue, items, snap>>
      \/ TakeHead(w, {}) /\ givenUp' = givenUp \cup {k} /\ UNCHANGED rows
      \/ /\ TakeHead(w, mine) /\ UNCHANGED givenUp
         /\ rows' = Stage(rows, {k}, attempts + 1, snap[w].version + 1)
  BY Zenon DEF StageDeferred, StopStaging
<1> HIDE DEF m, mine
<1>8. ASSUME NEW T \in SUBSET Token, TakeHead(w, T), \A t \in T : t[2] = attempts + 1,
             \/ T = {} /\ rows' = rows /\ givenUp \subseteq givenUp'
             \/ /\ rows' = Stage(rows, {k}, attempts + 1, snap[w].version + 1)
                /\ UNCHANGED givenUp
      PROVE  /\ \A u \in Proc : u # w => /\ pc'[u] = pc[u] /\ snap'[u] = snap[u]
                                         /\ items'[u] = items[u] /\ queue'[u] = queue[u]
             /\ TakingHead(w)
  <2> HIDE DEF k
  <2>1. /\ \A u \in Proc : u # w => /\ pc'[u] = pc[u] /\ snap'[u] = snap[u]
                                    /\ items'[u] = items[u] /\ queue'[u] = queue[u]
        /\ pc'[w] = "stageOne" /\ items'[w] = items[w] \cup T /\ snap'[w] = m(T)
    BY <1>1, <1>6, <1>8
  <2>2. Stamping(w, T)
    BY <1>3, <1>5, <1>8, <2>1 DEF Stamping
  <2>3. TakingHead(w)
    BY <1>1, <1>2, <1>3, <1>5, <1>8, <2>1, <2>2, Zenon DEF TakingHead, k
  <2> QED BY <2>1, <2>3
<1>9. CASE (AfterDrain(w) \/ Goto(w, "write")) /\ UNCHANGED <<queue, items, snap>>
  BY <1>1, <1>9 DEF AfterDrain, Goto
<1>10. CASE TakeHead(w, {}) /\ givenUp' = givenUp \cup {k} /\ UNCHANGED rows
  <2>1. {} \in SUBSET Token /\ givenUp \subseteq givenUp' /\ \A t \in {} : t[2] = attempts + 1
    BY <1>10
  <2> QED BY <1>1, <1>8, <1>10, <2>1, Zenon
<1>11. CASE /\ TakeHead(w, mine) /\ UNCHANGED givenUp
            /\ rows' = Stage(rows, {k}, attempts + 1, snap[w].version + 1)
  BY <1>1, <1>4, <1>8, <1>11, Zenon
<1> QED BY <1>7, <1>9, <1>10, <1>11, Zenon

LEMMA CopiesStep == TypeOK /\ HasSnap /\ NoItemsYet /\ [Next]_vars => CopiesFrom /\ RequestFrom
<1> SUFFICES ASSUME TypeOK, HasSnap, NoItemsYet, [Next]_vars PROVE CopiesFrom /\ RequestFrom
  OBVIOUS
<1> DEFINE Goal == CopiesFrom /\ RequestFrom
<1>0. /\ pc \in [Proc -> PC] /\ snap \in [Proc -> Meta \cup {NoMeta}] /\ meta \in Meta \cup {NoMeta}
      /\ queue \in [Proc -> Seq(Facts)] /\ items \in [Proc -> SUBSET Token]
  BY DEF TypeOK
<1>00. \A w \in Proc :
         (/\ pc'[w] = pc[w] /\ snap'[w] = snap[w]
          /\ Staging(w) => items'[w] = items[w]
          /\ pc[w] \in {"prune", "stage", "save"} => queue'[w] = queue[w])
           => /\ pc'[w] \in Working /\ snap'[w] # NoMeta => Keeping(w)
              /\ pc'[w] \in {"prune", "stage"} =>
                   /\ pc[w] \in {"prune", "stage"} /\ queue'[w] = queue[w]
                   /\ snap'[w].unstaged = snap[w].unstaged
  BY DEF Keeping, SameFields, Staging
<1> DEFINE Idle(w) == \A u \in Proc : u # w =>
             pc'[u] = pc[u] /\ snap'[u] = snap[u] /\ items'[u] = items[u] /\ queue'[u] = queue[u]
           Good(w) ==
             /\ pc'[w] \in Working /\ snap'[w] # NoMeta =>
                  Keeping(w) \/ Reading(w) \/ RecordingOnly(w) \/ StagingRequest(w) \/ TakingHead(w)
             /\ pc'[w] \in {"prune", "stage"} =>
                  /\ queue'[w] = queue[w]
                  /\ \/ pc[w] \in {"prune", "stage"} /\ snap'[w].unstaged = snap[w].unstaged
                     \/ /\ pc[w] = "load" /\ meta # NoMeta /\ snap'[w] = meta
                        /\ Elems(queue[w]) \cap meta.applied = {} /\ meta.unstaged = << >>
<1>A. ASSUME NEW w \in Proc, Idle(w), Good(w) PROVE Goal
  <2>1. \A u \in Proc : u # w => Good(u)
    BY <1>00, <1>A
  <2> QED BY <1>A, <2>1, Zenon DEF CopiesFrom, RequestFrom
<1>B. \A w \in Proc : pc'[w] \notin Working => Good(w)
  BY DEF Working
<1>C. \A w \in Proc :
        (/\ pc[w] \in Working /\ snap'[w] = snap[w] /\ items'[w] = items[w] /\ queue'[w] = queue[w]
         /\ Staging(w)' <=> Staging(w)
         /\ pc[w] # "save" /\ pc'[w] \notin {"save", "prune", "stage"}) => Good(w)
  BY DEF Keeping, SameFields
<1>D. \A w \in Proc :
        (/\ SameFields(snap'[w], meta) \/ snap'[w] = meta
         /\ meta # NoMeta /\ pc'[w] \notin {"save", "prune", "stage"}
         /\ items'[w] = {} \/ ~Staging(w)'
         /\ UNCHANGED <<rows, givenUp>>) => Good(w)
  BY DEF Reading, SameFields
<1>1. ASSUME NEW w \in Proc, LoadRequest(w) PROVE Goal
  <2>1. Idle(w) /\ pc[w] = "load" /\ UNCHANGED <<rows, givenUp, queue>>
    BY <1>1, LoadedCopy
  <2>2. CASE pc'[w] = "exit"
    BY <1>A, <1>B, <2>1, <2>2 DEF Working
  <2>3. CASE /\ pc'[w] = "prune" /\ meta # NoMeta /\ snap'[w] = meta
             /\ Elems(queue[w]) \cap meta.applied = {} /\ meta.unstaged = << >>
    <3>1. Reading(w) /\ queue'[w] = queue[w]
      BY <2>1, <2>3 DEF Reading, SameFields, Staging
    <3> QED BY <1>A, <2>1, <2>3, <3>1
  <2>4. CASE RecordingOnly(w)
    <3>1. Good(w)
      BY <2>4 DEF RecordingOnly
    <3> QED BY <1>A, <2>1, <3>1
  <2> QED BY <1>1, <2>2, <2>3, <2>4, LoadedCopy, Zenon
<1>2. ASSUME NEW w \in Proc, PruneProof(w) PROVE Goal
  <2>1. snap[w] \in Meta
    BY <1>2 DEF PruneProof, HasSnap, Working
  <2>2. SameFields(Pruned(snap[w]), snap[w])
    BY <2>1, MoreMetaFields
  <2>3. /\ pc' = [pc EXCEPT ![w] = "stage"] /\ pc[w] = "prune"
        /\ snap' = [snap EXCEPT ![w] = Pruned(snap[w])]
        /\ UNCHANGED <<queue, items>>
    BY <1>2 DEF PruneProof, Goto
  <2>4. /\ Idle(w) /\ pc'[w] = "stage" /\ SameFields(snap'[w], snap[w])
        /\ queue'[w] = queue[w]
    BY <1>0, <2>2, <2>3
  <2>5. Keeping(w)
    BY <2>1, <2>3, <2>4, NoMetaAssumption DEF Keeping, Working, Staging
  <2> QED BY <1>A, <2>3, <2>4, <2>5 DEF SameFields
<1>3. ASSUME NEW w \in Proc, StageRequest(w) PROVE Goal
  <2>1. Idle(w)
    BY <1>3, StagedCopy
  <2>2. CASE pc'[w] = "exit"
    BY <1>A, <1>B, <2>1, <2>2 DEF Working
  <2>3. CASE StagingRequest(w)
    <3>1. Good(w)
      BY <2>3 DEF StagingRequest
    <3> QED BY <1>A, <2>1, <3>1
  <2> QED BY <1>3, <2>2, <2>3, StagedCopy
<1>4. ASSUME NEW w \in Proc, SaveRequest(w) \/ CommitRequest(w) \/ AbortRequest(w) PROVE Goal
  <2>1. Idle(w) /\ pc'[w] \notin Working
    BY <1>0, <1>4 DEF SaveRequest, CommitRequest, AbortRequest, Goto, Working
  <2> QED BY <1>A, <1>B, <2>1
<1>5. ASSUME NEW w \in Proc, KeepAlive(w) \/ Reread(w) \/ FlipRow(w) \/ Discard(w) PROVE Goal
  <2>1. /\ Idle(w) /\ UNCHANGED <<snap, items, queue>>
        /\ pc[w] \in {"keep", "prove", "reread", "flip", "drop"}
        /\ pc'[w] \in {"reread", "drop", "exit", "mark", "flip", "prove", "clean", "session", "remaining"}
    BY <1>0, <1>5
       DEF KeepAlive, Reread, FlipRow, Discard, FencedSave, Raise, NextRow, RowAfter, Goto
  <2>2. Good(w)
    BY <1>B, <1>C, <2>1 DEF Working, Staging
  <2> QED BY <1>A, <2>1, <2>2
<1>6. ASSUME NEW w \in Proc, CheckCleanup(w) \/ PurgeMeta(w) PROVE Goal
  <2>1. Idle(w) /\ pc'[w] \notin Working
    BY <1>0, <1>6 DEF CheckCleanup, PurgeMeta, NextRow, RowAfter, Raise, Goto, Working
  <2> QED BY <1>A, <1>B, <2>1
<1>7. ASSUME NEW w \in Proc, LoadSession(w) \/ LoadHeld(w) \/ Reload(w) PROVE Goal
  <2>1. /\ Idle(w) /\ snap'[w] = meta /\ UNCHANGED <<rows, givenUp>>
        /\ pc'[w] \in {"keep", "reread", "keepHeld", "deferred", "clean"}
    BY <1>0, <1>7 DEF LoadSession, LoadHeld, Reload, Load, Goto, outbox, ghost
  <2>2. CASE meta # NoMeta
    BY <1>A, <1>D, <2>1, <2>2 DEF Staging
  <2>3. CASE meta = NoMeta
    BY <1>A, <2>1, <2>3
  <2> QED BY <2>2, <2>3
<1>8. ASSUME NEW w \in Proc, ReadDeferred(w) PROVE Goal
  <2>1. /\ Idle(w) /\ snap'[w] = meta /\ UNCHANGED <<rows, givenUp>> /\ items'[w] = {}
        /\ pc'[w] \in {"stageOne", "list", "reload"} /\ (meta = NoMeta => pc'[w] # "stageOne")
    BY <1>0, <1>8 DEF ReadDeferred, AfterDrain, Load, Goto, outbox, ghost, NoItemsYet
  <2>2. CASE pc'[w] = "stageOne"
    BY <1>A, <1>D, <2>1, <2>2
  <2>3. CASE pc'[w] # "stageOne"
    BY <1>A, <1>B, <2>1, <2>3 DEF Working
  <2> QED BY <2>2, <2>3
<1>9. ASSUME NEW w \in Proc, KeepHeld(w) \/ WriteDrained(w) \/ FlipDrained(w) PROVE Goal
  <2>1. Idle(w) /\ pc'[w] \notin Working
    BY <1>0, <1>9 DEF KeepHeld, WriteDrained, FlipDrained, FencedSave, Raise, AfterDrain, Goto, Working
  <2> QED BY <1>A, <1>B, <2>1
<1>10. ASSUME NEW w \in Proc, StageDeferred(w) PROVE Goal
  <2>1. Idle(w) /\ pc[w] = "stageOne"
    BY <1>10, TakenCopy
  <2>2. CASE TakingHead(w)
    <3>1. Good(w)
      BY <2>2 DEF TakingHead
    <3> QED BY <1>A, <2>1, <3>1
  <2>3. CASE pc'[w] \in {"list", "reload", "write"} /\ UNCHANGED <<snap, items, queue>>
    <3>1. Good(w)
      BY <1>B, <1>C, <2>1, <2>3 DEF Working, Staging
    <3> QED BY <1>A, <2>1, <3>1
  <2> QED BY <1>10, <2>2, <2>3, TakenCopy
<1>11. ASSUME NEW w \in Proc, AllDeferredStaged(w) PROVE Goal
  <2>1. /\ Idle(w) /\ UNCHANGED <<snap, items, queue>> /\ pc[w] = "stageOne" /\ pc'[w] = "write"
    BY <1>0, <1>11 DEF AllDeferredStaged, Goto
  <2>2. Good(w)
    BY <1>C, <2>1 DEF Working, Staging
  <2> QED BY <1>A, <2>1, <2>2
<1>12. ASSUME NEW w \in Proc, StageDeferredFails(w) PROVE Goal
  <2>1. /\ Idle(w) /\ UNCHANGED <<snap, items, queue>> /\ pc[w] = "stageOne"
        /\ pc'[w] \in {"list", "reload", "write"}
    BY <1>0, <1>12 DEF StageDeferredFails, StopStaging, AfterDrain, Goto
  <2>2. Good(w)
    BY <1>B, <1>C, <2>1 DEF Working, Staging
  <2> QED BY <1>A, <2>1, <2>2
<1>13. ASSUME NEW w \in Proc, SessionUnreadable(w) \/ FlipDrainedFails(w) PROVE Goal
  <2>1. Idle(w) /\ pc'[w] \notin Working
    BY <1>0, <1>13 DEF SessionUnreadable, FlipDrainedFails, RowAfter, AfterDrain, Goto, Working
  <2> QED BY <1>A, <1>B, <2>1
<1>14. ASSUME NEW w \in Proc, MarkCleanup(w) PROVE Goal
  <2> DEFINE m == [meta EXCEPT !.cleanup = TRUE]
  <2>1. meta # NoMeta => SameFields(m, meta)
    BY <1>0, MoreMetaFields
  <2> HIDE DEF m
  <2>2. /\ UNCHANGED <<queue, items, rows, givenUp>>
        /\ \/ pc' = [pc EXCEPT ![w] = "exit"] /\ snap' = snap
           \/ /\ meta # NoMeta /\ pc' = [pc EXCEPT ![w] = "saveMark"]
              /\ snap' = [snap EXCEPT ![w] = m]
    BY <1>14, Zenon DEF MarkCleanup, Goto, outbox, ghost, m
  <2>3. /\ Idle(w)
        /\ \/ pc'[w] = "exit"
           \/ meta # NoMeta /\ pc'[w] = "saveMark" /\ snap'[w] = m
    BY <1>0, <2>2
  <2>4. Good(w)
    BY <1>B, <1>D, <2>1, <2>2, <2>3 DEF Working, Staging
  <2> QED BY <1>A, <2>3, <2>4
<1>15. ASSUME NEW w \in Proc, ListRows(w) \/ CountRemaining(w) \/ DeleteMeta(w) \/ SaveMark(w) PROVE Goal
  <2>1. Idle(w) /\ pc'[w] \notin Working
    BY <1>0, <1>15
       DEF ListRows, CountRemaining, DeleteMeta, SaveMark, FencedSave, FencedDelete, Raise, Goto, Working
  <2> QED BY <1>A, <1>B, <2>1
<1>16. ASSUME NEW w \in Proc, Begin(w) PROVE Goal
  <2>1. Idle(w) /\ pc'[w] \notin Working
    BY <1>0, <1>16
       DEF Begin, BeginRequest, PickStale, LockRow, BeginDrain, BeginStop, Enter, Goto, Working
  <2> QED BY <1>A, <1>B, <2>1
<1>17. ASSUME NEW w \in Proc, Exit(w) \/ Fail(w) \/ Crash(w) PROVE Goal
  <2>1. Idle(w) /\ pc'[w] \notin Working
    BY <1>0, <1>17 DEF Exit, Fail, Crash, Raise, Forget, Goto, Working
  <2> QED BY <1>A, <1>B, <2>1
<1>18. CASE LeaseExpires \/ MetaExpires \/ UNCHANGED vars
  <2>1. UNCHANGED local
    BY <1>18 DEF LeaseExpires, MetaExpires, vars
  <2>2. \A w \in Proc : Good(w)
    BY <1>00, <2>1 DEF local
  <2> QED BY <2>2, Zenon DEF CopiesFrom, RequestFrom
<1> QED BY <1>1, <1>2, <1>3, <1>4, <1>5, <1>6, <1>7, <1>8, <1>9, <1>10, <1>11, <1>12, <1>13, <1>14,
           <1>15, <1>16, <1>17, <1>18
  DEF Next, Step, Fault, Caught, RequestStep, ResolveStep, DrainStep, StopStep

(***************************************************************************)
(* Every step keeps the record, and the copies of a lock holder, in order. *)
(***************************************************************************)
LEMMA HarmlessStep ==
  ASSUME TypeOK, Frames, KnownTokens, Unlanded
  PROVE  /\ Harmless(rows, rows', landed)
         /\ \A w \in Proc : lock = w => Harmless(rows, rows', Mine(w))
<1>1. attempts \in Nat
  BY DEF TypeOK
<1>2. ASSUME NEW T, \A t \in T : t[2] <= attempts,
             \A k \in Facts : StagedBy(rows, k, T) => rows'[k] = rows[k] \/ rows'[k].status = "ready"
      PROVE  Harmless(rows, rows', T)
  <2>1. \A k \in Facts : rows[k].status = "ready" => rows'[k].status = "ready"
    BY ReadyStays
  <2>2. ASSUME NEW k \in Facts, StagedBy(rows', k, T), rows'[k] # rows[k] PROVE FALSE
    <3>1. rows'[k].token = attempts + 1
      BY <2>2 DEF Frames, RowsFrom, StagedBy
    <3>2. TokenOf(rows', k) \in T /\ TokenOf(rows', k)[2] = attempts + 1
      BY <2>2, <3>1 DEF StagedBy, TokenOf
    <3>3. attempts + 1 <= attempts
      BY <1>2, <3>2
    <3> QED BY <1>1, <3>3
  <2> QED BY <1>2, <2>1, <2>2 DEF Harmless
<1>3. Harmless(rows, rows', landed)
  BY <1>2, ProvedRowStays DEF KnownTokens, StagedBy
<1>4. ASSUME NEW w \in Proc, lock = w PROVE Harmless(rows, rows', Mine(w))
  <2>1. \A t \in Mine(w) : t[2] <= attempts
    BY DEF KnownTokens, Mine
  <2>2. ASSUME NEW k \in Facts, StagedBy(rows, k, Mine(w))
        PROVE  rows'[k] = rows[k] \/ rows'[k].status = "ready"
    <3>1. TokenOf(rows, k) \in landed \/ (Staging(w) /\ TokenOf(rows, k) \in items[w])
      BY <2>2 DEF StagedBy, Mine
    <3> QED BY <1>4, <2>2, <3>1, ProvedRowStays DEF StagedBy
  <2> QED BY <1>2, <2>1, <2>2
<1> QED BY <1>3, <1>4

LEMMA DescribesFewer ==
  ASSUME NEW m, NEW table, NEW T, NEW S \in SUBSET T, NEW h, Describes(m, table, T, h)
  PROVE  Describes(m, table, S, h)
BY DEF Describes, StagedBy

LEMMA RecordStep ==
  ASSUME TypeOK, TypeOK', HasSnap, Frames, KnownTokens, Unlanded, RecordInOrder, CopiesInOrder
  PROVE  RecordInOrder'
<1>1. ASSUME NEW w \in Proc, lock = w, meta' = snap[w], landed' = landed \cup items[w],
             \A k \in Facts : rows'[k] = rows[k], givenUp' = givenUp,
             \/ pc[w] = "save" /\ history' = Append(history, Elems(queue[w]))
             \/ pc[w] = "write" /\ history' = history
      PROVE  RecordInOrder'
  <2>1. rows' = rows
    BY <1>1 DEF TypeOK
  <2>2. Holder(w)
    BY <1>1, NoMetaAssumption DEF Holder, HasSnap, Working
  <2>3. Mine(w) = landed' /\ Saves(w) = history'
    BY <1>1 DEF Mine, Saves, Staging
  <2> QED BY <1>1, <2>1, <2>2, <2>3 DEF CopiesInOrder, RecordInOrder
<1>2. ASSUME UNCHANGED <<landed, history>>, givenUp \subseteq givenUp'
      PROVE  RecordInOrder'
  <2>1. InOrder(rows', givenUp', landed, history)
    BY <1>2, HarmlessStep, OrderKept DEF RecordInOrder
  <2>2. CASE meta' = meta
    <3>1. meta # NoMeta => Describes(meta, rows', landed, history)
      BY HarmlessStep, DescriptionKept DEF RecordInOrder, SameFields
    <3> QED BY <1>2, <2>1, <2>2, <3>1 DEF RecordInOrder
  <2>3. CASE meta' = NoMeta
    BY <1>2, <2>1, <2>3 DEF RecordInOrder
  <2>4. ASSUME NEW w \in Proc, lock = w, rows' = rows, pc[w] \in Working, meta' = snap[w],
               snap[w] \in Meta,
               pc[w] = "save" => history' = Append(history, Elems(queue[w]))
        PROVE  RecordInOrder'
    <3>1. Holder(w)
      BY <2>4, NoMetaAssumption DEF Holder
    <3>2. Describes(snap[w], rows, Mine(w), Saves(w)) /\ landed \in SUBSET Mine(w)
      BY <3>1 DEF CopiesInOrder, Mine
    <3>3. Saves(w) = history
      BY <1>2, <2>4 DEF Saves
    <3>4. Describes(snap[w], rows, landed, history)
      BY <3>2, <3>3, DescribesFewer
    <3> QED BY <1>2, <2>1, <2>4, <3>4 DEF RecordInOrder
  <2> QED BY <2>2, <2>3, <2>4 DEF Frames, MetaFrom
<1> QED BY <1>1, <1>2 DEF Frames, LandedFrom

LEMMA RequestStaging ==
  ASSUME TypeOK, KnownTokens, ProofLanded, KeepsAll, RecordInOrder, CopiesInOrder, RequestIsNew,
         NEW w \in Proc, lock = w, StagingRequest(w), UNCHANGED <<landed, history>>
  PROVE  InOrder(rows', givenUp', Mine(w)', Saves(w)') /\ Describes(snap'[w], rows', Mine(w)', Saves(w)')
<1> DEFINE D == Elems(queue[w])
           v == snap[w].version
           h == Append(history, D)
<1>1. /\ pc[w] = "stage" /\ pc'[w] = "save" /\ snap[w] \in Meta /\ queue'[w] = queue[w]
      /\ snap'[w].applied = snap[w].applied \cup D /\ snap'[w].unstaged = snap[w].unstaged
      /\ rows' = Stage(rows, D, attempts + 1, v + 1) /\ givenUp' = givenUp
  BY DEF StagingRequest
<1>2. PICK mine \in SUBSET Token :
        /\ items'[w] = mine /\ \A t \in mine : t[2] = attempts + 1
        /\ snap'[w].version = IF mine = {} THEN v ELSE v + 1
  BY DEF StagingRequest, Stamping
<1>3. /\ rows \in [Facts -> Row] /\ attempts \in Nat /\ attempts + 1 \in Nat
      /\ v \in Nat /\ v + 1 \in Nat /\ history \in Seq(SUBSET Facts) /\ queue[w] \in Seq(Facts)
  BY <1>1 DEF TypeOK, Meta
<1>4. D \in SUBSET Facts
  BY <1>3, ElemsType, Zenon
<1> HIDE DEF v
<1>5. D \cap KnownIn(history) = {} /\ snap[w].unstaged = << >>
  BY <1>1 DEF RequestIsNew, Committed, KnownIn
<1>6. Mine(w)' = landed \cup mine /\ Saves(w)' = h
  BY <1>1, <1>2 DEF Mine, Saves, Staging
<1>7. Mine(w) = landed /\ Saves(w) = history /\ Holder(w)
  BY <1>1, NoMetaAssumption DEF Mine, Saves, Staging, Holder, Working
<1>8. Describes(snap[w], rows, landed, history)
  BY <1>7 DEF CopiesInOrder
<1> HIDE DEF D
<1>9. /\ KnownIn(h) = KnownIn(history) \cup D
      /\ \A j, k : EarlierIn(h, j, k) => EarlierIn(history, j, k) \/ (j \in KnownIn(history) /\ k \in D)
      /\ \A j, k : EarlierIn(history, j, k) => j \in KnownIn(history) /\ k \in KnownIn(history)
  BY <1>3, <1>4, KnownFacts, Zenon
<1>10. InOrder(rows, givenUp, landed, h)
  BY <1>3, <1>4, <1>5, OrderWithSave, Zenon DEF RecordInOrder
<1>11. StagedAs(rows', rows, D, attempts + 1, v + 1)
  BY <1>1, <1>3, StagedAsStage, Zenon
<1> HIDE DEF h
<1>12. ASSUME NEW k \in D \cap Facts, NEW j \in Facts \ givenUp, EarlierIn(h, j, k)
       PROVE  rows[j].status = "ready" \/ StagedBy(rows, j, landed)
  <2>1. j \in KnownIn(history)
    BY <1>5, <1>9, <1>12
  <2>2. Safe(j, snap[w])
    BY <1>1, <1>7, <2>1 DEF KeepsAll, Committed, KnownIn, Holder
  <2>3. snap[w].tokens \subseteq landed /\ Elems(snap[w].unstaged) = {}
    BY <1>1, <1>5, <1>7, ElemsFacts DEF ProofLanded, Holder, Staging
  <2> QED BY <2>2, <2>3 DEF Safe, StagedBy
<1>13. FreshAttempt(rows, landed, mine, attempts + 1) /\ Stageables(rows, givenUp, landed, h, D, v)
  <2>1. /\ \A k \in Facts : rows[k].token \in Nat
        /\ \A t \in landed : t[2] \in Nat
    BY DEF TypeOK, Row, Token
  <2>2. FreshAttempt(rows, landed, mine, attempts + 1)
    BY <1>2, <1>3, <2>1 DEF KnownTokens, FreshAttempt
  <2>3. Stageables(rows, givenUp, landed, h, D, v)
    BY <1>8, <1>9, <1>12 DEF Stageables, Describes, v
  <2> QED BY <2>2, <2>3
<1>14. /\ InOrder(rows', givenUp, landed \cup mine, h)
       /\ \A k \in Facts : StagedBy(rows', k, landed \cup mine) =>
            rows'[k].version <= snap'[w].version
  <2>1. /\ InOrder(rows', givenUp, landed \cup mine, h)
        /\ \A k \in Facts : StagedBy(rows', k, landed \cup mine) =>
             rows'[k].version <= (IF mine = {} THEN v ELSE v + 1)
    BY <1>3, <1>10, <1>11, <1>13, OrderOfStaging, Zenon
  <2> QED BY <1>2, <2>1
<1>15. /\ KnownIn(h) \subseteq snap'[w].applied /\ Elems(snap'[w].unstaged) = {}
       /\ InSaveOrder(snap'[w].unstaged, h)
  BY <1>1, <1>5, <1>8, <1>9, ElemsFacts DEF Describes, InSaveOrder
<1> QED BY <1>1, <1>6, <1>14, <1>15 DEF Describes

LEMMA HeadStaging ==
  ASSUME TypeOK, Frames, KnownTokens, Unlanded, ProofLanded, KeepsAll, CopiesInOrder,
         NEW w \in Proc, lock = w, TakingHead(w), UNCHANGED <<landed, history>>
  PROVE  InOrder(rows', givenUp', Mine(w)', Saves(w)') /\ Describes(snap'[w], rows', Mine(w)', Saves(w)')
<1> DEFINE q == snap[w].unstaged
           k == Head(q)
           v == snap[w].version
           T == Mine(w)
<1>1. /\ pc[w] = "stageOne" /\ pc'[w] = "stageOne" /\ snap[w] \in Meta /\ q # << >>
      /\ snap'[w].applied = snap[w].applied /\ snap'[w].unstaged = Tail(q)
  BY DEF TakingHead
<1>2. PICK mine \in SUBSET Token :
        /\ items'[w] = items[w] \cup mine /\ \A t \in mine : t[2] = attempts + 1
        /\ snap'[w].version = IF mine = {} THEN v ELSE v + 1
        /\ \/ mine = {} /\ rows' = rows /\ givenUp \subseteq givenUp'
           \/ rows' = Stage(rows, {k}, attempts + 1, v + 1) /\ givenUp' = givenUp
  BY DEF TakingHead, Stamping
<1>3. /\ rows \in [Facts -> Row] /\ attempts \in Nat /\ attempts + 1 \in Nat
      /\ v \in Nat /\ v + 1 \in Nat /\ history \in Seq(SUBSET Facts) /\ q \in Seq(Facts)
  BY <1>1 DEF TypeOK, Meta
<1>4. Holder(w) /\ T = landed \cup items[w] /\ Saves(w) = history
  BY <1>1, NoMetaAssumption DEF Holder, Mine, Saves, Staging, Working
<1>5. Mine(w)' = T \cup mine /\ Saves(w)' = history
  BY <1>1, <1>2, <1>4 DEF Mine, Saves, Staging
<1>6. InOrder(rows, givenUp, T, history) /\ Describes(snap[w], rows, T, history)
  BY <1>4 DEF CopiesInOrder
<1> HIDE DEF T
<1>7. /\ Elems(Tail(q)) \subseteq Elems(q) /\ k \in Elems(q) /\ Elems(q) \subseteq KnownIn(history)
      /\ InSaveOrder(Tail(q), history)
      /\ \A j \in Elems(q) : j = k \/ ~EarlierIn(history, j, k)
  BY <1>1, <1>3, <1>6, TailFacts DEF Describes
<1>8. \A j : ~EarlierIn(history, j, j)
  BY <1>3, <1>6, KnownFacts DEF InOrder
<1>9. k \in Facts
  BY <1>1, <1>3, HeadTailProperties
<1> HIDE DEF k, q
<1>10. ASSUME \A j \in Facts : StagedBy(rows', j, T \cup mine) => rows'[j].version <= snap'[w].version
       PROVE  Describes(snap'[w], rows', T \cup mine, history)
  BY <1>1, <1>6, <1>7, <1>10 DEF Describes
<1>11. CASE mine = {} /\ rows' = rows /\ givenUp \subseteq givenUp'
  <2>1. InOrder(rows', givenUp', T, history)
    BY <1>6, <1>11 DEF InOrder
  <2>2. T \cup mine = T
    BY <1>11
  <2>3. \A j \in Facts : StagedBy(rows', j, T \cup mine) => rows'[j].version <= snap'[w].version
    BY <1>2, <1>6, <1>11, <2>2 DEF Describes
  <2> QED BY <1>5, <1>10, <2>1, <2>2, <2>3
<1>12. CASE rows' = Stage(rows, {k}, attempts + 1, v + 1) /\ givenUp' = givenUp
  <2>1. StagedAs(rows', rows, {k}, attempts + 1, v + 1)
    BY <1>3, <1>12, StagedAsStage, Zenon
  <2>2. ASSUME NEW j \in Facts \ givenUp, EarlierIn(history, j, k)
        PROVE  rows[j].status = "ready" \/ StagedBy(rows, j, T)
    <3>1. j \in KnownIn(history)
      BY <1>3, <2>2, KnownFacts
    <3>2. Safe(j, snap[w])
      BY <1>1, <1>4, <2>2, <3>1 DEF KeepsAll, Committed, KnownIn, Holder
    <3>3. snap[w].tokens \subseteq T /\ j \notin Elems(q)
      BY <1>1, <1>4, <1>7, <1>8, <2>2 DEF ProofLanded, Holder, Staging
    <3> QED BY <3>2, <3>3 DEF Safe, StagedBy, q
  <2>3. FreshAttempt(rows, T, mine, attempts + 1)
    <3>1. /\ \A j \in Facts : rows[j].token \in Nat
          /\ \A t \in T : t[2] \in Nat /\ t[2] <= attempts
      BY <1>4 DEF TypeOK, Row, Token, KnownTokens
    <3> QED BY <1>2, <1>3, <3>1 DEF KnownTokens, FreshAttempt
  <2>4. Stageables(rows, givenUp, T, history, {k}, v)
    BY <1>6, <1>7, <2>2 DEF Stageables, Describes
  <2>5. /\ InOrder(rows', givenUp, T \cup mine, history)
        /\ \A j \in Facts : StagedBy(rows', j, T \cup mine) =>
             rows'[j].version <= (IF mine = {} THEN v ELSE v + 1)
    BY <1>3, <1>6, <2>1, <2>3, <2>4, OrderOfStaging, Zenon
  <2>6. \A j \in Facts : StagedBy(rows', j, T \cup mine) => rows'[j].version <= snap'[w].version
    BY <1>2, <2>5
  <2> QED BY <1>5, <1>10, <1>12, <2>5, <2>6
<1> QED BY <1>2, <1>11, <1>12

LEMMA Recording ==
  ASSUME TypeOK, RecordInOrder, NEW w \in Proc, RecordingOnly(w), UNCHANGED <<landed, history>>
  PROVE  InOrder(rows', givenUp', Mine(w)', Saves(w)') /\ Describes(snap'[w], rows', Mine(w)', Saves(w)')
<1> DEFINE D == Elems(queue[w])
           h == Append(history, D)
<1>1. /\ meta # NoMeta /\ pc'[w] = "save" /\ items'[w] = {} /\ queue'[w] = queue[w]
      /\ D \cap meta.applied = {} /\ snap'[w].applied = meta.applied \cup D
      /\ snap'[w].unstaged = meta.unstaged \o queue[w] /\ snap'[w].version = meta.version
      /\ rows' = rows /\ givenUp' = givenUp
  BY DEF RecordingOnly
<1>2. /\ history \in Seq(SUBSET Facts) /\ queue[w] \in Seq(Facts) /\ meta.unstaged \in Seq(Facts)
  BY <1>1 DEF TypeOK, Meta
<1>3. D \in SUBSET Facts
  BY <1>2, ElemsType, Zenon
<1>4. Describes(meta, rows, landed, history)
  BY <1>1 DEF RecordInOrder
<1>5. D \cap KnownIn(history) = {}
  BY <1>1, <1>4 DEF Describes
<1>6. Mine(w)' = landed /\ Saves(w)' = h
  BY <1>1 DEF Mine, Saves
<1> HIDE DEF D
<1>7. InOrder(rows, givenUp, landed, h)
  BY <1>2, <1>3, <1>5, OrderWithSave, Zenon DEF RecordInOrder
<1>8. Describes(snap'[w], rows, landed, h)
  BY <1>1, <1>2, <1>4, <1>5, DescriptionOfDeferral, Zenon DEF D
<1> QED BY <1>1, <1>6, <1>7, <1>8

LEMMA CopiesInOrderStep ==
  ASSUME TypeOK, Frames, CopiesFrom, KnownTokens, Unlanded, ProofLanded, KeepsAll,
         RecordInOrder, CopiesInOrder, RequestIsNew
  PROVE  CopiesInOrder'
<1> SUFFICES ASSUME NEW w \in Proc, lock' = w, pc'[w] \in Working, snap'[w] # NoMeta
             PROVE  /\ InOrder(rows', givenUp', Mine(w)', Saves(w)')
                    /\ Describes(snap'[w], rows', Mine(w)', Saves(w)')
  BY DEF CopiesInOrder, Holder
<1>1. lock = w
  BY DEF Frames, LockFrom, Working
<1>2. UNCHANGED <<landed, history>> /\ givenUp \subseteq givenUp'
  BY <1>1 DEF Frames, LandedFrom, Working
<1>3. CASE Keeping(w)
  <2>1. Holder(w) /\ SameFields(snap'[w], snap[w])
    BY <1>1, <1>3 DEF Keeping, Holder
  <2>2. Mine(w)' = Mine(w) /\ Saves(w)' = Saves(w)
    BY <1>2, <1>3 DEF Keeping, Mine, Saves
  <2>3. Harmless(rows, rows', Mine(w))
    BY <1>1, HarmlessStep
  <2>4. InOrder(rows', givenUp', Mine(w), Saves(w))
    BY <1>2, <2>1, <2>3, OrderKept DEF CopiesInOrder
  <2>5. Describes(snap'[w], rows', Mine(w), Saves(w))
    BY <2>1, <2>3, DescriptionKept DEF CopiesInOrder
  <2> QED BY <2>2, <2>4, <2>5
<1>4. CASE Reading(w)
  <2>1. Mine(w)' = landed /\ Saves(w)' = history
    BY <1>2, <1>4 DEF Reading, Mine, Saves
  <2>2. InOrder(rows', givenUp', landed, history) /\ Describes(snap'[w], rows', landed, history)
    BY <1>4 DEF Reading, RecordInOrder, Describes, SameFields
  <2> QED BY <2>1, <2>2
<1>5. CASE RecordingOnly(w)
  BY <1>2, <1>5, Recording
<1>6. CASE StagingRequest(w)
  BY <1>1, <1>2, <1>6, RequestStaging
<1>7. CASE TakingHead(w)
  BY <1>1, <1>2, <1>7, HeadStaging
<1> QED BY <1>3, <1>4, <1>5, <1>6, <1>7 DEF CopiesFrom

LEMMA RequestIsNewStep ==
  ASSUME Frames, RequestFrom, RecordInOrder, RequestIsNew PROVE RequestIsNew'
<1> SUFFICES ASSUME NEW w \in Proc, lock' = w, pc'[w] \in {"prune", "stage"}
             PROVE  Elems(queue'[w]) \cap Committed' = {} /\ snap'[w].unstaged = << >>
  BY DEF RequestIsNew
<1>1. lock = w
  BY DEF Frames, LockFrom
<1>2. Committed' = Committed
  BY <1>1 DEF Frames, LandedFrom, Committed
<1>3. CASE pc[w] \in {"prune", "stage"} /\ snap'[w].unstaged = snap[w].unstaged
  BY <1>1, <1>2, <1>3 DEF RequestFrom, RequestIsNew
<1>4. CASE /\ meta # NoMeta /\ snap'[w] = meta
           /\ Elems(queue[w]) \cap meta.applied = {} /\ meta.unstaged = << >>
  <2>1. Committed \subseteq meta.applied
    BY <1>4 DEF RecordInOrder, Describes, KnownIn, Committed
  <2> QED BY <1>2, <1>4, <2>1 DEF RequestFrom
<1> QED BY <1>3, <1>4 DEF RequestFrom

(***************************************************************************)
(* The invariant, and the refinement.                                      *)
(***************************************************************************)
\* The strengthened invariant holds of the empty outbox and the new record.
THEOREM LedgerInvInit == Init => LInv
<1> SUFFICES ASSUME Init PROVE LInv
  OBVIOUS
<1>1. IInv /\ Nobody \notin Proc
  BY InvInit, ConstantsAssumption
<1>2. /\ lock = Nobody /\ landed = {} /\ history = << >> /\ last = 0 /\ meta = NewMeta
      /\ \A k \in Facts : rows[k] = NoRow
  BY DEF Init
<1>3. CopiesInOrder /\ RequestIsNew
  BY <1>1, <1>2 DEF CopiesInOrder, RequestIsNew, Holder
<1>4. KnownIn(<< >>) = {} /\ Elems(<< >>) = {} /\ OnceIn(<< >>)
  BY ElemsFacts DEF KnownIn, OnceIn
<1>5. \A k \in Facts : rows[k].status = "none" /\ rows[k].number = 0
  BY <1>2 DEF NoRow
<1>6. RecordInOrder
  <2>1. InOrder(rows, givenUp, {}, << >>)
    BY <1>4, <1>5 DEF InOrder, StagedBy
  <2>2. Describes(NewMeta, rows, {}, << >>)
    BY <1>4, <1>5 DEF Describes, StagedBy, NewMeta, InSaveOrder
  <2> QED BY <1>2, <2>1, <2>2 DEF RecordInOrder
<1>7. Numbered(rows) = {}
  BY <1>5 DEF Numbered
<1>8. NumbersExact
  BY <1>2, <1>5, <1>7, FS_EmptySet DEF NumbersExact
<1> QED BY <1>1, <1>3, <1>6, <1>8 DEF LInv

\* Every step, and every stuttering step, preserves it.
THEOREM LedgerInvStep == LInv /\ [Next]_vars => LInv'
<1> SUFFICES ASSUME LInv, [Next]_vars PROVE LInv'
  OBVIOUS
<1>1. IInv /\ IInv'
  BY InvStep DEF LInv
<1>2. TypeOK /\ TypeOK' /\ HasSnap /\ Control /\ NoItemsYet
  BY <1>1 DEF IInv, Control
<1>3. Frames /\ CopiesFrom /\ RequestFrom
  BY <1>2, FramesStep, CopiesStep
<1>4. LedgerFrom
  BY <1>1, <1>2, LedgerStep DEF IInv
<1>5. RecordInOrder'
  BY <1>1, <1>2, <1>3, RecordStep DEF LInv, IInv
<1>6. CopiesInOrder'
  BY <1>1, <1>2, <1>3, CopiesInOrderStep DEF LInv, IInv
<1>7. RequestIsNew'
  BY <1>3, RequestIsNewStep DEF LInv
<1>8. NumbersExact'
  BY <1>1, <1>2, <1>4, NumbersStep DEF LInv, IInv
<1> QED BY <1>1, <1>5, <1>6, <1>7, <1>8 DEF LInv

\* The strengthened invariant, with the order of the saves, always holds.
THEOREM LedgerInvariance == Spec => []LInv
BY LedgerInvInit, LedgerInvStep, PTL DEF Spec

\* The ledger's words, in those of the protocol.
LEMMA LedgerWords ==
  ASSUME TypeOK, NumbersExact
  PROVE  /\ \A S : Ledger!Cardinality(S) = Cardinality(S)
         /\ Ledger!Known = KnownIn(history)
         /\ Ledger!Reported = Numbered(rows)
         /\ \A j, k : Ledger!Earlier(j, k) <=> EarlierIn(history, j, k)
<1>1. Ledger!Known = KnownIn(history)
  BY DEF Ledger!Known, KnownIn, Elems
<1>2. Ledger!Reported = Numbered(rows)
  BY DEF Ledger!Reported, Numbered, NumbersExact
<1>3. \A j, k : Ledger!Earlier(j, k) <=> EarlierIn(history, j, k)
  BY DEF Ledger!Earlier, EarlierIn
<1>4. \A S : Ledger!Cardinality(S) = Cardinality(S)
  BY DEF Ledger!Cardinality, Cardinality
<1> QED BY <1>1, <1>2, <1>3, <1>4

LEMMA ReportStep ==
  ASSUME TypeOK, NumbersExact, CommittedNotDiscarded, RecordInOrder, NEW I \in SUBSET landed,
         rows' = MarkReady(rows, I, last), last' = LastAfter(rows, I, last),
         UNCHANGED <<history, givenUp>>
  PROVE  Ledger!Next
<1>1. PICK F \in SUBSET Facts : F = Flipped(rows, I)
  BY DEF Flipped, Presented
<1> DEFINE f == [k \in F |-> rows'[k].number]
           number == [k \in Facts |-> rows[k].number]
<1>2. /\ \A k \in F : StagedBy(rows, k, landed) /\ k \in KnownIn(history)
      /\ \A k \in F, j \in Facts \ givenUp : EarlierIn(history, j, k) =>
           rows[j].status = "ready" \/ (j \in F /\ Before(rows, j, k))
  BY <1>1, FlippedInOrder
<1>3. /\ NumbersExact'
      /\ \A k \in F : rows'[k].number \in (last + 1)..(last + Cardinality(F))
      /\ \A j, k \in F : Before(rows, j, k) => rows'[j].number < rows'[k].number
      /\ \A j, k \in F : rows'[j].number = rows'[k].number => j = k
      /\ \A k \in Facts \ F : rows'[k] = rows[k]
  BY <1>1, NumbersFlippedExact
<1>4. last \in Nat /\ \A k \in Facts : rows[k].number \in Nat
  BY DEF TypeOK, Row
<1>5. Ledger!Cardinality(Ledger!Reported) = last /\ Ledger!Cardinality(F) = Cardinality(F)
  BY LedgerWords DEF NumbersExact
<1>6. F \subseteq Ledger!Known \ Ledger!Reported
  BY <1>1, <1>2, LedgerWords DEF Numbered, StagedBy
<1>7. f \in [F -> (last + 1)..(last + Cardinality(F))] /\ \A j, k \in F : f[j] = f[k] => j = k
  BY <1>3
<1>8. number' = [k \in Facts |-> IF k \in F THEN f[k] ELSE number[k]]
  BY <1>1, <1>3
<1>9. ASSUME NEW j \in Facts \ givenUp, NEW k \in F, Ledger!Earlier(j, k)
      PROVE  number'[j] # 0 /\ number'[j] < number'[k]
  <2>1. EarlierIn(history, j, k) /\ k \in Facts
    BY <1>1, <1>9, LedgerWords
  <2>2. rows'[k].number \in Int /\ last < rows'[k].number
    <3>1. rows'[k].number \in (last + 1)..(last + Cardinality(F))
      BY <1>3
    <3> QED BY <1>4, <3>1
  <2>3. CASE rows[j].status = "ready"
    <3>1. j \notin F
      BY <1>2, <2>3 DEF StagedBy
    <3>2. rows'[j] = rows[j]
      BY <1>3, <3>1
    <3>3. rows[j].number # 0 /\ rows[j].number <= last
      BY <2>3 DEF NumbersExact
    <3> QED BY <1>4, <2>1, <2>2, <3>2, <3>3
  <2>4. CASE j \in F /\ Before(rows, j, k)
    <3>1. rows'[j].number \in (last + 1)..(last + Cardinality(F)) /\ rows'[j].number < rows'[k].number
      BY <1>3, <2>4
    <3>2. rows'[j].number # 0
      BY <1>4, <3>1
    <3> QED BY <2>1, <3>1, <3>2
  <2> QED BY <1>2, <2>1, <2>3, <2>4
<1> HIDE DEF f
<1>10. \E g \in [F -> (last + 1)..(last + Cardinality(F))] :
         /\ \A j, k \in F : g[j] = g[k] => j = k
         /\ number' = [k \in Facts |-> IF k \in F THEN g[k] ELSE number[k]]
  BY <1>7, <1>8
<1>11. Ledger!Report(F)
  BY <1>5, <1>6, <1>9, <1>10 DEF Ledger!Report
<1> QED BY <1>1, <1>11 DEF Ledger!Next

\* The numbers of a step that numbers nothing.
LEMMA NumbersSame ==
  ASSUME NumbersExact, NumbersKept
  PROVE  [k \in Facts |-> rows[k].number]' = [k \in Facts |-> rows[k].number]
<1>1. \A k \in Facts : rows'[k].number = rows[k].number
  BY DEF NumbersExact, NumbersKept
<1> QED BY <1>1

\* The protocol implements the ledger: whatever is lost, repeated, aborted or
\* resumed, a fact becomes true once, it is reported at most once, its number
\* never changes, and numbers follow the order in which facts became true,
\* but for the facts given up in the open.
THEOREM LedgerIsImplemented == Spec => ImplementsLedger
<1>1. Init => Ledger!Init
  <2> SUFFICES ASSUME Init PROVE Ledger!Init
    OBVIOUS
  <2>1. \A k \in Facts : rows[k].number = 0
    BY DEF Init, NoRow
  <2> QED BY <2>1 DEF Init, Ledger!Init
<1>2. LInv /\ LInv' /\ [Next]_vars => [Ledger!Next]_<<history, [k \in Facts |-> rows[k].number], givenUp>>
  <2> SUFFICES ASSUME LInv, LInv', [Next]_vars
               PROVE  \/ Ledger!Next
                      \/ UNCHANGED <<history, [k \in Facts |-> rows[k].number], givenUp>>
    OBVIOUS
  <2>1. /\ TypeOK /\ HasSnap /\ ProofLanded /\ NumbersExact /\ CommittedNotDiscarded /\ RecordInOrder
        /\ CopiesInOrder /\ RecordInOrder'
    BY DEF LInv, IInv
  <2>2. LedgerFrom
    BY <2>1, LedgerStep
  <2>3. CASE NumbersKept /\ UNCHANGED <<history, givenUp>>
    BY <2>1, <2>3, NumbersSame
  <2>4. ASSUME NumbersKept, UNCHANGED givenUp, NEW w \in Proc, lock = w, pc[w] = "save",
               history' = Append(history, Elems(queue[w]))
        PROVE  Ledger!Next
    <3>1. Elems(queue[w]) \in SUBSET Facts /\ history \in Seq(SUBSET Facts)
      BY <2>1, ElemsType DEF TypeOK
    <3>2. Elems(queue[w]) \cap KnownIn(history) = {}
      BY <2>1, <2>4, <3>1, KnownFacts DEF RecordInOrder, InOrder
    <3>3. Ledger!Commit(Elems(queue[w]))
      BY <2>1, <2>4, <3>2, LedgerWords, NumbersSame DEF Ledger!Commit
    <3> QED BY <3>1, <3>3 DEF Ledger!Next
  <2>5. ASSUME NumbersKept, UNCHANGED history, NEW k \in Facts, givenUp' = givenUp \cup {k}
        PROVE  Ledger!Next
    <3>1. Ledger!Waive(k)
      BY <2>1, <2>5, NumbersSame DEF Ledger!Waive
    <3> QED BY <3>1 DEF Ledger!Next
  <2>6. ASSUME UNCHANGED <<history, givenUp>>, NEW I \in SUBSET landed,
               rows' = MarkReady(rows, I, last), last' = LastAfter(rows, I, last)
        PROVE  Ledger!Next
    BY <2>1, <2>6, ReportStep, Zenon
  <2> QED BY <2>2, <2>3, <2>4, <2>5, <2>6 DEF LedgerFrom
<1> QED
  BY <1>1, <1>2, LedgerInvariance, PTL DEF Spec, ImplementsLedger, Ledger!Spec, Ledger!ledgerVars
=============================================================================
