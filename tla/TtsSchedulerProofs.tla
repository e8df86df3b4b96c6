-------------------------- MODULE TtsSchedulerProofs --------------------------
(***************************************************************************)
(* Proofs about TtsScheduler and the selection policy of TtsFairness, for  *)
(* any callers, sessions, batch keys, limits and batch size.               *)
(*                                                                         *)
(* Accounting: whoever releases capacity, for whatever set of requests,    *)
(* returns it for those only that still hold some, so the counters go down *)
(* by what is taken out of the accepted requests, and admission adds one   *)
(* request that was not among them to counters that are below the limits.  *)
(*                                                                         *)
(* Order: the older of two waiting requests has reached every threshold    *)
(* the younger has (Line), so to serve the aged ones first is to serve a   *)
(* queue in order.  A tier's tally keeps picked requests ahead of those    *)
(* left in the same session (Fair), the reserve is the oldest one, hence a *)
(* selection is a first part of every queue (FirstOfQueues); by key it     *)
(* falls into batches that keep this order (GroupedByKey).  While a round  *)
(* is dispatched callers may leave and arrive, but whoever is ahead of a   *)
(* member in its queue is a member too (Rounds), and so first of it.       *)
(*                                                                         *)
(* Time: the reserve heads the first batch once it is urgent, so while     *)
(* rounds are brisk a NORMAL request is urgent in that batch only, or has  *)
(* become so since the last round (Pace).  The dispatcher dies of nothing  *)
(* but a member that left, which takes a second batch in the round.        *)
(*                                                                         *)
(* The recursive definitions (Only, a tier's turns, its visits) are        *)
(* reasoned about through the least number at which a fact would fail.     *)
(***************************************************************************)
EXTENDS TtsScheduler, FiniteSetTheorems, SequenceTheorems, WellFoundedInduction, TLAPS

(***************************************************************************)
(* Sequences, their order, and what Orders makes of them.                  *)
(***************************************************************************)
\* A set of numbers has a least element, which induction along a sequence rests on.
LEMMA Least ==
  ASSUME NEW S, S \subseteq Nat, S # {}
  PROVE  \E n \in S : \A m \in S : n <= m
<1> DEFINE less == {p \in Nat \X Nat : p[1] < p[2]}
<1>1. OpToRel(<, Nat) = less
  BY DEF OpToRel
<1>2. IsWellFoundedOn(less, Nat)
  BY <1>1, NatLessThanWellFounded
<1>3. \A x, y \in Nat : <<y, x>> \in less <=> y < x
  OBVIOUS
<1> HIDE DEF less
<1>4. PICK n \in S : \A m \in S : ~ (<<m, n>> \in less)
  BY <1>2, WFMin
<1>5. ASSUME NEW m \in S PROVE n <= m
  <2>1. m \in Nat /\ n \in Nat
    OBVIOUS
  <2>2. ~ (m < n)
    BY <1>3, <1>4, <2>1
  <2>3. QED
    BY <2>1, <2>2
<1>6. QED
  BY <1>5

\* What holds of the first value and is kept by each step holds of every value.
LEMMA Induct ==
  ASSUME NEW n \in Nat, NEW D, NEW f, f[0] \in D[0],
         \A i \in 1..n : f[i - 1] \in D[i - 1] => f[i] \in D[i]
  PROVE  \A i \in 0..n : f[i] \in D[i]
<1> DEFINE bad == {i \in 0..n : f[i] \notin D[i]}
<1> SUFFICES ASSUME bad # {} PROVE FALSE
  OBVIOUS
<1>1. PICK m \in bad : \A i \in bad : m <= i
  <2>1. bad \subseteq Nat
    OBVIOUS
  <2> HIDE DEF bad
  <2>2. QED
    BY <2>1, Least
<1>2. m \in 1..n
  OBVIOUS
<1>3. m - 1 \notin bad /\ m - 1 \in 0..n
  BY <1>1, <1>2
<1>4. QED
  BY <1>2, <1>3

\* f is base at 0, and each later value is the step of the one before.
Iterated(f, n, base, step) ==
  f = [i \in 0..n |-> IF i = 0 THEN base ELSE step[<<i, f[i - 1]>>]]

\* A function can be defined by iterating a step.
LEMMA Iterates ==
  ASSUME NEW n \in Nat, NEW base, NEW step
  PROVE  \E f : Iterated(f, n, base, step)
<1> USE DEF Iterated
<1> DEFINE Def(f, m) == Iterated(f, m, base, step)
           bad == {m \in Nat : ~ \E f : Def(f, m)}
<1> SUFFICES ASSUME bad # {} PROVE FALSE
  OBVIOUS
<1>1. PICK m \in bad : \A i \in bad : m <= i
  <2>1. bad \subseteq Nat
    OBVIOUS
  <2> HIDE DEF bad
  <2>2. QED
    BY <2>1, Least
<1>2. m \in Nat /\ ~ \E f : Def(f, m)
  OBVIOUS
<1>3. CASE m = 0
  <2>1. Def([i \in 0..0 |-> base], 0)
    OBVIOUS
  <2>2. QED
    BY <1>2, <1>3, <2>1
<1>4. CASE m # 0
  <2>1. m - 1 \in Nat /\ m - 1 \notin bad
    BY <1>1, <1>2, <1>4
  <2>2. PICK g : Def(g, m - 1)
    BY <2>1
  <2> DEFINE f == [i \in 0..m |-> IF i = m THEN step[<<m, g[m - 1]>>] ELSE g[i]]
  <2>3. ASSUME NEW i \in 0..m PROVE f[i] = IF i = 0 THEN base ELSE step[<<i, f[i - 1]>>]
    <3>1. CASE i = m
      <4>1. f[i] = step[<<m, g[m - 1]>>] /\ i # 0 /\ m - 1 \in 0..m /\ m - 1 # m
        BY <1>2, <1>4, <3>1
      <4>2. f[m - 1] = g[m - 1]
        BY <4>1
      <4>3. QED
        BY <4>1, <4>2, <3>1
    <3>2. CASE i # m
      <4>1. i \in 0..(m - 1) /\ f[i] = g[i]
        BY <1>2, <3>2
      <4>2. g[i] = IF i = 0 THEN base ELSE step[<<i, g[i - 1]>>]
        BY <2>2, <4>1
      <4>3. i # 0 => f[i - 1] = g[i - 1]
        BY <1>2, <4>1
      <4>4. QED
        BY <4>1, <4>2, <4>3
    <3>3. QED
      BY <3>1, <3>2
  <2>4. Def(f, m)
    <3> DEFINE h == [i \in 0..m |-> IF i = 0 THEN base ELSE step[<<i, f[i - 1]>>]]
    <3>1. \A i \in 0..m : f[i] = h[i]
      BY <2>3
    <3>2. f = h
      BY <3>1
    <3>3. QED
      BY <3>2
  <2>5. QED
    BY <1>2, <2>4
<1>5. QED
  BY <1>3, <1>4

\* No element comes twice.
NoDup(q) == \A i, j \in 1..Len(q) : q[i] = q[j] => i = j

\* c is somewhere before d in q.
Before(q, c, d) == \E i, j \in 1..Len(q) : i < j /\ q[i] = c /\ q[j] = d

LEMMA Elements ==
  ASSUME NEW T, NEW q \in Seq(T)
  PROVE  ToSet(q) = {q[i] : i \in 1..Len(q)} /\ ToSet(q) \subseteq T
  BY DEF ToSet

LEMMA NoCycle ==
  ASSUME NEW q, NoDup(q), Len(q) \in Nat, NEW c, NEW d, Before(q, c, d)
  PROVE  ~ Before(q, d, c) /\ c # d
  BY DEF NoDup, Before

\* What Only has kept of the first i elements.
KeptOf(q, S, i, k) ==
  /\ Len(k) <= i /\ ToSet(k) = {q[m] : m \in 1..i} \cap S
  /\ NoDup(q) => NoDup(k)
  /\ \A a, b \in 1..Len(k) : a < b =>
       \E m, n \in 1..i : m < n /\ q[m] = k[a] /\ q[n] = k[b]

LEMMA KeptStart ==
  ASSUME NEW q, NEW S
  PROVE  KeptOf(q, S, 0, << >>)
<1>1. Len(<< >>) = 0 /\ 1..0 = {} /\ ToSet(<< >>) = {}
  BY DEF ToSet
<1>2. QED
  BY <1>1 DEF KeptOf, NoDup

LEMMA KeptStep ==
  ASSUME NEW T, NEW q \in Seq(T), NEW S, NEW i \in 1..Len(q),
         NEW k \in Seq(T), KeptOf(q, S, i - 1, k)
  PROVE  LET l == IF q[i] \in S THEN Append(k, q[i]) ELSE k
         IN  l \in Seq(T) /\ KeptOf(q, S, i, l)
<1>1. i \in Nat /\ i - 1 \in Nat /\ q[i] \in T /\ Len(q) \in Nat /\ Len(k) \in Nat
  OBVIOUS
<1>2. {q[m] : m \in 1..i} = {q[m] : m \in 1..(i - 1)} \cup {q[i]}
  <2>1. 1..i = 1..(i - 1) \cup {i}
    BY <1>1
  <2>2. QED
    BY <2>1
<1>3. \A m \in 1..(i - 1) : m \in 1..i /\ m \in 1..Len(q) /\ m # i /\ m < i
  BY <1>1
<1>4. CASE q[i] \notin S
  <2>1. {q[m] : m \in 1..i} \cap S = {q[m] : m \in 1..(i - 1)} \cap S
    BY <1>2, <1>4
  <2>2. Len(k) <= i
    BY <1>1 DEF KeptOf
  <2>3. \A a, b \in 1..Len(k) : a < b =>
          \E m, n \in 1..i : m < n /\ q[m] = k[a] /\ q[n] = k[b]
    BY <1>3 DEF KeptOf
  <2>4. KeptOf(q, S, i, k)
    BY <2>1, <2>2, <2>3 DEF KeptOf
  <2>5. QED
    BY <1>4, <2>4
<1>5. CASE q[i] \in S
  <2> DEFINE l == Append(k, q[i])
  <2>1. /\ l \in Seq(T) /\ Len(l) = Len(k) + 1 /\ l[Len(k) + 1] = q[i]
        /\ \A a \in 1..Len(k) : l[a] = k[a]
    BY <1>1
  <2>2. 1..Len(l) = 1..Len(k) \cup {Len(k) + 1}
    BY <1>1, <2>1
  <2> HIDE DEF l
  <2>3. ToSet(k) = {k[a] : a \in 1..Len(k)} /\ ToSet(l) = {l[a] : a \in 1..Len(l)}
    BY <2>1, Elements
  <2>4. ToSet(l) = ToSet(k) \cup {q[i]}
    BY <2>1, <2>2, <2>3
  <2>5. ToSet(l) = {q[m] : m \in 1..i} \cap S
    BY <1>2, <1>5, <2>4 DEF KeptOf
  <2>6. Len(l) <= i
    BY <1>1, <2>1 DEF KeptOf
  <2>7. ASSUME NoDup(q) PROVE NoDup(l)
    <3>1. NoDup(k)
      BY <2>7 DEF KeptOf
    <3>2. q[i] \notin ToSet(k)
      <4>1. \A m \in 1..(i - 1) : q[m] # q[i]
        BY <1>3, <2>7 DEF NoDup
      <4>2. QED
        BY <4>1 DEF KeptOf
    <3>3. \A a \in 1..Len(k) : l[a] # q[i]
      BY <2>1, <2>3, <3>2
    <3>4. ASSUME NEW a \in 1..Len(l), NEW b \in 1..Len(l), l[a] = l[b] PROVE a = b
      <4>1. CASE a \in 1..Len(k) /\ b \in 1..Len(k)
        BY <2>1, <3>1, <3>4, <4>1 DEF NoDup
      <4>2. CASE a = Len(k) + 1 \/ b = Len(k) + 1
        BY <2>1, <2>2, <3>3, <3>4, <4>2
      <4>3. QED
        BY <2>2, <4>1, <4>2
    <3>5. QED
      BY <3>4 DEF NoDup
  <2>8. ASSUME NEW a \in 1..Len(l), NEW b \in 1..Len(l), a < b
        PROVE  \E m, n \in 1..i : m < n /\ q[m] = l[a] /\ q[n] = l[b]
    <3>1. a \in 1..Len(k) /\ l[a] = k[a]
      BY <1>1, <2>1, <2>8
    <3>2. CASE b \in 1..Len(k)
      <4>1. l[b] = k[b]
        BY <2>1, <3>2
      <4>2. PICK m \in 1..(i - 1), n \in 1..(i - 1) : m < n /\ q[m] = k[a] /\ q[n] = k[b]
        BY <2>8, <3>1, <3>2 DEF KeptOf
      <4>3. QED
        BY <1>3, <3>1, <4>1, <4>2
    <3>3. CASE b = Len(k) + 1
      <4>1. k[a] \in {q[m] : m \in 1..(i - 1)}
        BY <2>3, <3>1 DEF KeptOf
      <4>2. PICK m \in 1..(i - 1) : q[m] = k[a]
        BY <4>1
      <4>3. l[b] = q[i] /\ i \in 1..i
        BY <1>1, <2>1, <3>3
      <4>4. QED
        BY <1>3, <3>1, <4>2, <4>3
    <3>4. QED
      BY <2>2, <3>2, <3>3
  <2>9. KeptOf(q, S, i, l)
    BY <2>5, <2>6, <2>7, <2>8 DEF KeptOf
  <2>10. QED
    BY <1>5, <2>1, <2>9 DEF l
<1>6. QED
  BY <1>4, <1>5

\* The elements of q in S, each once if q has no duplicates, in the order of q.
LEMMA OnlyKeeps ==
  ASSUME NEW T, NEW q \in Seq(T), NEW S
  PROVE  /\ Only(q, S) \in Seq(T) /\ Len(Only(q, S)) \in Nat /\ Len(Only(q, S)) <= Len(q)
         /\ ToSet(Only(q, S)) = ToSet(q) \cap S
         /\ NoDup(q) => NoDup(Only(q, S))
         /\ NoDup(q) => \A c, d :
              Before(Only(q, S), c, d) <=> Before(q, c, d) /\ c \in S /\ d \in S
<1> DEFINE n == Len(q)
           D == [i \in 0..n |-> {k \in Seq(T) : KeptOf(q, S, i, k)}]
           body(i, k) == IF q[i] \in S THEN Append(k, q[i]) ELSE k
           step == [p \in (1..n) \X Seq(T) |-> body(p[1], p[2])]
           Def(f) == f = [i \in 0..n |->
                            IF i = 0 THEN << >> ELSE
                            IF q[i] \in S THEN Append(f[i - 1], q[i]) ELSE f[i - 1]]
           kept == CHOOSE f : Def(f)
<1>1. Only(q, S) = kept[n]
  BY DEF Only
<1>2. n \in Nat
  OBVIOUS
<1>3. << >> \in D[0]
  BY <1>2, KeptStart, EmptySeq
<1>4. ASSUME NEW i \in 1..n, NEW k \in D[i - 1] PROVE body(i, k) \in D[i]
  <2>1. i - 1 \in 0..n /\ i \in 0..n
    BY <1>2
  <2>2. k \in Seq(T) /\ KeptOf(q, S, i - 1, k)
    BY <2>1
  <2>3. body(i, k) \in Seq(T) /\ KeptOf(q, S, i, body(i, k))
    BY <2>2, KeptStep
  <2>4. QED
    BY <2>1, <2>3
<1>5. \A i \in 0..n : D[i] \subseteq Seq(T)
  OBVIOUS
<1>6. \E f : Def(f)
  <2>1. PICK f : Iterated(f, n, << >>, step)
    <3> HIDE DEF step, n
    <3>1. QED
      BY <1>2, Iterates
  <2>2. f[0] = << >>
    BY <1>2, <2>1 DEF Iterated
  <2>3. ASSUME NEW i \in 1..n, f[i - 1] \in Seq(T) PROVE f[i] = body(i, f[i - 1])
    <3>1. i \in 0..n /\ i # 0
      BY <1>2
    <3>2. f[i] = step[<<i, f[i - 1]>>]
      <4> HIDE DEF step
      <4>1. QED
        BY <2>1, <3>1 DEF Iterated
    <3>3. <<i, f[i - 1]>> \in (1..n) \X Seq(T)
      BY <2>3
    <3>4. QED
      BY <3>2, <3>3
  <2>4. \A i \in 0..n : f[i] \in D[i]
    <3>1. ASSUME NEW i \in 1..n, f[i - 1] \in D[i - 1] PROVE f[i] \in D[i]
      <4>1. f[i - 1] \in Seq(T)
        BY <1>2, <1>5, <3>1
      <4> HIDE DEF body, D
      <4>2. QED
        BY <1>4, <2>3, <3>1, <4>1
    <3> HIDE DEF body, D
    <3>2. QED
      BY <1>2, <1>3, <2>2, <3>1, Induct
  <2>5. ASSUME NEW i \in 0..n
        PROVE  f[i] = IF i = 0 THEN << >> ELSE
                      IF q[i] \in S THEN Append(f[i - 1], q[i]) ELSE f[i - 1]
    <3>1. CASE i # 0
      <4>1. i \in 1..n /\ i - 1 \in 0..n
        BY <1>2, <3>1
      <4>2. f[i - 1] \in Seq(T)
        BY <1>5, <2>4, <4>1
      <4>3. f[i] = body(i, f[i - 1])
        BY <2>3, <4>1, <4>2
      <4>4. QED
        BY <3>1, <4>3
    <3>2. QED
      BY <2>2, <3>1
  <2>6. Def(f)
    <3> DEFINE g == [i \in 0..n |-> IF i = 0 THEN << >> ELSE
                      IF q[i] \in S THEN Append(f[i - 1], q[i]) ELSE f[i - 1]]
    <3>1. f = [i \in 0..n |-> f[i]]
      BY <2>1 DEF Iterated
    <3>2. \A i \in 0..n : f[i] = g[i]
      BY <2>5
    <3>3. f = g
      BY <3>1, <3>2
    <3>4. QED
      BY <3>3
  <2>7. QED
    BY <2>6
<1>7. Def(kept)
  <2> HIDE DEF Def
  <2>1. QED
    BY <1>6
<1>8. kept[n] \in D[n]
  <2>1. kept[0] = << >>
    <3>1. 0 \in 0..n
      BY <1>2
    <3> HIDE DEF kept
    <3>2. QED
      BY <1>7, <3>1
  <2>2. ASSUME NEW i \in 1..n PROVE kept[i] = body(i, kept[i - 1])
    <3>1. i \in 0..n /\ i # 0
      BY <1>2
    <3> HIDE DEF kept
    <3>2. QED
      BY <1>7, <3>1
  <2> HIDE DEF kept, body, D
  <2>3. \A i \in 1..n : kept[i - 1] \in D[i - 1] => kept[i] \in D[i]
    BY <1>4, <2>2
  <2>4. kept[0] \in D[0]
    BY <1>3, <2>1
  <2>5. \A i \in 0..n : kept[i] \in D[i]
    BY <1>2, <2>3, <2>4, Induct
  <2>6. QED
    BY <1>2, <2>5
<1>9. Only(q, S) \in Seq(T) /\ KeptOf(q, S, n, Only(q, S))
  <2> HIDE DEF kept
  <2>1. QED
    BY <1>1, <1>2, <1>8
<1>10. QED
  <2> DEFINE o == Only(q, S)
  <2>1. Len(o) \in Nat /\ Len(o) <= Len(q)
    BY <1>9 DEF KeptOf
  <2>2. ToSet(o) = ToSet(q) \cap S
    BY <1>9, Elements DEF KeptOf
  <2>3. NoDup(q) => NoDup(o)
    BY <1>9 DEF KeptOf
  <2>4. ASSUME NEW c, NEW d, Before(o, c, d) PROVE Before(q, c, d) /\ c \in S /\ d \in S
    <3>1. PICK a \in 1..Len(o), b \in 1..Len(o) : a < b /\ o[a] = c /\ o[b] = d
      BY <2>4 DEF Before
    <3>2. Before(q, c, d)
      BY <1>9, <3>1 DEF KeptOf, Before
    <3>3. c \in ToSet(o) /\ d \in ToSet(o)
      BY <1>9, <3>1, Elements
    <3>4. QED
      BY <2>2, <3>2, <3>3
  <2>5. ASSUME NoDup(q), NEW c \in S, NEW d \in S, Before(q, c, d) PROVE Before(o, c, d)
    <3>1. c \in ToSet(o) /\ d \in ToSet(o)
      BY <2>2, <2>5, Elements DEF Before
    <3>2. PICK a \in 1..Len(o), b \in 1..Len(o) : o[a] = c /\ o[b] = d
      BY <1>9, <3>1, Elements
    <3>3. c # d /\ ~ Before(q, d, c)
      BY <2>5, NoCycle
    <3>4. ~ (b < a)
      BY <2>4, <3>2, <3>3 DEF Before
    <3>5. a < b
      BY <2>1, <3>2, <3>3, <3>4
    <3>6. QED
      BY <3>2, <3>5 DEF Before
  <2>6. QED
    BY <1>9, <2>1, <2>2, <2>3, <2>4, <2>5

\* Without keeps the others, in their order.
LEMMA WithoutKeeps ==
  ASSUME NEW T, NEW q \in Seq(T), NEW S
  PROVE  /\ Without(q, S) \in Seq(T) /\ Len(Without(q, S)) \in Nat
         /\ Len(Without(q, S)) <= Len(q)
         /\ ToSet(Without(q, S)) = ToSet(q) \ S
         /\ NoDup(q) => NoDup(Without(q, S))
         /\ NoDup(q) => \A c, d :
              Before(Without(q, S), c, d) <=> Before(q, c, d) /\ c \notin S /\ d \notin S
<1> DEFINE R == {q[i] : i \in DOMAIN q} \ S
<1>1. Without(q, S) = Only(q, R)
  BY DEF Without
<1>2. R = ToSet(q) \ S
  BY DEF ToSet
<1>3. \A c, d : Before(q, c, d) => c \in ToSet(q) /\ d \in ToSet(q)
  BY Elements DEF Before
<1> HIDE DEF R
<1>4. /\ Only(q, R) \in Seq(T) /\ Len(Only(q, R)) \in Nat /\ Len(Only(q, R)) <= Len(q)
      /\ ToSet(Only(q, R)) = ToSet(q) \cap R
      /\ NoDup(q) => NoDup(Only(q, R))
      /\ NoDup(q) => \A c, d :
              Before(Only(q, R), c, d) <=> Before(q, c, d) /\ c \in R /\ d \in R
  BY OnlyKeeps
<1>5. QED
  BY <1>1, <1>2, <1>3, <1>4

\* R puts the elements of S one after the other.
TotalOrder(R, S) ==
  \A x, y, z \in S :
    /\ <<x, x>> \notin R
    /\ <<x, y>> \in R /\ <<y, z>> \in R => <<x, z>> \in R
    /\ x # y => <<x, y>> \in R \/ <<y, x>> \in R

\* Each element is listed once: no two have as many before them.
LEMMA InOrderLists ==
  ASSUME NEW S, IsFiniteSet(S), NEW R, TotalOrder(R, S)
  PROVE  /\ InOrder(S, R) \in Seq(S) /\ Len(InOrder(S, R)) = Cardinality(S)
         /\ NoDup(InOrder(S, R)) /\ ToSet(InOrder(S, R)) = S
<1> DEFINE pred(x) == {y \in S : <<y, x>> \in R}
           n == Cardinality(S)
           rank == [x \in S |-> Cardinality(pred(x))]
           list == InOrder(S, R)
<1>1. n \in Nat
  BY FS_CardinalityType
<1>2. ASSUME NEW x \in S
      PROVE  IsFiniteSet(pred(x)) /\ rank[x] \in Nat /\ rank[x] < n
  <2>1. pred(x) \in SUBSET S /\ x \notin pred(x)
    BY DEF TotalOrder
  <2> HIDE DEF pred
  <2>2. IsFiniteSet(pred(x)) /\ Cardinality(pred(x)) <= n
        /\ (n = Cardinality(pred(x)) => S = pred(x))
    BY <2>1, FS_Subset
  <2>3. Cardinality(pred(x)) \in Nat
    BY <2>2, FS_CardinalityType
  <2>4. Cardinality(pred(x)) # n
    BY <2>1, <2>2
  <2>5. QED
    BY <1>1, <2>2, <2>3, <2>4
<1>3. ASSUME NEW x \in S, NEW y \in S, <<x, y>> \in R
      PROVE  rank[x] < rank[y]
  <2>1. pred(x) \in SUBSET pred(y) /\ x \in pred(y) /\ x \notin pred(x)
    BY <1>3 DEF TotalOrder
  <2>2. IsFiniteSet(pred(y)) /\ rank[x] \in Nat /\ rank[y] \in Nat
    BY <1>2
  <2> HIDE DEF pred
  <2>3. Cardinality(pred(x)) <= Cardinality(pred(y))
        /\ (Cardinality(pred(y)) = Cardinality(pred(x)) => pred(y) = pred(x))
    BY <2>1, <2>2, FS_Subset
  <2>4. Cardinality(pred(x)) # Cardinality(pred(y))
    BY <2>1, <2>3
  <2>5. QED
    BY <2>2, <2>3, <2>4
<1>4. ASSUME NEW x \in S, NEW y \in S, rank[x] = rank[y] PROVE x = y
  <2>1. rank[x] \in Nat /\ rank[y] \in Nat
    BY <1>2
  <2>2. ~ (<<x, y>> \in R) /\ ~ (<<y, x>> \in R)
    <3> HIDE DEF rank
    <3>1. QED
      BY <1>3, <1>4, <2>1
  <2>3. QED
    BY <2>2 DEF TotalOrder
<1>5. rank \in Injection(S, 0..(n - 1))
  <2>1. rank \in [S -> 0..(n - 1)]
    <3>1. \A x \in S : rank[x] \in 0..(n - 1)
      <4> HIDE DEF rank, pred, n
      <4>1. ASSUME NEW x \in S PROVE rank[x] \in 0..(n - 1)
        <5>1. rank[x] \in Nat /\ rank[x] < n
          BY <1>2
        <5>2. QED
          BY <1>1, <5>1
      <4>2. QED
        BY <4>1
    <3>2. QED
      BY <3>1
  <2> HIDE DEF rank
  <2>2. QED
    BY <1>4, <2>1 DEF Injection, IsInjective
<1>6. rank \in Surjection(S, 0..(n - 1))
  <2>1. IsFiniteSet(0..(n - 1)) /\ Cardinality(0..(n - 1)) = n
    <3>1. Cardinality(0..(n - 1)) = IF 0 > n - 1 THEN 0 ELSE n - 1 - 0 + 1
      BY <1>1, FS_Interval
    <3>2. IsFiniteSet(0..(n - 1))
      BY <1>1, FS_Interval
    <3> HIDE DEF n
    <3>3. QED
      BY <1>1, <3>1, <3>2
  <2>2. Cardinality(0..(n - 1)) = Cardinality(S) => rank \in Surjection(S, 0..(n - 1))
    <3> HIDE DEF rank
    <3>1. QED
      BY <1>5, <2>1, FS_Injection
  <2>3. QED
    BY <2>1, <2>2
<1>7. \A m \in 0..(n - 1) : \E x \in S : rank[x] = m
  <2> HIDE DEF rank
  <2>1. QED
    BY <1>6 DEF Surjection
<1>8. list = [m \in 1..n |-> CHOOSE x \in S : Cardinality(pred(x)) = m - 1]
  BY DEF InOrder
<1>9. ASSUME NEW m \in 1..n PROVE list[m] \in S /\ rank[list[m]] = m - 1
  <2>1. list[m] = CHOOSE x \in S : Cardinality(pred(x)) = m - 1
    BY <1>8
  <2>2. m - 1 \in 0..(n - 1)
    BY <1>1
  <2>3. \E x \in S : Cardinality(pred(x)) = m - 1
    <3>1. PICK x \in S : rank[x] = m - 1
      BY <1>7, <2>2
    <3>2. QED
      BY <3>1
  <2> HIDE DEF pred, list, n
  <2>4. list[m] \in S /\ Cardinality(pred(list[m])) = m - 1
    BY <2>1, <2>3
  <2>5. QED
    BY <2>4
<1> HIDE DEF rank
<1>10. list \in [1..n -> S]
  BY <1>8, <1>9
<1> HIDE DEF list, n, pred
<1>11. list \in Seq(S) /\ Len(list) = n
  BY <1>1, <1>10
<1>12. NoDup(list)
  BY <1>1, <1>9, <1>11 DEF NoDup
<1>13. ToSet(list) = S
  <2>1. ToSet(list) = {list[m] : m \in 1..n}
    BY <1>11, Elements
  <2>2. ASSUME NEW x \in S PROVE x \in ToSet(list)
    <3>1. rank[x] \in Nat /\ rank[x] < n
      BY <1>2
    <3>2. rank[x] + 1 \in 1..n
      BY <1>1, <3>1
    <3>3. rank[list[rank[x] + 1]] = rank[x] /\ list[rank[x] + 1] \in S
      BY <1>9, <3>1, <3>2
    <3>4. list[rank[x] + 1] = x
      BY <1>4, <3>3
    <3>5. QED
      BY <2>1, <3>2, <3>4
  <2>3. QED
    BY <1>9, <2>1, <2>2
<1>14. QED
  BY <1>11, <1>12, <1>13 DEF list, n

\* The list begins with the element that none comes before.
LEMMA InOrderFirst ==
  ASSUME NEW S, IsFiniteSet(S), NEW R, TotalOrder(R, S),
         NEW x \in S, \A y \in S : <<y, x>> \notin R
  PROVE  Len(InOrder(S, R)) >= 1 /\ InOrder(S, R)[1] = x
<1> DEFINE pred(z) == {y \in S : <<y, z>> \in R}
           at(m) == CHOOSE z \in S : Cardinality(pred(z)) = m - 1
           first(z) == Cardinality(pred(z)) = 1 - 1
           n == Cardinality(S)
<1>1. n \in Nat /\ n # 0
  BY FS_CardinalityType, FS_EmptySet
<1>2. InOrder(S, R) = [m \in 1..n |-> at(m)]
  BY DEF InOrder
<1>3. 1 \in 1..n /\ 1 - 1 = 0
  BY <1>1
<1>4. InOrder(S, R)[1] = CHOOSE z \in S : first(z)
  <2>1. InOrder(S, R)[1] = at(1)
    <3> HIDE DEF at, n
    <3>1. QED
      BY <1>2, <1>3
  <2>2. QED
    BY <2>1
<1>5. first(x)
  <2>1. pred(x) = {}
    OBVIOUS
  <2> HIDE DEF pred
  <2>2. QED
    BY <2>1, FS_EmptySet
<1>6. ASSUME NEW z \in S, first(z) PROVE z = x
  <2>1. IsFiniteSet(pred(z))
    BY FS_Subset
  <2>2. pred(z) = {}
    <3> HIDE DEF pred
    <3>1. QED
      BY <1>6, <2>1, FS_EmptySet
  <2>3. <<x, z>> \notin R
    BY <2>2
  <2>4. QED
    BY <2>3 DEF TotalOrder
<1>7. Len(InOrder(S, R)) = n
  <2> HIDE DEF n
  <2>1. QED
    BY <1>1, <1>2
<1> HIDE DEF first, n
<1>8. QED
  BY <1>1, <1>4, <1>5, <1>6, <1>7

(***************************************************************************)
(* Order in sequences that are put together or taken apart.                *)
(***************************************************************************)
\* What comes before what in a sequence followed by another.
LEMMA ConcatOrder ==
  ASSUME NEW T, NEW p \in Seq(T), NEW q \in Seq(T)
  PROVE  /\ p \o q \in Seq(T) /\ Len(p \o q) = Len(p) + Len(q)
         /\ ToSet(p \o q) = ToSet(p) \cup ToSet(q)
         /\ NoDup(p) /\ NoDup(q) /\ ToSet(p) \cap ToSet(q) = {} => NoDup(p \o q)
         /\ \A c, d : Before(p \o q, c, d) <=>
              Before(p, c, d) \/ Before(q, c, d) \/ (c \in ToSet(p) /\ d \in ToSet(q))
<1> DEFINE pq == p \o q
           m == Len(p)
           n == Len(q)
<1>1. /\ m \in Nat /\ n \in Nat /\ pq \in Seq(T) /\ Len(pq) = m + n
      /\ \A i \in 1..m : pq[i] = p[i]
      /\ \A i \in 1..n : pq[m + i] = q[i]
  OBVIOUS
<1>2. /\ ToSet(p) = {p[i] : i \in 1..m} /\ ToSet(q) = {q[i] : i \in 1..n}
      /\ ToSet(pq) = {pq[i] : i \in 1..(m + n)}
  BY <1>1, Elements
<1>3. \A i \in 1..(m + n) : i \in 1..m \/ (i - m \in 1..n /\ m + (i - m) = i)
  BY <1>1
<1>4. \A i \in 1..m : i \in 1..(m + n)
  BY <1>1
<1>5. \A i \in 1..n : m + i \in 1..(m + n) /\ (\A j \in 1..m : j < m + i)
  BY <1>1
<1> HIDE DEF pq, m, n
<1>6. \A i \in 1..(m + n) :
       (i \in 1..m /\ pq[i] = p[i]) \/ (\E j \in 1..n : i = m + j /\ pq[i] = q[j])
  BY <1>1, <1>3
<1>7. ToSet(pq) = ToSet(p) \cup ToSet(q)
  BY <1>1, <1>2, <1>4, <1>5, <1>6
<1>8. ASSUME NoDup(p), NoDup(q), ToSet(p) \cap ToSet(q) = {} PROVE NoDup(pq)
  <2>1. ASSUME NEW i \in 1..(m + n), NEW j \in 1..(m + n), pq[i] = pq[j] PROVE i = j
    <3>1. CASE i \in 1..m /\ pq[i] = p[i] /\ j \in 1..m /\ pq[j] = p[j]
      BY <1>8, <2>1, <3>1 DEF NoDup, m
    <3>2. CASE (\E k \in 1..n : i = m + k /\ pq[i] = q[k])
               /\ (\E k \in 1..n : j = m + k /\ pq[j] = q[k])
      BY <1>8, <2>1, <3>2 DEF NoDup, n
    <3>3. \A k \in 1..m, l \in 1..n : p[k] # q[l]
      BY <1>2, <1>8
    <3>4. QED
      BY <1>6, <2>1, <3>1, <3>2, <3>3
  <2>2. QED
    BY <1>1, <2>1 DEF NoDup
<1>9. ASSUME NEW c, NEW d, Before(pq, c, d)
      PROVE  Before(p, c, d) \/ Before(q, c, d) \/ (c \in ToSet(p) /\ d \in ToSet(q))
  <2>1. PICK i \in 1..(m + n), j \in 1..(m + n) : i < j /\ pq[i] = c /\ pq[j] = d
    BY <1>1, <1>9 DEF Before
  <2>2. CASE i \in 1..m /\ pq[i] = p[i]
    <3>1. CASE j \in 1..m /\ pq[j] = p[j]
      BY <2>1, <2>2, <3>1 DEF Before, m
    <3>2. CASE \E k \in 1..n : j = m + k /\ pq[j] = q[k]
      BY <1>2, <2>1, <2>2, <3>2
    <3>3. QED
      BY <1>6, <3>1, <3>2
  <2>3. CASE \E k \in 1..n : i = m + k /\ pq[i] = q[k]
    <3>1. PICK k \in 1..n : i = m + k /\ pq[i] = q[k]
      BY <2>3
    <3>2. j \notin 1..m
      BY <1>1, <2>1, <3>1
    <3>3. PICK l \in 1..n : j = m + l /\ pq[j] = q[l]
      BY <1>6, <3>2
    <3>4. k < l
      BY <1>1, <2>1, <3>1, <3>3
    <3>5. QED
      BY <2>1, <3>1, <3>3, <3>4 DEF Before, n
  <2>4. QED
    BY <1>6, <2>2, <2>3
<1>10. ASSUME NEW c, NEW d, Before(p, c, d) PROVE Before(pq, c, d)
  BY <1>1, <1>4, <1>10 DEF Before, m
<1>11. ASSUME NEW c, NEW d, Before(q, c, d) PROVE Before(pq, c, d)
  <2>1. PICK i \in 1..n, j \in 1..n : i < j /\ q[i] = c /\ q[j] = d
    BY <1>11 DEF Before, n
  <2>2. m + i < m + j /\ m + i \in 1..Len(pq) /\ m + j \in 1..Len(pq)
    BY <1>1, <1>5, <2>1
  <2>3. QED
    BY <1>1, <2>1, <2>2 DEF Before
<1>12. ASSUME NEW c \in ToSet(p), NEW d \in ToSet(q) PROVE Before(pq, c, d)
  <2>1. PICK i \in 1..m, j \in 1..n : p[i] = c /\ q[j] = d
    BY <1>2
  <2>2. i < m + j /\ i \in 1..Len(pq) /\ m + j \in 1..Len(pq)
    BY <1>1, <1>4, <1>5
  <2>3. QED
    BY <1>1, <2>1, <2>2 DEF Before
<1>13. QED
  BY <1>1, <1>7, <1>8, <1>9, <1>10, <1>11, <1>12 DEF pq, m, n

\* The last one comes behind all others.
LEMMA AppendOrder ==
  ASSUME NEW T, NEW q \in Seq(T), NEW e \in T
  PROVE  /\ Append(q, e) \in Seq(T) /\ Len(Append(q, e)) = Len(q) + 1
         /\ ToSet(Append(q, e)) = ToSet(q) \cup {e}
         /\ NoDup(q) /\ e \notin ToSet(q) => NoDup(Append(q, e))
         /\ \A c, d : Before(Append(q, e), c, d) <=>
              Before(q, c, d) \/ (c \in ToSet(q) /\ d = e)
<1> DEFINE l == <<e>>
<1>1. Append(q, e) = q \o l /\ l \in Seq(T) /\ Len(l) = 1 /\ l[1] = e
  OBVIOUS
<1> HIDE DEF l
<1>2. ToSet(l) = {e} /\ NoDup(l) /\ \A c, d : ~ Before(l, c, d)
  <2>1. \A i \in 1..Len(l) : i = 1
    BY <1>1
  <2>2. ToSet(l) = {l[i] : i \in 1..Len(l)} /\ 1 \in 1..Len(l)
    BY <1>1, Elements
  <2>3. ToSet(l) = {e}
    BY <1>1, <2>1, <2>2
  <2>4. NoDup(l)
    BY <2>1 DEF NoDup
  <2>5. \A c, d : ~ Before(l, c, d)
    BY <2>1 DEF Before
  <2>6. QED
    BY <2>3, <2>4, <2>5
<1>3. /\ q \o l \in Seq(T) /\ Len(q \o l) = Len(q) + Len(l)
      /\ ToSet(q \o l) = ToSet(q) \cup ToSet(l)
      /\ NoDup(q) /\ NoDup(l) /\ ToSet(q) \cap ToSet(l) = {} => NoDup(q \o l)
      /\ \A c, d : Before(q \o l, c, d) <=>
              Before(q, c, d) \/ Before(l, c, d) \/ (c \in ToSet(q) /\ d \in ToSet(l))
  BY <1>1, ConcatOrder
<1> DEFINE ql == q \o l
<1>4. Append(q, e) = ql
  BY <1>1
<1>5. /\ ql \in Seq(T) /\ Len(ql) = Len(q) + 1
      /\ ToSet(ql) = ToSet(q) \cup {e}
      /\ NoDup(q) /\ e \notin ToSet(q) => NoDup(ql)
      /\ \A c, d : Before(ql, c, d) <=> Before(q, c, d) \/ (c \in ToSet(q) /\ d = e)
  BY <1>1, <1>2, <1>3
<1> HIDE DEF ql
<1>6. QED
  BY <1>4, <1>5

\* The first one comes before all others.
LEMMA TailOrder ==
  ASSUME NEW T, NEW q \in Seq(T), q # << >>
  PROVE  /\ Head(q) \in T /\ Tail(q) \in Seq(T) /\ Len(Tail(q)) = Len(q) - 1 /\ Len(q) \in Nat \ {0}
         /\ ToSet(q) = {Head(q)} \cup ToSet(Tail(q))
         /\ NoDup(q) => NoDup(Tail(q)) /\ Head(q) \notin ToSet(Tail(q))
         /\ \A c, d : Before(Tail(q), c, d) => Before(q, c, d)
         /\ \A d \in ToSet(Tail(q)) : Before(q, Head(q), d)
<1> DEFINE t == Tail(q)
           h == Head(q)
           n == Len(t)
<1>1. /\ h \in T /\ t \in Seq(T) /\ n = Len(q) - 1 /\ Len(q) \in Nat \ {0} /\ n \in Nat
      /\ h = q[1] /\ \A i \in 1..n : t[i] = q[i + 1]
  OBVIOUS
<1>2. ToSet(t) = {t[i] : i \in 1..n} /\ ToSet(q) = {q[i] : i \in 1..Len(q)}
  BY <1>1, Elements
<1>3. /\ \A i \in 1..n : i + 1 \in 1..Len(q) /\ 1 < i + 1
      /\ 1 \in 1..Len(q) /\ \A i \in 1..Len(q) : i = 1 \/ (i - 1 \in 1..n /\ (i - 1) + 1 = i)
      /\ \A i, j \in 1..n : (i < j => i + 1 < j + 1) /\ (i + 1 = j + 1 => i = j)
  BY <1>1
<1> HIDE DEF t, h, n
<1>4. ToSet(q) = {h} \cup ToSet(t)
  <2>1. ASSUME NEW i \in 1..Len(q) PROVE q[i] \in {h} \cup ToSet(t)
    <3>1. i # 1 => i - 1 \in 1..n /\ t[i - 1] = q[i]
      <4>1. i # 1 => i - 1 \in 1..n /\ (i - 1) + 1 = i
        BY <1>3
      <4>2. QED
        BY <1>1, <4>1
    <3>2. QED
      BY <1>1, <1>2, <3>1
  <2>2. h \in ToSet(q)
    BY <1>1, <1>2, <1>3
  <2>3. ASSUME NEW i \in 1..n PROVE t[i] \in ToSet(q)
    BY <1>1, <1>2, <1>3
  <2>4. QED
    BY <1>2, <2>1, <2>2, <2>3
<1>5. ASSUME NoDup(q) PROVE NoDup(t) /\ h \notin ToSet(t)
  <2>1. NoDup(t)
    BY <1>1, <1>3, <1>5 DEF NoDup, n
  <2>2. \A i \in 1..n : t[i] # h
    BY <1>1, <1>3, <1>5 DEF NoDup
  <2>3. QED
    BY <1>2, <2>1, <2>2
<1>6. ASSUME NEW c, NEW d, Before(t, c, d) PROVE Before(q, c, d)
  <2>1. PICK i \in 1..n, j \in 1..n : i < j /\ t[i] = c /\ t[j] = d
    BY <1>6 DEF Before, n
  <2>2. QED
    BY <1>1, <1>3, <2>1 DEF Before
<1>7. ASSUME NEW d \in ToSet(t) PROVE Before(q, h, d)
  <2>1. PICK i \in 1..n : t[i] = d
    BY <1>2
  <2>2. QED
    BY <1>1, <1>3, <2>1 DEF Before
<1>8. QED
  BY <1>1, <1>4, <1>5, <1>6, <1>7 DEF t, h, n

(***************************************************************************)
(* The tally of a tier: what holds in it from the first visit to the last. *)
(***************************************************************************)
\* The requests of A are those that have waited longest.
AgedInOrder(q, A) == \A c, d : Before(q, c, d) /\ d \in A => c \in A

LEMMA Comparable ==
  ASSUME NEW T, NEW q \in Seq(T), NEW c \in ToSet(q), NEW d \in ToSet(q), c # d
  PROVE  Before(q, c, d) \/ Before(q, d, c)
<1>1. PICK i \in 1..Len(q), j \in 1..Len(q) : q[i] = c /\ q[j] = d
  BY Elements
<1>2. i < j \/ j < i
  BY <1>1
<1>3. QED
  BY <1>1, <1>2 DEF Before

LEMMA InQueue ==
  ASSUME NEW T, NEW q \in Seq(T), NEW c, NEW d, Before(q, c, d)
  PROVE  c \in ToSet(q) /\ d \in ToSet(q)
  BY Elements DEF Before

\* Serving the aged requests first serves a queue in order.
LEMMA AgedFirstOrder ==
  ASSUME NEW T, NEW q \in Seq(T), NoDup(q), NEW A, AgedInOrder(q, A)
  PROVE  /\ AgedFirst(q, A) \in Seq(T) /\ ToSet(AgedFirst(q, A)) = ToSet(q)
         /\ NoDup(AgedFirst(q, A))
         /\ \A c, d : Before(AgedFirst(q, A), c, d) => Before(q, c, d)
<1> DEFINE a == Only(q, A)
           b == Without(q, A)
<1>1. /\ a \in Seq(T) /\ ToSet(a) = ToSet(q) \cap A /\ NoDup(a)
      /\ \A c, d : Before(a, c, d) <=> Before(q, c, d) /\ c \in A /\ d \in A
  BY OnlyKeeps
<1>2. /\ b \in Seq(T) /\ ToSet(b) = ToSet(q) \ A /\ NoDup(b)
      /\ \A c, d : Before(b, c, d) <=> Before(q, c, d) /\ c \notin A /\ d \notin A
  BY WithoutKeeps
<1>3. AgedFirst(q, A) = a \o b
  BY DEF AgedFirst
<1> HIDE DEF a, b
<1>4. /\ a \o b \in Seq(T) /\ ToSet(a \o b) = ToSet(a) \cup ToSet(b)
      /\ NoDup(a) /\ NoDup(b) /\ ToSet(a) \cap ToSet(b) = {} => NoDup(a \o b)
      /\ \A c, d : Before(a \o b, c, d) <=>
           Before(a, c, d) \/ Before(b, c, d) \/ (c \in ToSet(a) /\ d \in ToSet(b))
  BY <1>1, <1>2, ConcatOrder
<1> DEFINE ab == a \o b
<1>5. AgedFirst(q, A) = ab
  BY <1>3
<1> HIDE DEF ab
<1>6. ASSUME NEW c \in ToSet(a), NEW d \in ToSet(b) PROVE Before(q, c, d)
  <2>1. c \in ToSet(q) /\ c \in A /\ d \in ToSet(q) /\ d \notin A
    BY <1>1, <1>2
  <2>2. ~ Before(q, d, c)
    BY <2>1 DEF AgedInOrder
  <2>3. QED
    BY <2>1, <2>2, Comparable
<1>7. ab \in Seq(T) /\ ToSet(ab) = ToSet(q) /\ NoDup(ab)
  BY <1>1, <1>2, <1>4 DEF ab
<1>8. \A c, d : Before(ab, c, d) => Before(q, c, d)
  BY <1>1, <1>2, <1>4, <1>6 DEF ab
<1>9. QED
  BY <1>5, <1>7, <1>8

LEMMA SessionsFinite ==
  IsFiniteSet(Sessions) /\ Sessions \subseteq Nat /\ \A c \in Callers : SessionOf[c] \in Sessions
<1>1. SessionOf \in [Callers -> Nat] /\ IsFiniteSet(Callers)
  BY FairnessAssumption, SchedulerAssumption
<1>2. SessionOf \in Surjection(Callers, Sessions)
  BY <1>1 DEF Surjection, Sessions
<1>3. IsFiniteSet(Sessions)
  BY <1>1, <1>2, FS_Surjection
<1>4. QED
  BY <1>1, <1>3 DEF Sessions

\* What a tally of a tier is made of.
Tallies ==
  [left : [Sessions -> Seq(Callers)], credit : [Sessions -> Nat],
   active : SUBSET Sessions, picked : Seq(Callers)]

\* What holds of a tally of the tier q: a request of q is in the queue of its session
\* or picked, and within a session those picked are ahead, in order.
Fair(q, limit, t) ==
  /\ \A s \in Sessions : NoDup(t.left[s])
  /\ \A s \in Sessions : \A c \in ToSet(t.left[s]) : SessionOf[c] = s
  /\ NoDup(t.picked) /\ (Len(t.picked) <= limit \/ t.picked = << >>)
  /\ \A c \in Callers :
       c \in ToSet(q) <=> c \in ToSet(t.picked) \cup ToSet(t.left[SessionOf[c]])
  /\ \A c \in ToSet(t.picked) : c \notin ToSet(t.left[SessionOf[c]])
  /\ \A s \in Sessions : \A c, d : Before(t.left[s], c, d) => Before(q, c, d)
  /\ \A c \in ToSet(t.picked) : \A d \in ToSet(t.left[SessionOf[c]]) : Before(q, c, d)
  /\ \A c, d : Before(t.picked, c, d) /\ SessionOf[c] = SessionOf[d] => Before(q, c, d)
  /\ \A s \in Sessions : t.left[s] # << >> => s \in t.active

\* It holds before the first visit.
LEMMA StartFair ==
  ASSUME NEW q \in Seq(Callers), NoDup(q), NEW A, AgedInOrder(q, A), NEW limit
  PROVE  StartTally(q, A) \in Tallies /\ Fair(q, limit, StartTally(q, A))
<1> DEFINE own(s) == QueueOf(q, s)
           mine(s) == {c \in Callers : SessionOf[c] = s}
           line(s) == AgedFirst(own(s), A)
           t == StartTally(q, A)
<1>1. ASSUME NEW s
      PROVE  /\ own(s) \in Seq(Callers) /\ NoDup(own(s)) /\ ToSet(own(s)) = ToSet(q) \cap mine(s)
             /\ \A c, d : Before(own(s), c, d) => Before(q, c, d)
  BY OnlyKeeps DEF QueueOf
<1>2. ASSUME NEW s
      PROVE  /\ line(s) \in Seq(Callers) /\ ToSet(line(s)) = ToSet(q) \cap mine(s)
             /\ NoDup(line(s)) /\ \A c, d : Before(line(s), c, d) => Before(q, c, d)
  <2> HIDE DEF own
  <2>1. AgedInOrder(own(s), A)
    BY <1>1 DEF AgedInOrder
  <2>2. QED
    BY <1>1, <2>1, AgedFirstOrder
<1>3. ASSUME NEW s \in Sessions PROVE line(s) # << >> => own(s) # << >>
  <2>1. own(s) = << >> => ToSet(own(s)) = {}
    BY DEF ToSet
  <2>2. ToSet(line(s)) = ToSet(own(s))
    BY <1>1, <1>2
  <2> HIDE DEF own, line
  <2>3. line(s) # << >> => ToSet(line(s)) # {}
    BY <1>2, Elements
  <2>4. QED
    BY <2>1, <2>2, <2>3
<1>4. /\ t.left = [s \in Sessions |-> line(s)] /\ t.credit = [s \in Sessions |-> 0]
      /\ t.active = {s \in Sessions : own(s) # << >>} /\ t.picked = << >>
      /\ t = [left |-> t.left, credit |-> t.credit, active |-> t.active, picked |-> t.picked]
  BY DEF StartTally
<1> HIDE DEF t, line, own
<1>5. \A s \in Sessions : t.left[s] = line(s)
  BY <1>4
<1>6. t \in Tallies
  <2>1. t.left \in [Sessions -> Seq(Callers)] /\ t.credit \in [Sessions -> Nat]
    BY <1>2, <1>4
  <2>2. t.active \in SUBSET Sessions /\ t.picked \in Seq(Callers)
    BY <1>4
  <2>3. QED
    BY <1>4, <2>1, <2>2 DEF Tallies
<1>7. ToSet(<< >>) = {} /\ NoDup(<< >>) /\ \A c, d : ~ Before(<< >>, c, d)
  BY DEF ToSet, NoDup, Before
<1>8. \A s \in Sessions : NoDup(t.left[s])
  BY <1>2, <1>5
<1>9. \A s \in Sessions : \A c \in ToSet(t.left[s]) : SessionOf[c] = s
  BY <1>2, <1>5
<1>10. \A c \in Callers : c \in ToSet(q) <=> c \in ToSet(t.picked) \cup ToSet(t.left[SessionOf[c]])
  BY <1>2, <1>4, <1>5, <1>7, SessionsFinite
<1>11. \A s \in Sessions : \A c, d : Before(t.left[s], c, d) => Before(q, c, d)
  BY <1>2, <1>5
<1>12. \A s \in Sessions : t.left[s] # << >> => s \in t.active
  BY <1>3, <1>4, <1>5
<1>13. Fair(q, limit, t)
  BY <1>4, <1>7, <1>8, <1>9, <1>10, <1>11, <1>12 DEF Fair
<1>14. QED
  BY <1>6, <1>13 DEF t

\* Topping the credits up changes nothing of it.
LEMMA CreditedFair ==
  ASSUME NEW q, NEW limit, NEW t \in Tallies, Fair(q, limit, t), NEW A
  PROVE  Credited(t, A) \in Tallies /\ Fair(q, limit, Credited(t, A))
<1> DEFINE u == Credited(t, A)
<1>1. /\ u.left = t.left /\ u.active = t.active /\ u.picked = t.picked
      /\ u.credit \in [Sessions -> Nat]
      /\ u = [left |-> u.left, credit |-> u.credit, active |-> u.active, picked |-> u.picked]
  <2>1. CASE \E s \in t.active : t.credit[s] > 0
    <3>1. u = t
      BY <2>1 DEF Credited
    <3>2. QED
      BY <3>1 DEF Tallies
  <2>2. CASE ~ \E s \in t.active : t.credit[s] > 0
    <3> DEFINE credit == [s \in Sessions |->
                 IF s \notin t.active THEN t.credit[s]
                 ELSE t.credit[s] + (IF HasAged(t.left[s], A) THEN AgingBoost ELSE Quantum)]
    <3>1. u = [t EXCEPT !.credit = credit]
      BY <2>2 DEF Credited
    <3>2. AgingBoost \in Nat /\ Quantum \in Nat
      BY FairnessAssumption
    <3>3. credit \in [Sessions -> Nat]
      BY <3>2 DEF Tallies
    <3> HIDE DEF credit
    <3>4. QED
      BY <3>1, <3>3 DEF Tallies
  <2>3. QED
    BY <2>1, <2>2
<1> HIDE DEF u
<1>2. u \in Tallies
  <2>1. t.left \in [Sessions -> Seq(Callers)] /\ t.active \in SUBSET Sessions
          /\ t.picked \in Seq(Callers)
    BY DEF Tallies
  <2>2. QED
    BY <1>1, <2>1 DEF Tallies
<1>3. Fair(q, limit, u)
  BY <1>1 DEF Fair
<1>4. QED
  BY <1>2, <1>3 DEF u

\* What a visit that picks a request does.
Picks(t, s, u) ==
  /\ u.left = [t.left EXCEPT ![s] = Tail(t.left[s])]
  /\ u.picked = Append(t.picked, Head(t.left[s]))
  /\ u.active = t.active /\ u.credit = [t.credit EXCEPT ![s] = @ - 1]
  /\ u = [left |-> u.left, credit |-> u.credit, active |-> u.active, picked |-> u.picked]

\* What a visit that finds the session drained does.
Retires(t, s, u) ==
  /\ u.left = t.left /\ u.picked = t.picked /\ u.credit = t.credit
  /\ u.active = t.active \ {s}
  /\ u = [left |-> u.left, credit |-> u.credit, active |-> u.active, picked |-> u.picked]

\* A visit finds no room or no credit, a drained session, or a request to pick.
LEMMA VisitCases ==
  ASSUME NEW t \in Tallies, NEW s \in Sessions, NEW limit \in Int
  PROVE  \/ /\ Len(t.picked) >= limit \/ t.credit[s] <= 0
            /\ Visit(t, s, limit) = t
         \/ /\ Len(t.picked) < limit /\ t.credit[s] > 0 /\ t.left[s] = << >>
            /\ Retires(t, s, Visit(t, s, limit))
         \/ /\ Len(t.picked) < limit /\ t.credit[s] > 0 /\ t.left[s] # << >>
            /\ Picks(t, s, Visit(t, s, limit))
<1>1. Len(t.picked) \in Nat /\ t.credit[s] \in Int
  BY DEF Tallies
<1>2. CASE Len(t.picked) >= limit \/ t.credit[s] <= 0
  BY <1>2 DEF Visit
<1>3. CASE ~ (Len(t.picked) >= limit \/ t.credit[s] <= 0)
  <2>1. Len(t.picked) < limit /\ t.credit[s] > 0
    BY <1>1, <1>3
  <2>2. CASE t.left[s] = << >>
    BY <1>3, <2>1, <2>2 DEF Visit, Retires, Tallies
  <2>3. CASE t.left[s] # << >>
    BY <1>3, <2>1, <2>3 DEF Visit, Picks, Tallies
  <2>4. QED
    BY <2>1, <2>2, <2>3
<1>4. QED
  BY <1>2, <1>3

LEMMA RetiresFair ==
  ASSUME NEW q, NEW limit, NEW t \in Tallies, Fair(q, limit, t),
         NEW s \in Sessions, t.left[s] = << >>, NEW u, Retires(t, s, u)
  PROVE  u \in Tallies /\ Fair(q, limit, u)
<1>1. u \in Tallies
  BY DEF Retires, Tallies
<1>2. \A r \in Sessions : u.left[r] # << >> => r \in u.active
  BY DEF Retires, Fair
<1>3. u.left = t.left /\ u.picked = t.picked
  BY DEF Retires
<1>4. QED
  BY <1>1, <1>2, <1>3 DEF Fair

LEMMA PicksFair ==
  ASSUME NEW q \in Seq(Callers), NoDup(q), NEW limit \in Int,
         NEW t \in Tallies, Fair(q, limit, t), Len(t.picked) < limit,
         NEW s \in Sessions, t.credit[s] > 0, t.left[s] # << >>, NEW u, Picks(t, s, u)
  PROVE  u \in Tallies /\ Fair(q, limit, u)
<1> DEFINE h == Head(t.left[s])
           rest == Tail(t.left[s])
<1>1. t.left \in [Sessions -> Seq(Callers)] /\ t.credit \in [Sessions -> Nat]
      /\ t.active \in SUBSET Sessions /\ t.picked \in Seq(Callers)
  BY DEF Tallies
<1>2. t.left[s] \in Seq(Callers) /\ NoDup(t.left[s]) /\ t.left[s] # << >>
  BY <1>1 DEF Fair
<1>3. /\ h \in Callers /\ rest \in Seq(Callers)
      /\ ToSet(t.left[s]) = {h} \cup ToSet(rest)
      /\ NoDup(rest) /\ h \notin ToSet(rest)
      /\ \A c, d : Before(rest, c, d) => Before(t.left[s], c, d)
      /\ \A d \in ToSet(rest) : Before(t.left[s], h, d)
  BY <1>2, TailOrder
<1>4. SessionOf[h] = s
  BY <1>3 DEF Fair
<1>5. h \notin ToSet(t.picked) /\ h \in ToSet(q)
  BY <1>3, <1>4 DEF Fair
<1>6. /\ u.left = [t.left EXCEPT ![s] = rest] /\ u.picked = Append(t.picked, h)
      /\ u.active = t.active /\ u.credit = [t.credit EXCEPT ![s] = @ - 1]
      /\ u = [left |-> u.left, credit |-> u.credit, active |-> u.active, picked |-> u.picked]
  BY DEF Picks
<1> HIDE DEF h, rest
<1>7. u.left \in [Sessions -> Seq(Callers)] /\ u.left[s] = rest
      /\ \A r \in Sessions : r # s => u.left[r] = t.left[r]
  BY <1>1, <1>3, <1>6
<1>8. /\ u.picked \in Seq(Callers) /\ Len(u.picked) = Len(t.picked) + 1
      /\ ToSet(u.picked) = ToSet(t.picked) \cup {h} /\ NoDup(u.picked)
      /\ \A c, d : Before(u.picked, c, d) <=>
              Before(t.picked, c, d) \/ (c \in ToSet(t.picked) /\ d = h)
  <2>1. NoDup(t.picked)
    BY DEF Fair
  <2>2. /\ Append(t.picked, h) \in Seq(Callers) /\ Len(Append(t.picked, h)) = Len(t.picked) + 1
        /\ ToSet(Append(t.picked, h)) = ToSet(t.picked) \cup {h}
        /\ NoDup(t.picked) /\ h \notin ToSet(t.picked) => NoDup(Append(t.picked, h))
        /\ \A c, d : Before(Append(t.picked, h), c, d) <=>
              Before(t.picked, c, d) \/ (c \in ToSet(t.picked) /\ d = h)
    BY <1>1, <1>3, AppendOrder
  <2>3. QED
    BY <1>5, <1>6, <2>1, <2>2, Zenon
<1>9. u \in Tallies
  <2>1. u.credit \in [Sessions -> Nat]
    BY <1>1, <1>6
  <2>2. QED
    BY <1>1, <1>6, <1>7, <1>8, <2>1 DEF Tallies
<1>10. \A r \in Sessions : NoDup(u.left[r])
  BY <1>3, <1>7 DEF Fair
<1>11. \A r \in Sessions : \A c \in ToSet(u.left[r]) : c \in ToSet(t.left[r])
  BY <1>3, <1>7
<1>12. \A r \in Sessions : \A c \in ToSet(u.left[r]) : SessionOf[c] = r
  BY <1>11 DEF Fair
<1>13. Len(u.picked) <= limit
  BY <1>1, <1>8
<1>14. ASSUME NEW c \in Callers
       PROVE  c \in ToSet(q) <=> c \in ToSet(u.picked) \cup ToSet(u.left[SessionOf[c]])
  <2>1. c \in ToSet(q) <=> c \in ToSet(t.picked) \cup ToSet(t.left[SessionOf[c]])
    BY DEF Fair
  <2>2. SessionOf[c] \in Sessions
    BY SessionsFinite
  <2>3. CASE SessionOf[c] = s
    BY <1>3, <1>7, <1>8, <2>1, <2>3
  <2>4. CASE SessionOf[c] # s
    BY <1>4, <1>7, <1>8, <2>1, <2>2, <2>4
  <2>5. QED
    BY <2>3, <2>4
<1>15. ToSet(u.picked) \subseteq Callers
  BY <1>8, Elements
<1>16. ASSUME NEW c \in ToSet(u.picked) PROVE c \notin ToSet(u.left[SessionOf[c]])
  <2>1. SessionOf[c] \in Sessions
    BY <1>15, SessionsFinite
  <2>2. CASE c = h
    BY <1>3, <1>4, <1>7, <2>2
  <2>3. CASE c \in ToSet(t.picked)
    <3>1. c \notin ToSet(t.left[SessionOf[c]])
      BY <2>3 DEF Fair
    <3>2. QED
      BY <1>11, <2>1, <3>1
  <2>4. QED
    BY <1>8, <2>2, <2>3
<1>17. \A r \in Sessions : \A c, d : Before(u.left[r], c, d) => Before(q, c, d)
  <2>1. \A r \in Sessions : \A c, d : Before(u.left[r], c, d) => Before(t.left[r], c, d)
    BY <1>3, <1>7
  <2>2. QED
    BY <2>1 DEF Fair
<1>18. ASSUME NEW c \in ToSet(u.picked), NEW d \in ToSet(u.left[SessionOf[c]]) PROVE Before(q, c, d)
  <2>1. SessionOf[c] \in Sessions
    BY <1>15, SessionsFinite
  <2>2. d \in ToSet(t.left[SessionOf[c]])
    BY <1>11, <2>1
  <2>3. CASE c = h
    <3>1. Before(t.left[s], h, d)
      BY <1>3, <1>4, <1>7, <2>3
    <3>2. QED
      BY <2>3, <3>1 DEF Fair
  <2>4. CASE c \in ToSet(t.picked)
    BY <2>2, <2>4 DEF Fair
  <2>5. QED
    BY <1>8, <2>3, <2>4
<1>19. ASSUME NEW c, NEW d, Before(u.picked, c, d), SessionOf[c] = SessionOf[d]
       PROVE Before(q, c, d)
  <2>1. CASE Before(t.picked, c, d)
    BY <1>19, <2>1 DEF Fair
  <2>2. CASE c \in ToSet(t.picked) /\ d = h
    <3>1. d \in ToSet(t.left[SessionOf[c]])
      BY <1>3, <1>4, <1>19, <2>2
    <3>2. QED
      BY <2>2, <3>1 DEF Fair
  <2>3. QED
    BY <1>8, <1>19, <2>1, <2>2
<1>20. \A r \in Sessions : u.left[r] # << >> => r \in u.active
  <2>1. \A r \in Sessions : t.left[r] # << >> => r \in t.active
    BY DEF Fair
  <2>2. QED
    BY <1>2, <1>6, <1>7, <2>1
<1>21. QED
  BY <1>8, <1>9, <1>10, <1>12, <1>13, <1>14, <1>16, <1>17, <1>18, <1>19, <1>20 DEF Fair

\* A visit keeps it.
LEMMA VisitFair ==
  ASSUME NEW q \in Seq(Callers), NoDup(q), NEW limit \in Int,
         NEW t \in Tallies, Fair(q, limit, t), NEW s \in Sessions
  PROVE  Visit(t, s, limit) \in Tallies /\ Fair(q, limit, Visit(t, s, limit))
<1> DEFINE u == Visit(t, s, limit)
<1>1. \/ u = t
      \/ t.left[s] = << >> /\ Retires(t, s, u)
      \/ Len(t.picked) < limit /\ t.credit[s] > 0 /\ t.left[s] # << >> /\ Picks(t, s, u)
  BY VisitCases
<1> HIDE DEF u
<1>2. u \in Tallies /\ Fair(q, limit, u)
  BY <1>1, RetiresFair, PicksFair
<1>3. QED
  BY <1>2 DEF u

(***************************************************************************)
(* Turns of the round robin.                                               *)
(***************************************************************************)
\* The same for a step that is defined on a set only.
LEMMA InductIn ==
  ASSUME NEW n \in Nat, NEW D, NEW f, f[0] \in D,
         \A i \in 1..n : f[i - 1] \in D => f[i] \in D
  PROVE  \A i \in 0..n : f[i] \in D
<1> DEFINE DD == [i \in 0..n |-> D]
<1>1. \A i \in 0..n : DD[i] = D
  OBVIOUS
<1>2. 0 \in 0..n /\ \A i \in 1..n : i \in 0..n /\ i - 1 \in 0..n
  OBVIOUS
<1> HIDE DEF DD
<1>3. f[0] \in DD[0] /\ \A i \in 1..n : f[i - 1] \in DD[i - 1] => f[i] \in DD[i]
  BY <1>1, <1>2
<1>4. \A i \in 0..n : f[i] \in DD[i]
  BY <1>3, Induct
<1>5. QED
  BY <1>1, <1>4

IteratedIn(f, n, D, base, step) ==
  /\ f = [i \in 0..n |-> f[i]] /\ f[0] = base
  /\ \A i \in 1..n : f[i] = step[<<i, f[i - 1]>>]
  /\ \A i \in 0..n : f[i] \in D

LEMMA IteratesIn ==
  ASSUME NEW n \in Nat, NEW D, NEW base \in D, NEW step,
         \A i \in 1..n : \A x \in D : step[<<i, x>>] \in D
  PROVE  \E f : IteratedIn(f, n, D, base, step)
<1>1. PICK f : Iterated(f, n, base, step)
  BY Iterates
<1>2. f = [i \in 0..n |-> f[i]] /\ f[0] = base
  BY <1>1 DEF Iterated
<1>3. ASSUME NEW i \in 1..n PROVE f[i] = step[<<i, f[i - 1]>>]
  <2>1. i \in 0..n /\ i # 0
    OBVIOUS
  <2>2. QED
    BY <1>1, <2>1 DEF Iterated
<1>4. \A i \in 0..n : f[i] \in D
  <2>1. \A i \in 1..n : f[i - 1] \in D => f[i] \in D
    BY <1>3
  <2>2. QED
    BY <1>2, <2>1, InductIn
<1>5. QED
  BY <1>2, <1>3, <1>4 DEF IteratedIn

\* Every session is visited once in a turn.
LEMMA VisitOrderLists ==
  ASSUME NEW t \in Tallies, NEW A
  PROVE  /\ VisitOrder(t, A) \in Seq(t.active) /\ ToSet(VisitOrder(t, A)) = t.active
<1> DEFINE hasAged(s) == HasAged(t.left[s], A)
           R == {p \in t.active \X t.active :
                   IF hasAged(p[1]) = hasAged(p[2]) THEN p[1] < p[2] ELSE hasAged(p[1])}
<1>1. t.active \in SUBSET Sessions
  BY DEF Tallies
<1>2. IsFiniteSet(t.active) /\ t.active \subseteq Nat
  BY <1>1, SessionsFinite, FS_Subset
<1> DEFINE aged == {s \in t.active : hasAged(s)}
<1>3. \A s \in t.active : hasAged(s) \in BOOLEAN
  BY DEF HasAged
<1>4. \A s, r \in t.active :
        <<s, r>> \in R <=> IF s \in aged <=> r \in aged THEN s < r ELSE s \in aged
  BY <1>3
<1>5. VisitOrder(t, A) = InOrder(t.active, R)
  BY DEF VisitOrder
<1> HIDE DEF hasAged, R, aged
<1>6. TotalOrder(R, t.active)
  <2> SUFFICES ASSUME NEW x \in t.active, NEW y \in t.active, NEW z \in t.active
               PROVE  /\ <<x, x>> \notin R
                      /\ <<x, y>> \in R /\ <<y, z>> \in R => <<x, z>> \in R
                      /\ x # y => <<x, y>> \in R \/ <<y, x>> \in R
    BY DEF TotalOrder
  <2>1. x \in Nat /\ y \in Nat /\ z \in Nat
    BY <1>2
  <2>2. /\ <<x, x>> \in R <=> x < x
        /\ <<x, y>> \in R <=> IF x \in aged <=> y \in aged THEN x < y ELSE x \in aged
        /\ <<y, z>> \in R <=> IF y \in aged <=> z \in aged THEN y < z ELSE y \in aged
        /\ <<x, z>> \in R <=> IF x \in aged <=> z \in aged THEN x < z ELSE x \in aged
        /\ <<y, x>> \in R <=> IF y \in aged <=> x \in aged THEN y < x ELSE y \in aged
    BY <1>4
  <2>3. QED
    BY <2>1, <2>2
<1>7. QED
  BY <1>2, <1>5, <1>6, InOrderLists

\* A round visits the active sessions one after the other.
Visiting(v, t, A, limit, n) ==
  /\ v[0] = Credited(t, A)
  /\ \A i \in 1..n : v[i] = Visit(v[i - 1], VisitOrder(t, A)[i], limit)
  /\ Round(t, A, limit) = v[n]

\* A turn of the round robin is its visits, one after the other.
LEMMA RoundVisits ==
  ASSUME NEW q \in Seq(Callers), NoDup(q), NEW limit \in Int,
         NEW t \in Tallies, Fair(q, limit, t), NEW A
  PROVE  LET n == Len(VisitOrder(t, A))
         IN  \E v : /\ Visiting(v, t, A, limit, n)
                    /\ \A i \in 0..n : v[i] \in Tallies /\ Fair(q, limit, v[i])
<1> DEFINE order == VisitOrder(t, A)
           n == Len(order)
           D == {u \in Tallies : Fair(q, limit, u)}
           step == [p \in (1..n) \X Tallies |-> Visit(p[2], order[p[1]], limit)]
           first == Credited(t, A)
           Def(f) == f = [i \in 0..n |-> IF i = 0 THEN first ELSE Visit(f[i - 1], order[i], limit)]
           v == CHOOSE f : Def(f)
<1>1. order \in Seq(Sessions)
  <2>1. order \in Seq(t.active) /\ t.active \subseteq Sessions
    BY VisitOrderLists DEF Tallies
  <2> HIDE DEF order
  <2>2. QED
    BY <2>1, SeqMonotonic
<1>2. Round(t, A, limit) = v[n]
  BY DEF Round
<1> HIDE DEF order
<1>3. n \in Nat /\ \A i \in 1..n : order[i] \in Sessions
  BY <1>1
<1> HIDE DEF n
<1>4. first \in D
  BY CreditedFair
<1>5. ASSUME NEW i \in 1..n, NEW u \in D
      PROVE  Visit(u, order[i], limit) \in D
  BY <1>3, VisitFair
<1>6. ASSUME NEW i \in 1..n, NEW u \in D PROVE step[<<i, u>>] = Visit(u, order[i], limit)
  OBVIOUS
<1> HIDE DEF D, step, first
<1>7. \E f : Def(f)
  <2>1. \A i \in 1..n : \A u \in D : step[<<i, u>>] \in D
    BY <1>5, <1>6
  <2>2. PICK f : IteratedIn(f, n, D, first, step)
    BY <1>3, <1>4, <2>1, IteratesIn
  <2>3. ASSUME NEW i \in 0..n PROVE f[i] = IF i = 0 THEN first ELSE Visit(f[i - 1], order[i], limit)
    <3>1. i # 0 => i \in 1..n /\ i - 1 \in 0..n
      BY <1>3
    <3>2. QED
      BY <1>6, <2>2, <3>1 DEF IteratedIn
  <2> DEFINE g == [i \in 0..n |-> IF i = 0 THEN first ELSE Visit(f[i - 1], order[i], limit)]
  <2>4. \A i \in 0..n : f[i] = g[i]
    BY <2>3
  <2>5. f = g
    <3>1. g = [i \in 0..n |-> g[i]]
      OBVIOUS
    <3> HIDE DEF g
    <3>2. QED
      BY <2>2, <2>4, <3>1 DEF IteratedIn
  <2>6. QED
    BY <2>5
<1>8. Def(v)
  <2> HIDE DEF Def
  <2>1. QED
    BY <1>7
<1> HIDE DEF v
<1>9. v[0] = first /\ \A i \in 1..n : v[i] = Visit(v[i - 1], order[i], limit)
  <2>1. 0 \in 0..n /\ \A i \in 1..n : i \in 0..n /\ i # 0
    BY <1>3
  <2>2. QED
    BY <1>8, <2>1
<1>10. \A i \in 0..n : v[i] \in D
  <2>1. v[0] \in D /\ \A i \in 1..n : v[i - 1] \in D => v[i] \in D
    BY <1>4, <1>5, <1>9
  <2>2. QED
    BY <1>3, <2>1, InductIn
<1>11. Visiting(v, t, A, limit, n)
  BY <1>2, <1>9 DEF Visiting, order, first
<1>12. \A i \in 0..n : v[i] \in Tallies /\ Fair(q, limit, v[i])
  BY <1>10 DEF D
<1>13. QED
  BY <1>11, <1>12 DEF n, order

\* A turn keeps it.
LEMMA RoundFair ==
  ASSUME NEW q \in Seq(Callers), NoDup(q), NEW limit \in Int,
         NEW t \in Tallies, Fair(q, limit, t), NEW A
  PROVE  Round(t, A, limit) \in Tallies /\ Fair(q, limit, Round(t, A, limit))
<1> DEFINE n == Len(VisitOrder(t, A))
<1>1. PICK v : /\ Visiting(v, t, A, limit, n)
               /\ \A i \in 0..n : v[i] \in Tallies /\ Fair(q, limit, v[i])
  BY RoundVisits
<1>2. n \in 0..n
  <2>1. n \in Nat
    BY VisitOrderLists
  <2> HIDE DEF n
  <2>2. QED
    BY <2>1
<1>3. QED
  BY <1>1, <1>2 DEF Visiting

\* A tier is done when its slots are filled or its sessions are drained.
Done(t, limit) == Len(t.picked) >= limit \/ t.active = {}

\* One turn more, unless the tier is done.
Turn(t, A, limit) == IF Done(t, limit) THEN t ELSE Round(t, A, limit)

\* The turns of a tier, up to the m-th.
Turning(a, q, A, limit, m) ==
  /\ a[0] = StartTally(q, A)
  /\ \A i \in 1..m : a[i] = Turn(a[i - 1], A, limit)
  /\ TierPicks(q, A, limit) = a[m].picked

LEMMA TurnFair ==
  ASSUME NEW q \in Seq(Callers), NoDup(q), NEW limit \in Int,
         NEW t \in Tallies, Fair(q, limit, t), NEW A
  PROVE  Turn(t, A, limit) \in Tallies /\ Fair(q, limit, Turn(t, A, limit))
  BY RoundFair DEF Turn

\* What a tier picks is what its last turn leaves.
LEMMA TierTurns ==
  ASSUME NEW q \in Seq(Callers), NoDup(q), NEW A, AgedInOrder(q, A), NEW limit \in Int
  PROVE  \E a : /\ Turning(a, q, A, limit, Len(q) + Len(q))
                /\ \A i \in 0..(Len(q) + Len(q)) : a[i] \in Tallies /\ Fair(q, limit, a[i])
<1> DEFINE m == Len(q) + Len(q)
           D == {u \in Tallies : Fair(q, limit, u)}
           step == [p \in (1..m) \X Tallies |-> Turn(p[2], A, limit)]
           first == StartTally(q, A)
           next(t) == IF Len(t.picked) >= limit \/ t.active = {} THEN t ELSE Round(t, A, limit)
           Def(f) == f = [n \in 0..m |-> IF n = 0 THEN first ELSE next(f[n - 1])]
           a == CHOOSE f : Def(f)
<1>1. TierPicks(q, A, limit) = a[m].picked
  BY DEF TierPicks
<1>2. \A t : next(t) = Turn(t, A, limit)
  BY DEF Turn, Done
<1>3. m \in Nat
  OBVIOUS
<1> HIDE DEF m, next
<1>4. first \in D
  BY StartFair
<1>5. ASSUME NEW u \in D PROVE Turn(u, A, limit) \in D
  BY TurnFair
<1>6. ASSUME NEW i \in 1..m, NEW u \in D PROVE step[<<i, u>>] = Turn(u, A, limit)
  OBVIOUS
<1> HIDE DEF D, step, first
<1>7. \E f : Def(f)
  <2>1. \A i \in 1..m : \A u \in D : step[<<i, u>>] \in D
    BY <1>5, <1>6
  <2>2. PICK f : IteratedIn(f, m, D, first, step)
    BY <1>3, <1>4, <2>1, IteratesIn
  <2>3. ASSUME NEW i \in 0..m PROVE f[i] = IF i = 0 THEN first ELSE next(f[i - 1])
    <3>1. i # 0 => i \in 1..m /\ i - 1 \in 0..m
      BY <1>3
    <3>2. QED
      BY <1>2, <1>6, <2>2, <3>1 DEF IteratedIn
  <2> DEFINE g == [i \in 0..m |-> IF i = 0 THEN first ELSE next(f[i - 1])]
  <2>4. \A i \in 0..m : f[i] = g[i]
    BY <2>3
  <2>5. f = g
    <3>1. g = [i \in 0..m |-> g[i]]
      OBVIOUS
    <3> HIDE DEF g
    <3>2. QED
      BY <2>2, <2>4, <3>1 DEF IteratedIn
  <2>6. QED
    BY <2>5
<1>8. Def(a)
  <2> HIDE DEF Def
  <2>1. QED
    BY <1>7
<1> HIDE DEF a
<1>9. a[0] = first /\ \A i \in 1..m : a[i] = Turn(a[i - 1], A, limit)
  <2>1. 0 \in 0..m /\ \A i \in 1..m : i \in 0..m /\ i # 0
    BY <1>3
  <2>2. QED
    BY <1>2, <1>8, <2>1
<1>10. \A i \in 0..m : a[i] \in D
  <2>1. a[0] \in D /\ \A i \in 1..m : a[i - 1] \in D => a[i] \in D
    BY <1>4, <1>5, <1>9
  <2>2. QED
    BY <1>3, <2>1, InductIn
<1>11. Turning(a, q, A, limit, m)
  BY <1>1, <1>9 DEF Turning, first
<1>12. \A i \in 0..m : a[i] \in Tallies /\ Fair(q, limit, a[i])
  BY <1>10 DEF D
<1>13. QED
  BY <1>11, <1>12 DEF m

\* A caller's session sees its requests of q picked from the front, in order.
PicksInOrder(q, p) ==
  \A c, d : Before(q, c, d) /\ SessionOf[c] = SessionOf[d] /\ d \in ToSet(p)
              => c \in ToSet(p) /\ Before(p, c, d)

LEMMA TierPicksFair ==
  ASSUME NEW q \in Seq(Callers), NoDup(q), NEW A, AgedInOrder(q, A), NEW limit \in Int
  PROVE  LET p == TierPicks(q, A, limit)
         IN  /\ p \in Seq(Callers) /\ NoDup(p) /\ ToSet(p) \subseteq ToSet(q)
             /\ Len(p) <= limit \/ p = << >>
             /\ PicksInOrder(q, p)
<1> DEFINE m == Len(q) + Len(q)
           p == TierPicks(q, A, limit)
<1>1. PICK a : /\ Turning(a, q, A, limit, m)
               /\ \A i \in 0..m : a[i] \in Tallies /\ Fair(q, limit, a[i])
  BY TierTurns
<1>2. m \in 0..m
  <2>1. m \in Nat
    OBVIOUS
  <2> HIDE DEF m
  <2>2. QED
    BY <2>1
<1> HIDE DEF m
<1> DEFINE t == a[m]
<1>3. t \in Tallies /\ Fair(q, limit, t) /\ p = t.picked
  BY <1>1, <1>2 DEF Turning
<1> HIDE DEF t, p
<1>4. p \in Seq(Callers) /\ NoDup(p) /\ (Len(p) <= limit \/ p = << >>)
  BY <1>3 DEF Fair, Tallies
<1>5. ToSet(p) \subseteq ToSet(q)
  <2>1. ToSet(p) \subseteq Callers
    BY <1>4, Elements
  <2>2. QED
    BY <1>3, <2>1 DEF Fair
<1>6. ASSUME NEW c, NEW d, Before(q, c, d), SessionOf[c] = SessionOf[d], d \in ToSet(p)
      PROVE  c \in ToSet(p) /\ Before(p, c, d)
  <2>1. c \in Callers /\ d \in Callers /\ c \in ToSet(q)
    BY <1>6, InQueue, Elements
  <2>2. ~ Before(q, d, c) /\ c # d
    BY <1>6, NoCycle
  <2>3. c \in ToSet(p)
    <3>1. c \notin ToSet(t.left[SessionOf[c]])
      BY <1>3, <1>6, <2>2 DEF Fair
    <3>2. QED
      BY <1>3, <2>1, <3>1 DEF Fair
  <2>4. ~ Before(p, d, c)
    BY <1>3, <1>6, <2>2 DEF Fair
  <2>5. QED
    BY <1>4, <1>6, <2>2, <2>3, <2>4, Comparable
<1>7. QED
  BY <1>4, <1>5, <1>6 DEF PicksInOrder, p

(***************************************************************************)
(* A tier is served until it is empty or the batch is full: each turn picks a *)
(* request or retires a session.                                           *)
(***************************************************************************)
\* A sequence has no more elements than its length says.
LEMMA SeqSize ==
  ASSUME NEW T, NEW p \in Seq(T)
  PROVE  /\ IsFiniteSet(ToSet(p)) /\ Cardinality(ToSet(p)) \in Nat
         /\ Cardinality(ToSet(p)) <= Len(p)
         /\ NoDup(p) => Cardinality(ToSet(p)) = Len(p)
<1> DEFINE n == Len(p)
           E == ToSet(p)
<1>1. n \in Nat /\ E = {p[i] : i \in 1..n} /\ p \in [1..n -> T]
  BY Elements
<1> HIDE DEF n, E
<1>2. p \in [1..n -> E] /\ \A e \in E : \E i \in 1..n : p[i] = e
  BY <1>1
<1>3. p \in Surjection(1..n, E)
  BY <1>2 DEF Surjection
<1>4. ExistsSurjection(1..n, E)
  BY <1>3 DEF ExistsSurjection
<1>5. IsFiniteSet(E) /\ Cardinality(E) <= n /\ Cardinality(E) \in Nat
  BY <1>1, <1>4, FS_NatSurjection, FS_SurjCardinalityBound, FS_CardinalityType
<1>6. ASSUME NoDup(p) PROVE Cardinality(E) = n
  <2>1. p \in Injection(1..n, E)
    BY <1>2, <1>6 DEF Injection, IsInjective, NoDup, n
  <2>2. ExistsBijection(1..n, E)
    BY <1>3, <2>1 DEF ExistsBijection, Bijection
  <2>3. QED
    BY <1>1, <2>2, FS_CountingElements
<1>7. QED
  BY <1>5, <1>6 DEF n, E

\* What a tier has got done: requests picked and sessions retired.
Weight(t) == Len(t.picked) - Cardinality(t.active)

LEMMA TallySizes ==
  ASSUME NEW t \in Tallies
  PROVE  /\ IsFiniteSet(t.active) /\ Cardinality(t.active) \in Nat /\ Len(t.picked) \in Nat
         /\ Weight(t) \in Int
<1>1. t.active \in SUBSET Sessions /\ Len(t.picked) \in Nat
  BY DEF Tallies
<1>2. IsFiniteSet(t.active) /\ Cardinality(t.active) \in Nat
  BY <1>1, SessionsFinite, FS_Subset, FS_CardinalityType
<1>3. QED
  BY <1>1, <1>2 DEF Weight

\* A visit that picks or retires adds one to the weight, and no visit takes from it.
LEMMA VisitWeight ==
  ASSUME NEW t \in Tallies, NEW s \in Sessions, NEW limit \in Int
  PROVE  /\ Weight(Visit(t, s, limit)) >= Weight(t)
         /\ Len(t.picked) < limit /\ t.credit[s] > 0 /\ s \in t.active
              => Weight(Visit(t, s, limit)) > Weight(t)
<1> DEFINE u == Visit(t, s, limit)
<1>1. \/ (Len(t.picked) >= limit \/ t.credit[s] <= 0) /\ u = t
      \/ Retires(t, s, u)
      \/ t.left[s] # << >> /\ Picks(t, s, u)
  BY VisitCases
<1> HIDE DEF u
<1>2. /\ IsFiniteSet(t.active) /\ Cardinality(t.active) \in Nat /\ Len(t.picked) \in Nat
      /\ t.credit[s] \in Nat
  BY TallySizes DEF Tallies
<1>3. CASE (Len(t.picked) >= limit \/ t.credit[s] <= 0) /\ u = t
  <2>1. Weight(u) = Weight(t) /\ Weight(t) \in Int
    BY <1>3, TallySizes
  <2>2. ~ (Len(t.picked) < limit /\ t.credit[s] > 0)
    BY <1>2, <1>3
  <2>3. QED
    BY <2>1, <2>2 DEF u
<1>4. CASE Retires(t, s, u)
  <2>1. u.active = t.active \ {s} /\ u.picked = t.picked
    BY <1>4 DEF Retires
  <2>2. Cardinality(t.active \ {s}) = IF s \in t.active THEN Cardinality(t.active) - 1
          ELSE Cardinality(t.active)
    BY <1>2, FS_RemoveElement
  <2>3. QED
    BY <1>2, <2>1, <2>2 DEF Weight, u
<1>5. CASE t.left[s] # << >> /\ Picks(t, s, u)
  <2>1. t.left[s] \in Seq(Callers) /\ t.picked \in Seq(Callers)
    BY DEF Tallies
  <2>2. Head(t.left[s]) \in Callers
    BY <1>5, <2>1, TailOrder
  <2>3. Len(u.picked) = Len(t.picked) + 1 /\ u.active = t.active
    BY <1>5, <2>1, <2>2, AppendOrder DEF Picks
  <2>4. QED
    BY <1>2, <2>3 DEF Weight, u
<1>6. QED
  BY <1>1, <1>3, <1>4, <1>5

\* Somebody active has credit after the top-up.
LEMMA CreditGiven ==
  ASSUME NEW t \in Tallies, t.active # {}, NEW A
  PROVE  LET u == Credited(t, A)
         IN  u.picked = t.picked /\ u.active = t.active /\ \E s \in u.active : u.credit[s] > 0
<1>1. CASE \E s \in t.active : t.credit[s] > 0
  BY <1>1 DEF Credited
<1>2. CASE ~ \E s \in t.active : t.credit[s] > 0
  <2> DEFINE credit == [s \in Sessions |->
                 IF s \notin t.active THEN t.credit[s]
                 ELSE t.credit[s] + (IF HasAged(t.left[s], A) THEN AgingBoost ELSE Quantum)]
             u == Credited(t, A)
  <2>1. u = [t EXCEPT !.credit = credit]
    BY <1>2 DEF Credited
  <2>2. AgingBoost \in Nat \ {0} /\ Quantum \in Nat \ {0}
    BY FairnessAssumption
  <2>3. PICK s \in t.active : s \in Sessions /\ t.credit[s] \in Nat
    BY DEF Tallies
  <2>4. credit[s] > 0
    BY <2>2, <2>3
  <2> HIDE DEF credit
  <2>5. u.picked = t.picked /\ u.active = t.active /\ u.credit = credit
    BY <2>1 DEF Tallies
  <2>6. QED
    BY <2>4, <2>5
<1>3. QED
  BY <1>1, <1>2

\* Every round of a tier that is not done picks a request or retires a session.
LEMMA RoundProgress ==
  ASSUME NEW q \in Seq(Callers), NoDup(q), NEW limit \in Int,
         NEW t \in Tallies, Fair(q, limit, t), NEW A, ~ Done(t, limit)
  PROVE  Weight(Round(t, A, limit)) > Weight(t)
<1> DEFINE order == VisitOrder(t, A)
           n == Len(order)
           first == Credited(t, A)
           idle(i) == \A j \in 1..i : first.credit[order[j]] <= 0
<1>1. order \in Seq(t.active) /\ ToSet(order) = t.active
  BY VisitOrderLists
<1>2. t.active \subseteq Sessions /\ t.active # {} /\ Len(t.picked) < limit
  BY TallySizes DEF Tallies, Done
<1>3. /\ first.picked = t.picked /\ first.active = t.active
      /\ \E s \in first.active : first.credit[s] > 0
  BY <1>2, CreditGiven
<1>4. first \in Tallies
  BY CreditedFair
<1>5. PICK v : /\ Visiting(v, t, A, limit, n)
               /\ \A i \in 0..n : v[i] \in Tallies /\ Fair(q, limit, v[i])
  BY RoundVisits
<1>6. /\ v[0] = first /\ \A i \in 1..n : v[i] = Visit(v[i - 1], order[i], limit)
      /\ Round(t, A, limit) = v[n]
  BY <1>5 DEF Visiting
<1>7. n \in Nat /\ \A i \in 1..n : order[i] \in t.active
  <2> HIDE DEF order
  <2>1. QED
    BY <1>1
<1>8. Weight(first) = Weight(t) /\ Weight(t) \in Int
  BY <1>3, TallySizes DEF Weight
<1> HIDE DEF order, n, first
<1> DEFINE far(i) == {u \in Tallies : Weight(u) > Weight(t) \/ (u = first /\ idle(i))}
           D == [i \in 0..n |-> far(i)]
<1>9. ASSUME NEW i \in 1..n, v[i - 1] \in D[i - 1] PROVE v[i] \in D[i]
  <2> DEFINE u == v[i - 1]
             s == order[i]
  <2>1. i \in 0..n /\ i - 1 \in 0..n /\ i - 1 \in Nat
    BY <1>7
  <2>2. u \in Tallies /\ v[i] \in Tallies /\ s \in t.active /\ s \in Sessions
    BY <1>2, <1>5, <1>7, <2>1
  <2>3. v[i] = Visit(u, s, limit)
    BY <1>6
  <2>4. Weight(u) \in Int /\ Weight(v[i]) \in Int
    BY <2>2, TallySizes
  <2>5. Weight(u) > Weight(t) \/ (u = first /\ idle(i - 1))
    BY <1>9, <2>1
  <2>9. Weight(v[i]) > Weight(t) \/ (v[i] = first /\ idle(i)) => v[i] \in D[i]
    <3>1. D[i] = far(i)
      BY <2>1
    <3> HIDE DEF D, idle, u, s
    <3>2. v[i] \in far(i) <=> Weight(v[i]) > Weight(t) \/ (v[i] = first /\ idle(i))
      BY <2>2
    <3>3. QED
      BY <3>1, <3>2
  <2> HIDE DEF u, s, D, idle
  <2>6. CASE Weight(u) > Weight(t)
    <3>1. Weight(v[i]) > Weight(t)
      BY <1>8, <2>2, <2>3, <2>4, <2>6, VisitWeight
    <3>2. QED
      BY <2>9, <3>1
  <2>7. CASE u = first /\ idle(i - 1)
    <3>1. first.credit[s] \in Nat
      BY <1>4, <2>2 DEF Tallies
    <3>2. CASE first.credit[s] > 0
      <4>1. Weight(v[i]) > Weight(t)
        BY <1>2, <1>3, <1>8, <2>2, <2>3, <2>7, <3>2, VisitWeight
      <4>2. QED
        BY <2>9, <4>1
    <3>3. CASE first.credit[s] <= 0
      <4>1. v[i] = first
        BY <2>3, <2>7, <3>3 DEF Visit
      <4>2. idle(i)
        <5>1. \A j \in 1..i : j = i \/ j \in 1..(i - 1)
          BY <2>1
        <5>2. QED
          BY <2>7, <3>3, <5>1 DEF idle, s
      <4>3. QED
        BY <2>9, <4>1, <4>2
    <3>4. QED
      BY <3>1, <3>2, <3>3
  <2>8. QED
    BY <2>5, <2>6, <2>7
<1>10. v[0] \in D[0]
  <2>1. 0 \in 0..n /\ idle(0)
    BY <1>7
  <2>2. QED
    BY <1>4, <1>6, <2>1
<1>11. v[n] \in D[n] /\ n \in 0..n
  <2>1. n \in 0..n
    BY <1>7
  <2> HIDE DEF D
  <2>2. QED
    BY <1>7, <1>9, <1>10, <2>1, Induct
<1>12. ~ idle(n)
  <2>1. PICK s \in t.active : first.credit[s] > 0 /\ first.credit[s] \in Nat
    BY <1>2, <1>3, <1>4 DEF Tallies
  <2>2. PICK j \in 1..n : order[j] = s
    BY <1>1, Elements DEF n
  <2>3. ~ (first.credit[order[j]] <= 0)
    BY <2>1, <2>2
  <2>4. QED
    BY <2>3
<1>13. Weight(v[n]) > Weight(t)
  <2> HIDE DEF idle
  <2>1. QED
    BY <1>11, <1>12
<1>14. QED
  BY <1>6, <1>13

\* There are no more active sessions than requests.
LEMMA FewSessions ==
  ASSUME NEW q \in Seq(Callers), NEW A
  PROVE  Cardinality(StartTally(q, A).active) <= Len(q)
<1> DEFINE own == [i \in 1..Len(q) |-> SessionOf[q[i]]]
           active == StartTally(q, A).active
<1>1. SessionOf \in [Callers -> Nat]
  BY FairnessAssumption
<1>2. own \in Seq(Nat) /\ Len(own) = Len(q) /\ \A i \in 1..Len(q) : own[i] = SessionOf[q[i]]
  BY <1>1
<1> HIDE DEF own
<1>3. IsFiniteSet(ToSet(own)) /\ Cardinality(ToSet(own)) <= Len(q)
        /\ Cardinality(ToSet(own)) \in Nat
  BY <1>2, SeqSize
<1>4. active \subseteq ToSet(own)
  <2>1. active = {s \in Sessions : QueueOf(q, s) # << >>}
    BY DEF StartTally
  <2>2. ASSUME NEW s \in Sessions, QueueOf(q, s) # << >> PROVE s \in ToSet(own)
    <3>1. QueueOf(q, s) \in Seq(Callers)
            /\ ToSet(QueueOf(q, s)) = ToSet(q) \cap {c \in Callers : SessionOf[c] = s}
      BY OnlyKeeps DEF QueueOf
    <3>2. ToSet(QueueOf(q, s)) # {}
      BY <2>2, <3>1, Elements
    <3>3. PICK c \in ToSet(q) : SessionOf[c] = s
      BY <3>1, <3>2
    <3>4. PICK i \in 1..Len(q) : q[i] = c
      BY Elements
    <3>5. own[i] = s /\ i \in 1..Len(own)
      BY <1>2, <3>3, <3>4
    <3>6. QED
      BY <1>2, <3>5, Elements
  <2> HIDE DEF active
  <2>3. QED
    BY <2>1, <2>2
<1>5. Cardinality(active) <= Cardinality(ToSet(own)) /\ Cardinality(active) \in Nat
  <2> HIDE DEF active
  <2>1. QED
    BY <1>3, <1>4, FS_Subset, FS_CardinalityType
<1>6. QED
  <2> HIDE DEF active
  <2>1. Cardinality(active) <= Len(q)
    BY <1>3, <1>5
  <2>2. QED
    BY <2>1 DEF active

\* The rounds the model allows are enough: no slot stays empty while a request of
\* the tier waits.
LEMMA TierConserves ==
  ASSUME NEW q \in Seq(Callers), NoDup(q), NEW A, AgedInOrder(q, A), NEW limit \in Int
  PROVE  LET p == TierPicks(q, A, limit)
         IN  Len(p) >= limit \/ ToSet(p) = ToSet(q)
<1> DEFINE n == Len(q)
           m == n + n
<1>1. PICK a : /\ Turning(a, q, A, limit, m)
               /\ \A i \in 0..m : a[i] \in Tallies /\ Fair(q, limit, a[i])
  BY TierTurns
<1>2. n \in Nat /\ m \in Nat /\ m = n + n
  OBVIOUS
<1>3. IsFiniteSet(ToSet(q)) /\ Cardinality(ToSet(q)) = n
  BY SeqSize
<1>4. Cardinality(StartTally(q, A).active) <= n /\ Len(StartTally(q, A).picked) = 0
  BY FewSessions DEF StartTally
<1>5. /\ a[0] = StartTally(q, A) /\ \A i \in 1..m : a[i] = Turn(a[i - 1], A, limit)
      /\ TierPicks(q, A, limit) = a[m].picked
  BY <1>1 DEF Turning
<1> HIDE DEF m, n
<1> DEFINE far(i) == {u \in Tallies : Done(u, limit) \/ Weight(u) >= i - n}
           D == [i \in 0..m |-> far(i)]
<1>6. a[0] \in D[0]
  <2>1. 0 \in 0..m
    BY <1>2
  <2>2. a[0] \in Tallies
    BY <1>1, <2>1
  <2>3. Weight(a[0]) >= 0 - n
    BY <1>2, <1>4, <1>5, <2>2, TallySizes DEF Weight
  <2>4. QED
    BY <2>1, <2>2, <2>3
<1>7. ASSUME NEW i \in 1..m, a[i - 1] \in D[i - 1] PROVE a[i] \in D[i]
  <2> DEFINE u == a[i - 1]
             v == a[i]
  <2>1. i \in 0..m /\ i - 1 \in 0..m /\ i \in Nat
    BY <1>2
  <2>2. u \in Tallies /\ v \in Tallies /\ Fair(q, limit, u) /\ v = Turn(u, A, limit)
    BY <1>1, <1>5, <2>1
  <2>3. D[i] = far(i) /\ D[i - 1] = far(i - 1)
    BY <2>1
  <2>4. Done(u, limit) \/ Weight(u) >= (i - 1) - n
    <3>1. u \in far(i - 1)
      BY <1>7, <2>3
    <3>2. QED
      BY <3>1
  <2>5. Weight(u) \in Int /\ Weight(v) \in Int
    BY <2>2, TallySizes
  <2> HIDE DEF u, v, D
  <2>6. Done(v, limit) \/ Weight(v) >= i - n
    <3>1. CASE Done(u, limit)
      BY <2>2, <3>1 DEF Turn
    <3>2. CASE ~ Done(u, limit)
      <4>1. v = Round(u, A, limit)
        BY <2>2, <3>2 DEF Turn
      <4>2. Weight(v) > Weight(u)
        BY <2>2, <3>2, <4>1, RoundProgress
      <4>3. QED
        BY <1>2, <2>1, <2>4, <2>5, <3>2, <4>2
    <3>3. QED
      BY <3>1, <3>2
  <2>7. v \in far(i)
    BY <2>2, <2>6
  <2> HIDE DEF far
  <2>8. QED
    BY <2>3, <2>7 DEF v
<1>8. m \in 0..m
  BY <1>2
<1>9. a[m] \in far(m)
  <2>1. D[m] = far(m)
    BY <1>8
  <2> HIDE DEF D, far
  <2>2. \A i \in 1..m : a[i - 1] \in D[i - 1] => a[i] \in D[i]
    BY <1>7
  <2>3. \A i \in 0..m : a[i] \in D[i]
    BY <1>2, <1>6, <2>2, Induct
  <2>4. QED
    BY <1>8, <2>1, <2>3
<1> HIDE DEF D
<1> DEFINE t == a[m]
<1>10. t \in Tallies /\ Fair(q, limit, t) /\ (Done(t, limit) \/ Weight(t) >= n)
  BY <1>1, <1>2, <1>8, <1>9
<1>11. TierPicks(q, A, limit) = t.picked
  BY <1>5
<1> HIDE DEF t, far
<1>12. t.picked \in Seq(Callers) /\ NoDup(t.picked) /\ ToSet(t.picked) \subseteq ToSet(q)
  <2>1. t.picked \in Seq(Callers) /\ NoDup(t.picked)
    BY <1>10 DEF Fair, Tallies
  <2>2. ToSet(t.picked) \subseteq Callers
    BY <2>1, Elements
  <2>3. QED
    BY <1>10, <2>1, <2>2 DEF Fair
<1>13. Done(t, limit)
  <2>1. Len(t.picked) <= n
    <3>1. Cardinality(ToSet(t.picked)) = Len(t.picked)
      BY <1>12, SeqSize
    <3>2. QED
      BY <1>3, <1>12, <3>1, FS_Subset
  <2>2. IsFiniteSet(t.active) /\ Cardinality(t.active) \in Nat /\ Len(t.picked) \in Nat
    BY <1>10, TallySizes
  <2>3. CASE Weight(t) >= n
    <3>1. Cardinality(t.active) = 0
      BY <1>2, <2>1, <2>2, <2>3 DEF Weight
    <3>2. t.active = {}
      BY <2>2, <3>1, FS_EmptySet
    <3>3. QED
      BY <3>2 DEF Done
  <2>4. QED
    BY <1>10, <2>3
<1>14. CASE t.active = {}
  <2>1. \A s \in Sessions : t.left[s] = << >>
    BY <1>10, <1>14 DEF Fair
  <2>2. ToSet(<< >>) = {}
    BY DEF ToSet
  <2>3. \A c \in Callers : c \in ToSet(q) => c \in ToSet(t.picked)
    BY <1>10, <2>1, <2>2, SessionsFinite DEF Fair
  <2>4. ToSet(q) \subseteq Callers
    BY Elements
  <2>5. QED
    BY <1>11, <1>12, <2>3, <2>4
<1>15. QED
  BY <1>11, <1>13, <1>14 DEF Done

(***************************************************************************)
(* Selection: the reserve, the tiers, and what is chosen of all.           *)
(***************************************************************************)
\* The requests of p are the first of their queues in q, in order.
FirstOfQueues(q, p) ==
  \A c, d : Before(q, c, d) /\ SameQueue(c, d) /\ d \in ToSet(p)
              => c \in ToSet(p) /\ Before(p, c, d)

\* The slot in reserve goes to the request that has waited longest of the aged NORMAL ones.
LEMMA ReserveIsOldest ==
  ASSUME NEW q \in Seq(Callers), NoDup(q), NEW A, AgedInOrder(q, A)
  PROVE  LET r == Reserve(q, A)
         IN  /\ r \in Seq(Callers) /\ NoDup(r) /\ Len(r) \in Nat /\ Len(r) <= 1
             /\ ToSet(r) \subseteq (ToSet(q) \cap A) \ High
             /\ \A c, d : Before(q, c, d) /\ SameQueue(c, d) => d \notin ToSet(r)
             /\ \A c \in (ToSet(q) \cap A) \ High :
                  \E d \in ToSet(r) : d = c \/ Before(q, d, c)
<1> DEFINE old == Only(q, A \ High)
           r == Reserve(q, A)
<1>1. /\ old \in Seq(Callers) /\ NoDup(old) /\ ToSet(old) = ToSet(q) \cap (A \ High)
      /\ \A c, d : Before(old, c, d) <=> Before(q, c, d) /\ c \in A \ High /\ d \in A \ High
  BY OnlyKeeps
<1>2. r = SubSeq(old, 1, IF old = << >> THEN 0 ELSE 1)
  BY DEF Reserve
<1> HIDE DEF old, r
<1>3. CASE old = << >>
  <2>1. r = << >> /\ ToSet(<< >>) = {}
    BY <1>2, <1>3 DEF ToSet
  <2>2. NoDup(<< >>)
    BY DEF NoDup
  <2>3. (ToSet(q) \cap A) \ High = {}
    BY <1>1, <1>3, <2>1
  <2>4. QED
    BY <2>1, <2>2, <2>3 DEF r
<1>4. CASE old # << >>
  <2>1. Len(old) \in Nat \ {0} /\ 1 \in 1..Len(old)
    BY <1>1, <1>4
  <2>2. r \in Seq(Callers) /\ Len(r) = 1 /\ r[1] = old[1]
    <3>1. r = SubSeq(old, 1, 1)
      BY <1>2, <1>4
    <3>2. QED
      BY <1>1, <2>1, <3>1, SubSeqProperties
  <2>3. old[1] \in ToSet(old) /\ old[1] \in Callers
    BY <1>1, <2>1, Elements
  <2>4. r \in Seq(Callers) /\ Len(r) = 1 /\ NoDup(r)
    BY <2>2 DEF NoDup
  <2>5. ToSet(r) = {old[1]}
    <3>1. ToSet(r) = {r[i] : i \in 1..1}
      BY <2>4, Elements
    <3>2. 1..1 = {1}
      OBVIOUS
    <3>3. QED
      BY <2>2, <3>1, <3>2
  <2>6. ASSUME NEW c, Before(old, c, old[1]) PROVE FALSE
    BY <1>1, <2>1, <2>6 DEF Before, NoDup
  <2>7. ASSUME NEW c, NEW d, Before(q, c, d), SameQueue(c, d), d \in ToSet(r) PROVE FALSE
    <3>1. d = old[1] /\ d \in A /\ d \notin High
      BY <1>1, <2>3, <2>5, <2>7
    <3>2. c \in A /\ c \notin High
      BY <2>7, <3>1 DEF AgedInOrder, SameQueue
    <3>3. Before(old, c, d)
      BY <1>1, <2>7, <3>1, <3>2
    <3>4. QED
      BY <2>6, <3>1, <3>3
  <2>8. ASSUME NEW c \in (ToSet(q) \cap A) \ High PROVE old[1] = c \/ Before(q, old[1], c)
    <3>1. c \in ToSet(old)
      BY <1>1
    <3>2. CASE c # old[1]
      <4>1. Before(old, old[1], c)
        BY <1>1, <2>3, <2>6, <3>1, <3>2, Comparable
      <4>2. QED
        BY <1>1, <4>1
    <3>3. QED
      BY <3>2
  <2>9. ToSet(r) \subseteq (ToSet(q) \cap A) \ High
    BY <1>1, <2>3, <2>5
  <2>10. \A c \in (ToSet(q) \cap A) \ High : \E d \in ToSet(r) : d = c \/ Before(q, d, c)
    BY <2>5, <2>8
  <2>11. QED
    BY <2>4, <2>7, <2>9, <2>10 DEF r
<1>5. QED
  BY <1>3, <1>4

\* c comes first in p.
LeadsIn(p, c) == c \in ToSet(p) /\ \A d \in ToSet(p) : d = c \/ Before(p, c, d)

\* What the selection promises, for any population, policy and number of slots.
Selected(q, A, limit, p) ==
  /\ p \in Seq(Callers) /\ NoDup(p) /\ ToSet(p) \subseteq ToSet(q) /\ Len(p) <= limit
  /\ FirstOfQueues(q, p)
  /\ Len(p) = limit \/ ToSet(p) = ToSet(q)
  /\ \A c \in (ToSet(q) \cap A) \ High : \E d \in ToSet(p) :
       d \notin High /\ (d = c \/ Before(q, d, c))
  /\ \A c \in (ToSet(q) \cap A) \ High :
       LeadsIn(p, c) \/ \E d \in ToSet(p) : d \notin High /\ Before(q, d, c)

\* Selection keeps its contract.
LEMMA SelectFair ==
  ASSUME NEW q \in Seq(Callers), NoDup(q), NEW A, AgedInOrder(q, A), NEW limit \in Nat \ {0}
  PROVE  Selected(q, A, limit, Select(q, A, limit))
<1> DEFINE r == Reserve(q, A)
           rest == Snapshot(q, r)
           H == Only(rest, High)
           N == Without(rest, High)
           high == TierPicks(H, A, limit - Len(r))
           normal == TierPicks(N, A, limit - Len(r) - Len(high))
           p == Select(q, A, limit)
<1>1. /\ r \in Seq(Callers) /\ NoDup(r) /\ Len(r) \in Nat /\ Len(r) <= 1
      /\ ToSet(r) \subseteq (ToSet(q) \cap A) \ High
      /\ \A c, d : Before(q, c, d) /\ SameQueue(c, d) => d \notin ToSet(r)
      /\ \A c \in (ToSet(q) \cap A) \ High : \E d \in ToSet(r) : d = c \/ Before(q, d, c)
  BY ReserveIsOldest
<1>2. p = r \o high \o normal
  BY DEF Select
<1> HIDE DEF r
<1>3. /\ rest \in Seq(Callers) /\ NoDup(rest) /\ ToSet(rest) = ToSet(q) \ ToSet(r)
      /\ \A c, d : Before(rest, c, d) <=> Before(q, c, d) /\ c \notin ToSet(r) /\ d \notin ToSet(r)
  BY WithoutKeeps DEF Snapshot
<1> HIDE DEF rest
<1>4. /\ H \in Seq(Callers) /\ NoDup(H) /\ ToSet(H) = ToSet(rest) \cap High
      /\ \A c, d : Before(H, c, d) <=> Before(rest, c, d) /\ c \in High /\ d \in High
  BY <1>3, OnlyKeeps
<1>5. /\ N \in Seq(Callers) /\ NoDup(N) /\ ToSet(N) = ToSet(rest) \ High
      /\ \A c, d : Before(N, c, d) <=> Before(rest, c, d) /\ c \notin High /\ d \notin High
  BY <1>3, WithoutKeeps
<1> HIDE DEF H, N
<1>6. AgedInOrder(H, A) /\ AgedInOrder(N, A)
  BY <1>3, <1>4, <1>5 DEF AgedInOrder
<1> DEFINE hlimit == limit - Len(r)
<1>7. hlimit \in Nat /\ high = TierPicks(H, A, hlimit)
  BY <1>1
<1> HIDE DEF high
<1>8. /\ high \in Seq(Callers) /\ NoDup(high) /\ ToSet(high) \subseteq ToSet(H)
      /\ Len(high) <= hlimit /\ Len(high) \in Nat
      /\ PicksInOrder(H, high) /\ (Len(high) >= hlimit \/ ToSet(high) = ToSet(H))
  <2> HIDE DEF hlimit
  <2>1. /\ high \in Seq(Callers) /\ NoDup(high) /\ ToSet(high) \subseteq ToSet(H)
        /\ Len(high) <= hlimit \/ high = << >>
        /\ PicksInOrder(H, high) /\ (Len(high) >= hlimit \/ ToSet(high) = ToSet(H))
    BY <1>4, <1>6, <1>7, TierPicksFair, TierConserves
  <2>2. QED
    BY <1>7, <2>1
<1> DEFINE nlimit == hlimit - Len(high)
<1>9. nlimit \in Nat /\ normal = TierPicks(N, A, nlimit)
  BY <1>1, <1>7, <1>8
<1> HIDE DEF normal
<1>10. /\ normal \in Seq(Callers) /\ NoDup(normal) /\ ToSet(normal) \subseteq ToSet(N)
       /\ Len(normal) <= nlimit /\ Len(normal) \in Nat
       /\ PicksInOrder(N, normal) /\ (Len(normal) >= nlimit \/ ToSet(normal) = ToSet(N))
  <2> HIDE DEF nlimit
  <2>1. /\ normal \in Seq(Callers) /\ NoDup(normal) /\ ToSet(normal) \subseteq ToSet(N)
        /\ Len(normal) <= nlimit \/ normal = << >>
        /\ PicksInOrder(N, normal) /\ (Len(normal) >= nlimit \/ ToSet(normal) = ToSet(N))
    BY <1>5, <1>6, <1>9, TierPicksFair, TierConserves
  <2>2. QED
    BY <1>9, <2>1
<1> DEFINE rh == r \o high
<1>11. /\ rh \in Seq(Callers) /\ Len(rh) = Len(r) + Len(high)
       /\ ToSet(rh) = ToSet(r) \cup ToSet(high) /\ NoDup(rh)
       /\ \A c, d : Before(rh, c, d) <=>
            Before(r, c, d) \/ Before(high, c, d) \/ (c \in ToSet(r) /\ d \in ToSet(high))
  <2>1. ToSet(r) \cap ToSet(high) = {}
    BY <1>1, <1>4, <1>8
  <2>2. /\ r \o high \in Seq(Callers) /\ Len(r \o high) = Len(r) + Len(high)
        /\ ToSet(r \o high) = ToSet(r) \cup ToSet(high)
        /\ NoDup(r) /\ NoDup(high) /\ ToSet(r) \cap ToSet(high) = {} => NoDup(r \o high)
        /\ \A c, d : Before(r \o high, c, d) <=>
            Before(r, c, d) \/ Before(high, c, d) \/ (c \in ToSet(r) /\ d \in ToSet(high))
    BY <1>1, <1>8, ConcatOrder
  <2>3. QED
    BY <1>1, <1>8, <2>1, <2>2
<1>12. p = rh \o normal
  BY <1>2
<1> HIDE DEF rh, p
<1>13. /\ p \in Seq(Callers) /\ Len(p) = Len(rh) + Len(normal)
       /\ ToSet(p) = ToSet(rh) \cup ToSet(normal) /\ NoDup(p)
       /\ \A c, d : Before(p, c, d) <=>
            Before(rh, c, d) \/ Before(normal, c, d) \/ (c \in ToSet(rh) /\ d \in ToSet(normal))
  <2>1. ToSet(rh) \cap ToSet(normal) = {}
    BY <1>3, <1>4, <1>5, <1>8, <1>10, <1>11
  <2>2. /\ rh \o normal \in Seq(Callers) /\ Len(rh \o normal) = Len(rh) + Len(normal)
        /\ ToSet(rh \o normal) = ToSet(rh) \cup ToSet(normal)
        /\ NoDup(rh) /\ NoDup(normal) /\ ToSet(rh) \cap ToSet(normal) = {} => NoDup(rh \o normal)
        /\ \A c, d : Before(rh \o normal, c, d) <=>
            Before(rh, c, d) \/ Before(normal, c, d) \/ (c \in ToSet(rh) /\ d \in ToSet(normal))
    BY <1>10, <1>11, ConcatOrder
  <2>3. QED
    BY <1>10, <1>11, <1>12, <2>1, <2>2
<1>14. ToSet(p) \subseteq ToSet(q)
  BY <1>1, <1>3, <1>4, <1>5, <1>8, <1>10, <1>11, <1>13
<1>15. Len(p) <= limit /\ (Len(p) = limit \/ ToSet(p) = ToSet(q))
  <2>1. Len(p) = Len(r) + Len(high) + Len(normal) /\ hlimit = limit - Len(r)
          /\ nlimit = hlimit - Len(high)
    BY <1>11, <1>13
  <2>2. Len(p) <= limit
    BY <1>1, <1>8, <1>10, <2>1
  <2>3. Len(high) >= hlimit \/ Len(normal) >= nlimit => Len(p) = limit
    <3>1. /\ hlimit \in Nat /\ nlimit \in Nat /\ Len(normal) <= nlimit /\ Len(high) <= hlimit
          /\ Len(r) \in Nat /\ Len(high) \in Nat /\ Len(normal) \in Nat /\ limit \in Nat
      BY <1>1, <1>7, <1>8, <1>9, <1>10
    <3> HIDE DEF hlimit, nlimit
    <3>2. Len(high) >= hlimit => Len(p) = limit
      BY <2>1, <3>1
    <3>3. Len(normal) >= nlimit => Len(p) = limit
      BY <2>1, <3>1
    <3>4. QED
      BY <3>2, <3>3
  <2>4. ToSet(high) = ToSet(H) /\ ToSet(normal) = ToSet(N) => ToSet(p) = ToSet(q)
    BY <1>1, <1>3, <1>4, <1>5, <1>11, <1>13
  <2>5. QED
    BY <1>8, <1>10, <2>2, <2>3, <2>4
<1>16. ASSUME NEW c, NEW d, Before(q, c, d), SameQueue(c, d), d \in ToSet(p)
       PROVE  c \in ToSet(p) /\ Before(p, c, d)
  <2>1. d \notin ToSet(r) /\ SessionOf[c] = SessionOf[d] /\ (c \in High <=> d \in High)
    BY <1>1, <1>16 DEF SameQueue
  <2>2. c \in ToSet(q)
    BY <1>16, InQueue
  <2>3. CASE d \in ToSet(high)
    <3>1. d \in High /\ c \in High /\ c \notin ToSet(r)
      BY <1>1, <1>4, <1>8, <2>1, <2>3
    <3>2. Before(H, c, d)
      BY <1>3, <1>4, <1>16, <2>1, <3>1
    <3>3. c \in ToSet(high) /\ Before(high, c, d)
      BY <1>8, <2>1, <2>3, <3>2 DEF PicksInOrder
    <3>4. QED
      BY <1>11, <1>13, <3>3
  <2>4. CASE d \in ToSet(normal)
    <3>1. d \notin High /\ c \notin High
      BY <1>5, <1>10, <2>1, <2>4
    <3>2. CASE c \in ToSet(r)
      BY <1>11, <1>13, <2>4, <3>2
    <3>3. CASE c \notin ToSet(r)
      <4>1. Before(N, c, d)
        BY <1>3, <1>5, <1>16, <2>1, <3>1, <3>3
      <4>2. c \in ToSet(normal) /\ Before(normal, c, d)
        BY <1>10, <2>1, <2>4, <4>1 DEF PicksInOrder
      <4>3. QED
        BY <1>13, <4>2
    <3>4. QED
      BY <3>2, <3>3
  <2>5. QED
    BY <1>11, <1>13, <1>16, <2>1, <2>3, <2>4
<1>17. ASSUME NEW c \in (ToSet(q) \cap A) \ High
       PROVE  \E d \in ToSet(p) : d \notin High /\ (d = c \/ Before(q, d, c))
  BY <1>1, <1>11, <1>13
<1>18. ASSUME NEW c \in ToSet(r) PROVE LeadsIn(p, c)
  <2>1. c \in ToSet(p)
    BY <1>11, <1>13, <1>18
  <2>2. \A d \in ToSet(r) : d = c
    <3>1. ToSet(r) = {r[i] : i \in 1..Len(r)}
      BY <1>1, Elements
    <3>2. \A i \in 1..Len(r) : i = 1
      BY <1>1
    <3>3. QED
      BY <1>18, <3>1, <3>2
  <2>3. \A d \in ToSet(p) : d = c \/ Before(p, c, d)
    BY <1>11, <1>13, <1>18, <2>2
  <2>4. QED
    BY <2>1, <2>3 DEF LeadsIn
<1>19. ASSUME NEW c \in (ToSet(q) \cap A) \ High
       PROVE  LeadsIn(p, c) \/ \E d \in ToSet(p) : d \notin High /\ Before(q, d, c)
  <2>1. PICK d \in ToSet(r) : d = c \/ Before(q, d, c)
    BY <1>1
  <2>2. d \in ToSet(p) /\ d \notin High
    BY <1>1, <1>11, <1>13
  <2>3. QED
    BY <1>18, <2>1, <2>2
<1>20. QED
  BY <1>13, <1>14, <1>15, <1>16, <1>17, <1>19 DEF Selected, FirstOfQueues, p

(***************************************************************************)
(* Batches of a round.                                                     *)
(***************************************************************************)
\* The batches of a round: one per key, each in the order of the candidates q.
GroupsOf(q, G) ==
  /\ G \in Seq(Seq(Callers))
  /\ \A i \in DOMAIN G :
       /\ NoDup(G[i]) /\ ToSet(G[i]) \subseteq ToSet(q) /\ Len(G[i]) <= Len(q)
       /\ \A c, d : Before(G[i], c, d) => Before(q, c, d)
  /\ \A i, j \in DOMAIN G : \A c \in ToSet(G[i]), d \in ToSet(G[j]) : KeyOf[c] = KeyOf[d] <=> i = j
  /\ \A c \in ToSet(q) : \E i \in DOMAIN G : c \in ToSet(G[i])

\* No batch is empty, and the first candidate, if urgent, is in the first batch.
HurriedFirst(q, urgent, G) ==
  /\ \A i \in DOMAIN G : G[i] # << >>
  /\ \A c \in urgent : LeadsIn(q, c) => G # << >> /\ c \in ToSet(G[1])

\* Where the first request of a key is.
Position(q, k) == SelectInSeq(q, LAMBDA c : KeyOf[c] = k)

LEMMA FirstPosition ==
  ASSUME NEW q \in Seq(Callers), NEW k, NEW c \in ToSet(q), KeyOf[c] = k
  PROVE  /\ Position(q, k) \in 1..Len(q) /\ KeyOf[q[Position(q, k)]] = k
         /\ \A i \in 1..Len(q) : KeyOf[q[i]] = k => Position(q, k) <= i
<1> DEFINE I == {i \in 1..Len(q) : KeyOf[q[i]] = k}
           n == Position(q, k)
<1>1. n = IF I # {} THEN Min(I) ELSE 0
  BY DEF Position, SelectInSeq
<1>2. I # {}
  BY Elements
<1>3. I \subseteq Nat
  OBVIOUS
<1> HIDE DEF I, n
<1>4. \E x \in I : \A y \in I : x <= y
  BY <1>2, <1>3, Least
<1>5. Min(I) \in I
  BY <1>4 DEF Min
<1>6. n \in I /\ \A y \in I : n <= y
  BY <1>1, <1>2, <1>4, <1>5 DEF Min
<1>7. QED
  BY <1>6 DEF I, n

\* Who comes first has the first position.
LEMMA LeaderIsFirst ==
  ASSUME NEW T, NEW q \in Seq(T), NoDup(q), NEW c, LeadsIn(q, c)
  PROVE  1 \in 1..Len(q) /\ q[1] = c
<1>1. PICK i \in 1..Len(q) : q[i] = c
  BY Elements DEF LeadsIn
<1>2. Len(q) \in Nat /\ 1 \in 1..Len(q) /\ q[1] \in ToSet(q)
  BY Elements
<1>3. ASSUME q[1] # c PROVE FALSE
  <2>1. PICK m \in 1..Len(q), n \in 1..Len(q) : m < n /\ q[m] = c /\ q[n] = q[1]
    BY <1>2, <1>3 DEF LeadsIn, Before
  <2>2. n = 1
    BY <1>2, <2>1 DEF NoDup
  <2>3. QED
    BY <2>1, <2>2
<1>4. QED
  BY <1>2, <1>3

\* Grouped keeps it.
LEMMA GroupedByKey ==
  ASSUME NEW q \in Seq(Callers), NoDup(q), NEW urgent
  PROVE  GroupsOf(q, Grouped(q, urgent)) /\ HurriedFirst(q, urgent, Grouped(q, urgent))
<1> DEFINE keys == {KeyOf[c] : c \in ToSet(q)}
           mine(k) == {c \in Callers : KeyOf[c] = k}
           group(k) == Only(q, mine(k))
           hurried(k) == \E c \in urgent : KeyOf[c] = k
           position(k) == SelectInSeq(q, LAMBDA c : KeyOf[c] = k)
           before(k, l) ==
             IF hurried(k) # hurried(l) THEN hurried(k)
             ELSE IF ~hurried(k) /\ Len(group(k)) # Len(group(l)) THEN Len(group(k)) > Len(group(l))
             ELSE position(k) < position(l)
           R == {p \in keys \X keys : before(p[1], p[2])}
           order == InOrder(keys, R)
           G == Grouped(q, urgent)
           hot == {k \in keys : hurried(k)}
<1>1. G = [i \in DOMAIN order |-> group(order[i])]
  BY DEF Grouped
<1>2. ASSUME NEW k
      PROVE  /\ group(k) \in Seq(Callers) /\ Len(group(k)) \in Nat /\ Len(group(k)) <= Len(q)
             /\ ToSet(group(k)) = ToSet(q) \cap mine(k) /\ NoDup(group(k))
             /\ \A c, d : Before(group(k), c, d) => Before(q, c, d)
  BY OnlyKeeps
<1>3. ASSUME NEW k \in keys PROVE position(k) \in Nat /\ KeyOf[q[position(k)]] = k
  <2>1. position(k) = Position(q, k)
    BY DEF Position
  <2>2. PICK c \in ToSet(q) : KeyOf[c] = k
    OBVIOUS
  <2>3. Position(q, k) \in 1..Len(q) /\ KeyOf[q[Position(q, k)]] = k
    BY <2>2, FirstPosition
  <2> HIDE DEF position
  <2>4. QED
    BY <2>1, <2>3
<1>4. ASSUME NEW k \in keys, NEW l \in keys
      PROVE  <<k, l>> \in R <=>
               IF ~ (k \in hot <=> l \in hot) THEN k \in hot
               ELSE IF k \notin hot /\ Len(group(k)) # Len(group(l))
                THEN Len(group(k)) > Len(group(l))
               ELSE position(k) < position(l)
  <2>1. hurried(k) \in BOOLEAN /\ hurried(l) \in BOOLEAN
    OBVIOUS
  <2>2. (hurried(k) <=> k \in hot) /\ (hurried(l) <=> l \in hot)
    OBVIOUS
  <2>3. <<k, l>> \in R <=> before(k, l)
    <3> HIDE DEF before
    <3>1. QED
      OBVIOUS
  <2> HIDE DEF R, hurried, hot, group, position
  <2>4. QED
    BY <2>1, <2>2, <2>3
<1> HIDE DEF R, hurried, hot, position, G
<1>5. IsFiniteSet(keys)
  <2>1. IsFiniteSet(ToSet(q))
    BY SeqSize
  <2> DEFINE f == [c \in ToSet(q) |-> KeyOf[c]]
  <2>2. f \in Surjection(ToSet(q), keys)
    BY DEF Surjection
  <2> HIDE DEF f, keys
  <2>3. QED
    BY <2>1, <2>2, FS_Surjection
<1>6. TotalOrder(R, keys)
  <2> DEFINE size(k) == Len(group(k))
  <2> SUFFICES ASSUME NEW x \in keys, NEW y \in keys, NEW z \in keys
               PROVE  /\ <<x, x>> \notin R
                      /\ <<x, y>> \in R /\ <<y, z>> \in R => <<x, z>> \in R
                      /\ x # y => <<x, y>> \in R \/ <<y, x>> \in R
    BY DEF TotalOrder
  <2>1. size(x) \in Nat /\ size(y) \in Nat /\ size(z) \in Nat
    BY <1>2
  <2>2. /\ position(x) \in Nat /\ position(y) \in Nat /\ position(z) \in Nat
        /\ x # y => position(x) # position(y)
    BY <1>3
  <2>3. /\ <<x, x>> \in R <=> IF ~ (x \in hot <=> x \in hot) THEN x \in hot
               ELSE IF x \notin hot /\ size(x) # size(x) THEN size(x) > size(x)
                 ELSE position(x) < position(x)
        /\ <<x, y>> \in R <=> IF ~ (x \in hot <=> y \in hot) THEN x \in hot
               ELSE IF x \notin hot /\ size(x) # size(y) THEN size(x) > size(y)
                 ELSE position(x) < position(y)
        /\ <<y, z>> \in R <=> IF ~ (y \in hot <=> z \in hot) THEN y \in hot
               ELSE IF y \notin hot /\ size(y) # size(z) THEN size(y) > size(z)
                 ELSE position(y) < position(z)
        /\ <<x, z>> \in R <=> IF ~ (x \in hot <=> z \in hot) THEN x \in hot
               ELSE IF x \notin hot /\ size(x) # size(z) THEN size(x) > size(z)
                 ELSE position(x) < position(z)
        /\ <<y, x>> \in R <=> IF ~ (y \in hot <=> x \in hot) THEN y \in hot
               ELSE IF y \notin hot /\ size(y) # size(x) THEN size(y) > size(x)
                 ELSE position(y) < position(x)
    BY <1>4
  <2> HIDE DEF size
  <2>4. QED
    BY <2>1, <2>2, <2>3
<1>7. order \in Seq(keys) /\ NoDup(order) /\ ToSet(order) = keys
  <2> HIDE DEF keys
  <2>1. QED
    BY <1>5, <1>6, InOrderLists
<1> HIDE DEF order, group
<1>8. /\ DOMAIN order = 1..Len(order) /\ Len(order) \in Nat
      /\ \A i \in 1..Len(order) : order[i] \in keys
  <2> HIDE DEF keys
  <2>1. QED
    BY <1>7
<1>9. G \in Seq(Seq(Callers)) /\ DOMAIN G = 1..Len(order)
        /\ \A i \in DOMAIN G : G[i] = group(order[i])
  BY <1>1, <1>2, <1>8
<1>10. \A i \in DOMAIN G : \A c \in ToSet(G[i]) : KeyOf[c] = order[i] /\ c \in ToSet(q)
  BY <1>2, <1>9
<1>11. \A i, j \in DOMAIN G : \A c \in ToSet(G[i]), d \in ToSet(G[j]) :
         KeyOf[c] = KeyOf[d] <=> i = j
  BY <1>7, <1>9, <1>10 DEF NoDup
<1>12. ASSUME NEW c \in ToSet(q) PROVE \E i \in DOMAIN G : c \in ToSet(G[i])
  <2>1. KeyOf[c] \in keys /\ c \in Callers
    BY Elements
  <2>2. PICK i \in 1..Len(order) : order[i] = KeyOf[c]
    <3> HIDE DEF keys
    <3>1. ToSet(order) = {order[i] : i \in 1..Len(order)}
      BY <1>7, Elements
    <3>2. QED
      BY <1>7, <2>1, <3>1
  <2>3. c \in ToSet(group(KeyOf[c]))
    BY <1>2, <2>1
  <2>4. QED
    BY <1>9, <2>2, <2>3
<1>13. \A i \in DOMAIN G :
       /\ NoDup(G[i]) /\ ToSet(G[i]) \subseteq ToSet(q) /\ Len(G[i]) <= Len(q)
       /\ \A c, d : Before(G[i], c, d) => Before(q, c, d)
  BY <1>2, <1>9
<1>14. ASSUME NEW i \in DOMAIN G PROVE G[i] # << >>
  <2>1. order[i] \in keys /\ G[i] = group(order[i])
    BY <1>8, <1>9
  <2>2. PICK c \in ToSet(q) : KeyOf[c] = order[i]
    BY <2>1
  <2>3. c \in ToSet(G[i])
    <3>1. c \in Callers
      BY Elements
    <3>2. QED
      BY <1>2, <2>1, <2>2, <3>1
  <2>4. ToSet(<< >>) = {}
    BY DEF ToSet
  <2>5. QED
    BY <2>3, <2>4
<1>15. ASSUME NEW c \in urgent, LeadsIn(q, c) PROVE G # << >> /\ c \in ToSet(G[1])
  <2> DEFINE k == KeyOf[c]
  <2>1. c \in ToSet(q) /\ c \in Callers /\ 1 \in 1..Len(q) /\ q[1] = c
    BY <1>15, LeaderIsFirst, Elements DEF LeadsIn
  <2>2. k \in keys /\ k \in hot
    BY <2>1 DEF hot, hurried
  <2>3. Position(q, k) \in 1..Len(q) /\ Position(q, k) <= 1
    <3> HIDE DEF k
    <3>1. KeyOf[c] = k
      BY DEF k
    <3>2. /\ Position(q, k) \in 1..Len(q)
          /\ \A i \in 1..Len(q) : KeyOf[q[i]] = k => Position(q, k) <= i
      BY <2>1, <3>1, FirstPosition
    <3>3. QED
      BY <2>1, <3>1, <3>2
  <2>4. position(k) = 1
    BY <2>3 DEF Position, position
  <2>5. ASSUME NEW l \in keys PROVE position(l) >= 1
    <3>1. PICK d \in ToSet(q) : KeyOf[d] = l
      OBVIOUS
    <3>2. Position(q, l) \in 1..Len(q)
      BY <3>1, FirstPosition
    <3>3. QED
      BY <3>2 DEF Position, position
  <2> HIDE DEF k, keys
  <2>6. ASSUME NEW l \in keys PROVE <<l, k>> \notin R
    <3>1. <<l, k>> \in R <=>
               IF ~ (l \in hot <=> k \in hot) THEN l \in hot
               ELSE IF l \notin hot /\ Len(group(l)) # Len(group(k))
                THEN Len(group(l)) > Len(group(k))
               ELSE position(l) < position(k)
      BY <1>4, <2>2
    <3>2. position(l) \in Nat /\ position(l) >= 1
      BY <1>3, <2>5
    <3>3. ~ (position(l) < position(k))
      BY <2>4, <3>2
    <3>4. QED
      BY <2>2, <3>1, <3>3
  <2>7. Len(order) >= 1 /\ order[1] = k
    BY <1>5, <1>6, <2>2, <2>6, InOrderFirst DEF order
  <2>8. 1 \in DOMAIN G /\ G[1] = group(k)
    BY <1>8, <1>9, <2>7
  <2>9. c \in ToSet(group(k))
    BY <1>2, <2>1 DEF k
  <2>10. QED
    BY <2>8, <2>9
<1>16. QED
  BY <1>9, <1>11, <1>12, <1>13, <1>14, <1>15 DEF GroupsOf, HurriedFirst, G

(***************************************************************************)
(* Admission accounting.                                                   *)
(***************************************************************************)
\* The types the accounting needs.
Held ==
  /\ accepted \subseteq Callers
  /\ sessionPending = [s \in Sessions |-> sessionPending[s]]

\* The inductive invariant of the accounting.
IInv == Held /\ CountersAreExact

LEMMA Counting ==
  ASSUME NEW S, S \subseteq Callers
  PROVE  IsFiniteSet(S) /\ Cardinality(S) \in Nat
<1>1. IsFiniteSet(Callers)
  BY SchedulerAssumption
<1>2. QED
  BY <1>1, FS_Subset, FS_CardinalityType

\* Taking a part of a set out of it takes as many out of its count.
LEMMA Remaining ==
  ASSUME NEW S, NEW T, S \subseteq Callers, T \subseteq S
  PROVE  /\ Cardinality(S \ T) = Cardinality(S) - Cardinality(T)
         /\ Cardinality(S) \in Nat /\ Cardinality(T) \in Nat /\ Cardinality(S \ T) \in Nat
<1>1. S \cap T = T
  OBVIOUS
<1>2. Cardinality(S \ T) = Cardinality(S) - Cardinality(S \cap T)
  BY Counting, FS_Difference
<1>3. T \subseteq Callers /\ S \ T \subseteq Callers
  OBVIOUS
<1>4. QED
  BY <1>1, <1>2, <1>3, Counting

LEMMA LimitsAreNumbers == GlobalLimit \in Nat /\ SessionLimit \in Nat
                          /\ GlobalLimit > 0 /\ SessionLimit > 0
<1>1. GlobalLimit \in Nat \ {0} /\ SessionLimit \in Nat \ {0}
  BY SchedulerAssumption
<1>2. QED
  BY <1>1

\* However capacity is released.
LEMMA Releasing ==
  ASSUME IInv, NEW S, Release(S)
  PROVE  IInv'
<1> DEFINE held == S \cap accepted
           heldOf(s) == {c \in held : SessionOf[c] = s}
<1>1. /\ accepted' = accepted \ held /\ globalPending' = globalPending - Cardinality(held)
      /\ sessionPending' = [s \in Sessions |-> sessionPending[s] - Cardinality(heldOf(s))]
  BY DEF Release
<1>2. accepted \subseteq Callers /\ held \subseteq accepted
  BY DEF IInv, Held
<1>3. Held'
  BY <1>1, <1>2 DEF Held
<1>4. globalPending' = Cardinality(accepted') /\ globalPending' <= GlobalLimit
  <2>1. /\ Cardinality(accepted \ held) = Cardinality(accepted) - Cardinality(held)
        /\ Cardinality(accepted) \in Nat /\ Cardinality(held) \in Nat
    BY <1>2, Remaining
  <2> HIDE DEF held
  <2>2. QED
    BY <1>1, <2>1, LimitsAreNumbers DEF IInv, CountersAreExact
<1>5. ASSUME NEW s \in Sessions
      PROVE  sessionPending'[s] = Cardinality(HeldBy(s)') /\ sessionPending'[s] <= SessionLimit
  <2>1. HeldBy(s) \subseteq Callers /\ heldOf(s) \subseteq HeldBy(s)
    BY <1>2 DEF HeldBy
  <2>2. HeldBy(s)' = HeldBy(s) \ heldOf(s)
    BY <1>1 DEF HeldBy
  <2>3. sessionPending'[s] = sessionPending[s] - Cardinality(heldOf(s))
    BY <1>1
  <2>4. sessionPending[s] = Cardinality(HeldBy(s)) /\ sessionPending[s] <= SessionLimit
    BY DEF IInv, CountersAreExact
  <2> HIDE DEF heldOf
  <2>5. /\ Cardinality(HeldBy(s) \ heldOf(s)) = Cardinality(HeldBy(s)) - Cardinality(heldOf(s))
        /\ Cardinality(HeldBy(s)) \in Nat /\ Cardinality(heldOf(s)) \in Nat
    BY <2>1, Remaining
  <2>6. QED
    BY <2>2, <2>3, <2>4, <2>5, LimitsAreNumbers
<1>6. QED
  BY <1>3, <1>4, <1>5 DEF IInv, CountersAreExact

LEMMA SubmitInv ==
  ASSUME IInv, NEW c \in Callers, Submit(c)
  PROVE  IInv'
<1> DEFINE own == SessionOf[c]
<1>1. /\ c \notin accepted /\ globalPending < GlobalLimit /\ sessionPending[own] < SessionLimit
      /\ accepted' = accepted \cup {c} /\ globalPending' = globalPending + 1
      /\ sessionPending' = [sessionPending EXCEPT ![own] = @ + 1]
  BY DEF Submit, Admissible
<1>2. accepted \subseteq Callers /\ own \in Sessions
  BY DEF IInv, Held, Sessions
<1>3. Held'
  BY <1>1, <1>2 DEF IInv, Held
<1>4. globalPending' = Cardinality(accepted') /\ globalPending' <= GlobalLimit
  <2>1. Cardinality(accepted \cup {c}) = Cardinality(accepted) + 1 /\ Cardinality(accepted) \in Nat
    BY <1>1, <1>2, Counting, FS_AddElement
  <2>2. QED
    BY <1>1, <2>1, LimitsAreNumbers DEF IInv, CountersAreExact
<1>5. ASSUME NEW s \in Sessions
      PROVE  sessionPending'[s] = Cardinality(HeldBy(s)') /\ sessionPending'[s] <= SessionLimit
  <2>1. sessionPending[s] = Cardinality(HeldBy(s)) /\ sessionPending[s] <= SessionLimit
    BY DEF IInv, CountersAreExact
  <2>2. CASE s = own
    <3>1. HeldBy(s)' = HeldBy(s) \cup {c} /\ c \notin HeldBy(s) /\ HeldBy(s) \subseteq Callers
      BY <1>1, <1>2, <2>2 DEF HeldBy
    <3>2. Cardinality(HeldBy(s) \cup {c}) = Cardinality(HeldBy(s)) + 1
          /\ Cardinality(HeldBy(s)) \in Nat
      BY <3>1, Counting, FS_AddElement
    <3>3. sessionPending'[s] = sessionPending[s] + 1
      BY <1>1, <1>2, <2>2 DEF IInv, Held
    <3>4. QED
      BY <1>1, <2>1, <2>2, <3>1, <3>2, <3>3, LimitsAreNumbers
  <2>3. CASE s # own
    <3>1. HeldBy(s)' = HeldBy(s)
      BY <1>1, <2>3 DEF HeldBy
    <3>2. sessionPending'[s] = sessionPending[s]
      BY <1>1, <1>2, <2>3 DEF IInv, Held
    <3>3. QED
      BY <2>1, <3>1, <3>2
  <2>4. QED
    BY <2>2, <2>3
<1>6. QED
  BY <1>3, <1>4, <1>5 DEF IInv, CountersAreExact

LEMMA InvInit == Init => IInv
<1> SUFFICES ASSUME Init PROVE IInv
  OBVIOUS
<1>1. accepted = {} /\ globalPending = 0 /\ sessionPending = [s \in Sessions |-> 0]
  BY DEF Init
<1>2. \A s \in Sessions : HeldBy(s) = {}
  BY <1>1 DEF HeldBy
<1>3. Cardinality({}) = 0
  BY FS_EmptySet
<1>4. QED
  BY <1>1, <1>2, <1>3, LimitsAreNumbers DEF IInv, Held, CountersAreExact

\* Only admission and release touch the accounting.
LEMMA InvStep == IInv /\ [Next]_vars => IInv'
<1> SUFFICES ASSUME IInv, [Next]_vars PROVE IInv'
  OBVIOUS
<1>1. ASSUME UNCHANGED admission PROVE IInv'
  BY <1>1 DEF admission, IInv, Held, CountersAreExact, HeldBy
<1>2. ASSUME NEW c \in Callers, Submit(c) PROVE IInv'
  BY <1>2, SubmitInv
<1>3. ASSUME NEW c \in Callers, Return(c) \/ Disconnect(c) PROVE IInv'
  BY <1>1, <1>3 DEF Return, Disconnect
<1>4. ASSUME NEW c \in Callers, Cancel(c) PROVE IInv'
  BY <1>1, <1>4, Releasing DEF Cancel
<1>5. CASE Time
  BY <1>1, <1>5 DEF Time, WindowElapses, Elapse
<1>6. CASE Wake \/ Dispatch \/ EndRound
  BY <1>1, <1>6 DEF Wake, Dispatch, EndRound
<1>7. CASE SelectRound
  BY <1>7, Releasing DEF SelectRound
<1>8. CASE ProviderAnswers
  BY <1>8, Releasing DEF ProviderAnswers, Resolve
<1>9. CASE Close \/ UNCHANGED vars
  BY <1>1, <1>9 DEF Close, vars
<1>10. QED
  BY <1>2, <1>3, <1>4, <1>5, <1>6, <1>7, <1>8, <1>9 DEF Next, Dispatcher

\* The counters that decide who is admitted count what is held, and no limit is passed.
THEOREM AdmissionIsExact == Spec => []CountersAreExact
<1>1. Init => IInv
  BY InvInit
<1>2. IInv /\ [Next]_vars => IInv'
  BY InvStep
<1>3. IInv => CountersAreExact
  BY DEF IInv
<1>4. QED
  BY <1>1, <1>2, <1>3, PTL DEF Spec

(***************************************************************************)
(* The invariant of the queue and the round.                               *)
(***************************************************************************)
\* Those that wait are pending requests nobody has answered or cancelled, in
\* admission order, none of them in flight.
Line ==
  /\ NoDup(population) /\ Waiting \cap flight = {}
  /\ \A c \in Waiting :
       state[c] = "pending" /\ ~ cancelled[c] /\ completion[c] \in {"open", "dropped"}
  /\ \A c, d : Before(population, c, d) => age[c] >= age[d]

\* The batches of a round still to be dispatched: one per key, the first of their
\* queues, in order; who has left one was cancelled.
Rounds ==
  /\ \A i, j \in DOMAIN groups : \A c \in ToSet(groups[i]), d \in ToSet(groups[j]) :
       KeyOf[c] = KeyOf[d] <=> i = j
  /\ \A i \in DOMAIN groups : NoDup(groups[i]) /\ Len(groups[i]) <= MaxBatch
  /\ \A i \in DOMAIN groups : \A c, d \in Waiting :
       Before(groups[i], c, d) /\ SameQueue(c, d) => Before(population, c, d)
  /\ \A c, d : Before(population, c, d) /\ SameQueue(c, d) /\ d \in InRound => c \in InRound
  /\ \A c \in InRound : ~ cancelled[c] => c \in Waiting

\* What the provider may be asked for: no more than it takes, nothing twice, one key.
BatchFits ==
  Len(batch) <= MaxBatch /\ NoDup(batch) /\ \A c, d \in ToSet(batch) : KeyOf[c] = KeyOf[d]

\* The provider works on requests in flight, and a round is dispatched before the next begins.
Calls ==
  /\ pc = "call" => ToSet(batch) \subseteq flight
  /\ pc \in {"idle", "select", "dead"} => groups = << >>
  /\ BatchFits

\* Who waits or is in flight holds capacity, and nobody else.
Kept ==
  /\ Waiting \cup {c \in flight : ~cancelled[c]} \subseteq accepted
  /\ accepted \subseteq Waiting \cup flight

\* The inductive invariant: what a step of the dispatcher relies on, all of it.
SInv == TypeOK /\ IInv /\ Line /\ Rounds /\ Calls /\ Kept

LEMMA RoundFacts ==
  ASSUME TypeOK
  PROVE  /\ DOMAIN groups = 1..Len(groups) /\ Len(groups) \in Nat
         /\ \A i \in DOMAIN groups :
              groups[i] \in Seq(Callers) /\ ToSet(groups[i]) \subseteq InRound
         /\ \A c \in InRound : c \in Callers /\ \E i \in DOMAIN groups : c \in ToSet(groups[i])
         /\ Waiting \subseteq Callers /\ ToSet(batch) \subseteq Callers
<1>1. groups \in Seq(Seq(Callers)) /\ population \in Seq(Callers) /\ batch \in Seq(Callers)
  BY DEF TypeOK
<1>2. DOMAIN groups = 1..Len(groups) /\ Len(groups) \in Nat
  BY <1>1
<1>3. \A i \in DOMAIN groups : groups[i] \in Seq(Callers)
  BY <1>1
<1>4. \A i \in DOMAIN groups : ToSet(groups[i]) \subseteq Callers
  BY <1>3, Elements
<1>5. Waiting \subseteq Callers /\ ToSet(batch) \subseteq Callers
  BY <1>1, Elements DEF Waiting
<1>6. QED
  BY <1>2, <1>3, <1>4, <1>5 DEF InRound

\* The population without S.
LEMMA Shrinks ==
  ASSUME TypeOK, Line, NEW S, population' = Without(population, S)
  PROVE  /\ population' \in Seq(Callers) /\ NoDup(population') /\ Waiting' = Waiting \ S
         /\ \A c, d : Before(population', c, d) <=>
              Before(population, c, d) /\ c \notin S /\ d \notin S
<1>1. population \in Seq(Callers) /\ NoDup(population)
  BY DEF TypeOK, Line
<1>2. QED
  BY <1>1, WithoutKeeps DEF Waiting

\* Nothing happens to those that stay.
LEMMA LineShrinks ==
  ASSUME TypeOK, Line, NEW S, population' = Without(population, S),
         flight' \cap (Waiting \ S) = {},
         \A c \in Waiting \ S : /\ state'[c] = state[c] /\ cancelled'[c] = cancelled[c]
                                /\ completion'[c] = completion[c] /\ age'[c] = age[c]
  PROVE  Line'
<1>1. /\ NoDup(population') /\ Waiting' = Waiting \ S
      /\ \A c, d : Before(population', c, d) <=>
           Before(population, c, d) /\ c \notin S /\ d \notin S
  BY Shrinks
<1>2. \A c, d : Before(population, c, d) => c \in Waiting /\ d \in Waiting
  BY InQueue DEF TypeOK, Waiting
<1>3. Waiting' \cap flight' = {}
  BY <1>1
<1>4. \A c \in Waiting' :
        state'[c] = "pending" /\ ~ cancelled'[c] /\ completion'[c] \in {"open", "dropped"}
  BY <1>1 DEF Line
<1>5. \A c, d : Before(population', c, d) => age'[c] >= age'[d]
  <2>1. ASSUME NEW c, NEW d, Before(population', c, d) PROVE age'[c] >= age'[d]
    <3>1. c \in Waiting \ S /\ d \in Waiting \ S /\ age[c] >= age[d]
      BY <1>1, <1>2, <2>1 DEF Line
    <3>2. QED
      BY <3>1
  <2>2. QED
    BY <2>1
<1>6. QED
  BY <1>1, <1>3, <1>4, <1>5 DEF Line

\* A waiting request may also lose its caller.
LEMMA LineStays ==
  ASSUME TypeOK, Line, population' = population, flight' \cap Waiting = {},
         \A c \in Waiting : /\ state'[c] = state[c] /\ cancelled'[c] = cancelled[c]
                            /\ completion'[c] \in {completion[c], "dropped"} /\ age'[c] = age[c]
  PROVE  Line'
<1>1. Waiting' = Waiting
  BY DEF Waiting
<1>2. \A c, d : Before(population, c, d) => c \in Waiting /\ d \in Waiting
  BY InQueue DEF TypeOK, Waiting
<1>3. \A c \in Waiting' :
        state'[c] = "pending" /\ ~ cancelled'[c] /\ completion'[c] \in {"open", "dropped"}
  BY <1>1 DEF Line
<1>4. ASSUME NEW c, NEW d, Before(population', c, d) PROVE age'[c] >= age'[d]
  <2>1. c \in Waiting /\ d \in Waiting /\ age[c] >= age[d]
    BY <1>2, <1>4 DEF Line
  <2>2. QED
    BY <2>1
<1>5. NoDup(population') /\ Waiting' \cap flight' = {}
  BY <1>1 DEF Line
<1>6. QED
  BY <1>3, <1>4, <1>5 DEF Line

LEMMA NoRounds ==
  ASSUME groups' = << >>
  PROVE  Rounds'
<1>1. DOMAIN groups' = {} /\ InRound' = {}
  BY DEF InRound
<1>2. QED
  BY <1>1 DEF Rounds

\* A round is not disturbed by those that leave the population when cancelled.
LEMMA RoundsStay ==
  ASSUME TypeOK, Line, Rounds, groups' = groups, NEW S,
         \/ population' = Without(population, S)
         \/ S = {} /\ population' = population,
         \A c \in InRound : ~ cancelled'[c] => ~ cancelled[c] /\ c \notin S
  PROVE  Rounds'
<1>1. /\ Waiting' = Waiting \ S
      /\ \A c, d : Before(population', c, d) <=>
           Before(population, c, d) /\ c \notin S /\ d \notin S
  <2>1. CASE population' = Without(population, S)
    BY <2>1, Shrinks
  <2>2. CASE S = {} /\ population' = population
    BY <2>2 DEF Waiting
  <2>3. QED
    BY <2>1, <2>2
<1>2. InRound' = InRound
  BY DEF InRound
<1>3. \A i \in DOMAIN groups' : \A c, d \in Waiting' :
       Before(groups'[i], c, d) /\ SameQueue(c, d) => Before(population', c, d)
  BY <1>1 DEF Rounds
<1>4. \A c, d : Before(population', c, d) /\ SameQueue(c, d) /\ d \in InRound' => c \in InRound'
  BY <1>1, <1>2 DEF Rounds
<1>5. \A c \in InRound' : ~ cancelled'[c] => c \in Waiting'
  BY <1>1, <1>2 DEF Rounds
<1>6. QED
  BY <1>3, <1>4, <1>5 DEF Rounds

LEMMA RoundsWait ==
  ASSUME TypeOK, Line, Rounds, groups' = groups, population' = population,
         \A c \in InRound : ~ cancelled'[c] => ~ cancelled[c]
  PROVE  Rounds'
<1> DEFINE S == {}
<1>1. S = {} /\ population' = population
  OBVIOUS
<1>2. \A c \in InRound : ~ cancelled'[c] => ~ cancelled[c] /\ c \notin S
  OBVIOUS
<1> HIDE DEF S
<1>3. QED
  BY <1>1, <1>2, RoundsStay

(***************************************************************************)
(* Callers and time.                                                       *)
(***************************************************************************)
\* The part of the invariant that is about order.
Ordered == Line /\ Rounds /\ Calls /\ Kept

LEMMA CallsStay ==
  ASSUME Calls, groups' = groups, batch' = batch, flight' = flight,
         pc' = pc \/ (pc' \in {"select", "closed"} /\ pc \in {"idle", "call"}
           /\ (pc' = "select" => pc = "idle"))
  PROVE  Calls'
  BY DEF Calls, BatchFits

LEMMA SubmitOrdered ==
  ASSUME SInv, NEW c \in Callers, Submit(c)
  PROVE  Ordered'
<1>1. /\ c \notin Waiting /\ c \notin flight /\ c \notin InRound
      /\ accepted' = accepted \cup {c} /\ population' = Append(population, c)
      /\ state' = [state EXCEPT ![c] = "pending"] /\ cancelled' = [cancelled EXCEPT ![c] = FALSE]
      /\ completion' = [completion EXCEPT ![c] = "open"] /\ age' = [age EXCEPT ![c] = Fresh]
      /\ flight' = flight /\ pc' = pc /\ groups' = groups /\ batch' = batch
  BY DEF Submit, Gone, dispatcher
<1>2. /\ population \in Seq(Callers) /\ NoDup(population) /\ Waiting = ToSet(population)
      /\ state \in [Callers -> PendingState] /\ cancelled \in [Callers -> BOOLEAN]
      /\ age \in [Callers -> Fresh..Overdue] /\ flight \subseteq Callers
      /\ completion \in [Callers -> {"none", "open", "result", "error", "dropped"}]
  BY DEF SInv, TypeOK, Line, Waiting
<1>3. /\ Waiting' = Waiting \cup {c} /\ NoDup(population')
      /\ \A d, e : Before(population', d, e) <=>
           Before(population, d, e) \/ (d \in Waiting /\ e = c)
  <2>1. /\ ToSet(Append(population, c)) = ToSet(population) \cup {c}
        /\ NoDup(population) /\ c \notin ToSet(population) => NoDup(Append(population, c))
        /\ \A d, e : Before(Append(population, c), d, e) <=>
              Before(population, d, e) \/ (d \in ToSet(population) /\ e = c)
    BY <1>2, AppendOrder
  <2>2. QED
    BY <1>1, <1>2, <2>1 DEF Waiting
<1>4. /\ Waiting \subseteq Callers /\ \A d \in InRound : d \in Callers
      /\ \A d, e : Before(population, d, e) => d \in Waiting /\ e \in Waiting
      /\ \A i \in DOMAIN groups : groups[i] \in Seq(Callers) /\ ToSet(groups[i]) \subseteq InRound
  BY <1>2, RoundFacts, InQueue DEF SInv
<1>5. \A d \in Callers : d # c =>
        /\ state'[d] = state[d] /\ cancelled'[d] = cancelled[d]
        /\ completion'[d] = completion[d] /\ age'[d] = age[d]
  BY <1>1, <1>2
<1>6. state'[c] = "pending" /\ ~ cancelled'[c] /\ completion'[c] = "open" /\ age'[c] = 0
  BY <1>1, <1>2 DEF Fresh
<1>7. Line'
  <2>1. Waiting' \cap flight' = {}
    BY <1>1, <1>3 DEF SInv, Line
  <2>2. \A d \in Waiting' :
          state'[d] = "pending" /\ ~ cancelled'[d] /\ completion'[d] \in {"open", "dropped"}
    BY <1>3, <1>4, <1>5, <1>6 DEF SInv, Line
  <2>3. ASSUME NEW d, NEW e, Before(population', d, e) PROVE age'[d] >= age'[e]
    <3>1. CASE Before(population, d, e)
      <4>1. d \in Waiting /\ e \in Waiting /\ age[d] >= age[e]
        BY <1>4, <3>1 DEF SInv, Line
      <4>2. QED
        BY <1>1, <1>4, <1>5, <4>1
    <3>2. CASE d \in Waiting /\ e = c
      <4>1. age'[d] = age[d] /\ age[d] \in Fresh..Overdue
        BY <1>1, <1>2, <1>4, <1>5, <3>2
      <4>2. QED
        BY <1>6, <3>2, <4>1 DEF Fresh, Overdue
    <3>3. QED
      BY <1>3, <2>3, <3>1, <3>2
  <2>4. QED
    BY <1>3, <2>1, <2>2, <2>3 DEF Line
<1>8. Rounds'
  <2>1. InRound' = InRound
    BY <1>1 DEF InRound
  <2>2. \A i \in DOMAIN groups' : \A d, e \in Waiting' :
          Before(groups'[i], d, e) /\ SameQueue(d, e) => Before(population', d, e)
    <3> SUFFICES ASSUME NEW i \in DOMAIN groups, NEW d \in Waiting', NEW e \in Waiting',
                        Before(groups[i], d, e), SameQueue(d, e)
                 PROVE  Before(population', d, e)
      BY <1>1
    <3>1. d \in InRound /\ e \in InRound
      BY <1>4, InQueue
    <3>2. d \in Waiting /\ e \in Waiting
      BY <1>1, <1>3, <3>1
    <3>3. QED
      BY <1>3, <3>2 DEF SInv, Rounds
  <2>3. \A d, e : Before(population', d, e) /\ SameQueue(d, e) /\ e \in InRound' => d \in InRound'
    BY <1>1, <1>3, <2>1 DEF SInv, Rounds
  <2>4. \A d \in InRound' : ~ cancelled'[d] => d \in Waiting'
    BY <1>1, <1>3, <1>4, <1>5, <2>1 DEF SInv, Rounds
  <2>5. QED
    BY <1>1, <2>2, <2>3, <2>4 DEF SInv, Rounds
<1>9. Calls'
  BY <1>1, CallsStay DEF SInv
<1>10. Kept'
  BY <1>1, <1>2, <1>3, <1>5 DEF SInv, Kept
<1>11. QED
  BY <1>7, <1>8, <1>9, <1>10 DEF Ordered

\* Steps that leave the population, the round and the capacity alone.
LEMMA StaysOrdered ==
  ASSUME SInv, population' = population, flight' = flight, groups' = groups, batch' = batch,
         accepted' = accepted, cancelled' = cancelled,
         \A c \in Waiting : /\ state'[c] = state[c] /\ age'[c] = age[c]
                            /\ completion'[c] \in {completion[c], "dropped"},
         pc' = pc \/ (pc' \in {"select", "closed"} /\ pc \in {"idle", "call"}
           /\ (pc' = "select" => pc = "idle"))
  PROVE  Ordered'
<1>1. flight' \cap Waiting = {}
  BY DEF SInv, Line
<1>2. Line'
  BY <1>1, LineStays DEF SInv
<1>3. Rounds'
  BY RoundsWait DEF SInv
<1>4. Calls'
  BY CallsStay DEF SInv
<1>5. Kept'
  BY DEF SInv, Kept, Waiting
<1>6. QED
  BY <1>2, <1>3, <1>4, <1>5 DEF Ordered

LEMMA ReturnOrdered ==
  ASSUME SInv, NEW c \in Callers, Return(c) \/ Disconnect(c)
  PROVE  Ordered'
<1>1. /\ population' = population /\ flight' = flight /\ groups' = groups /\ batch' = batch
      /\ accepted' = accepted /\ cancelled' = cancelled /\ pc' = pc
  BY DEF Return, Disconnect, admission, dispatcher
<1>2. /\ Waiting \subseteq Callers
      /\ completion \in [Callers -> {"none", "open", "result", "error", "dropped"}]
      /\ state \in [Callers -> PendingState]
  BY RoundFacts DEF SInv, TypeOK
<1>3. ASSUME NEW d \in Waiting
      PROVE  /\ state'[d] = state[d] /\ age'[d] = age[d]
             /\ completion'[d] \in {completion[d], "dropped"}
  <2>1. CASE Return(c)
    <3>1. d # c
      BY <2>1 DEF Return, SInv, Line
    <3>2. QED
      BY <1>2, <2>1, <3>1 DEF Return, Forget, NotWaiting
  <2>2. CASE Disconnect(c)
    BY <1>2, <2>2 DEF Disconnect
  <2>3. QED
    BY <2>1, <2>2
<1>4. QED
  BY <1>1, <1>3, StaysOrdered

LEMMA CancelOrdered ==
  ASSUME SInv, NEW c \in Callers, Cancel(c)
  PROVE  Ordered'
<1>1. /\ flight' = flight /\ groups' = groups /\ batch' = batch /\ pc' = pc
  BY DEF Cancel, dispatcher
<1>2. /\ Waiting \subseteq Callers /\ \A d \in InRound : d \in Callers
      /\ completion \in [Callers -> {"none", "open", "result", "error", "dropped"}]
      /\ state \in [Callers -> PendingState] /\ cancelled \in [Callers -> BOOLEAN]
      /\ flight \subseteq Callers
  BY RoundFacts DEF SInv, TypeOK
<1>3. CASE c \notin flight \cup Waiting
  <2>1. /\ Forget(c) /\ cancelled' = cancelled /\ population' = population /\ accepted' = accepted
    BY <1>3 DEF Cancel, admission
  <2>2. \A d \in Waiting : /\ state'[d] = state[d] /\ age'[d] = age[d]
                           /\ completion'[d] \in {completion[d], "dropped"}
    BY <1>2, <1>3, <2>1 DEF Forget, NotWaiting
  <2>3. QED
    BY <1>1, <2>1, <2>2, StaysOrdered
<1>4. CASE c \in flight \cup Waiting /\ state[c] = "in_flight"
  <2>1. /\ cancelled' = [cancelled EXCEPT ![c] = TRUE] /\ completion' = completion
        /\ state' = state /\ age' = age /\ population' = population /\ accepted' = accepted
    BY <1>4 DEF Cancel, admission
  <2>2. c \notin Waiting
    BY <1>4 DEF SInv, Line
  <2>3. \A d \in Callers : ~ cancelled'[d] => ~ cancelled[d]
    BY <1>2, <2>1
  <2>4. Line'
    <3>1. flight' \cap Waiting = {}
      BY <1>1 DEF SInv, Line
    <3>2. \A d \in Waiting : cancelled'[d] = cancelled[d]
      BY <1>2, <2>1, <2>2
    <3>3. QED
      BY <2>1, <3>1, <3>2, LineStays DEF SInv
  <2>5. Rounds'
    BY <1>1, <1>2, <2>1, <2>3, RoundsWait DEF SInv
  <2>6. Kept'
    BY <1>1, <1>2, <2>1, <2>3 DEF SInv, Kept, Waiting
  <2>7. Calls'
    BY <1>1, CallsStay DEF SInv
  <2>8. QED
    BY <2>4, <2>5, <2>6, <2>7 DEF Ordered
<1>5. CASE c \in flight \cup Waiting /\ state[c] # "in_flight"
  <2>1. /\ cancelled' = [cancelled EXCEPT ![c] = TRUE] /\ completion' = completion
        /\ state' = [state EXCEPT ![c] = "cancelled"] /\ age' = NotWaiting({c})
        /\ population' = Without(population, {c}) /\ Release({c})
    BY <1>5 DEF Cancel
  <2>2. Waiting' = Waiting \ {c}
    BY <2>1, Shrinks DEF SInv
  <2>3. \A d \in Callers : d # c =>
          /\ cancelled'[d] = cancelled[d] /\ completion'[d] = completion[d]
          /\ state'[d] = state[d] /\ age'[d] = age[d]
    BY <1>2, <2>1 DEF NotWaiting
  <2>4. cancelled'[c]
    BY <1>2, <2>1
  <2>5. Line'
    <3>1. flight' \cap (Waiting \ {c}) = {}
      BY <1>1 DEF SInv, Line
    <3>2. QED
      BY <1>2, <2>1, <2>3, <3>1, LineShrinks DEF SInv
  <2>6. Rounds'
    <3>1. \A d \in InRound : ~ cancelled'[d] => ~ cancelled[d] /\ d \notin {c}
      BY <1>2, <2>3, <2>4
    <3>2. QED
      BY <1>1, <2>1, <3>1, RoundsStay DEF SInv
  <2>7. Kept'
    <3>1. accepted' = accepted \ {c}
      BY <2>1 DEF Release
    <3>2. QED
      BY <1>1, <1>2, <2>2, <2>3, <2>4, <3>1 DEF SInv, Kept
  <2>8. Calls'
    BY <1>1, CallsStay DEF SInv
  <2>9. QED
    BY <2>5, <2>6, <2>7, <2>8 DEF Ordered
<1>6. QED
  BY <1>3, <1>4, <1>5

LEMMA ElapseOrdered ==
  ASSUME SInv, NEW c \in Callers, Elapse(c)
  PROVE  Ordered'
<1>1. /\ population' = population /\ flight' = flight /\ groups' = groups /\ batch' = batch
      /\ accepted' = accepted /\ cancelled' = cancelled /\ pc' = pc /\ state' = state
      /\ completion' = completion /\ age' = [age EXCEPT ![c] = @ + 1] /\ c \in Waiting
      /\ \A i, j \in DOMAIN population :
           i < j /\ population[j] = c => age[population[i]] > age[c]
  BY DEF Elapse, admission, dispatcher
<1>2. /\ age \in [Callers -> Fresh..Overdue] /\ population \in Seq(Callers)
           /\ Waiting \subseteq Callers
  BY RoundFacts DEF SInv, TypeOK
<1>3. \A d, e : Before(population, d, e) => d \in Waiting /\ e \in Waiting
  BY <1>2, InQueue DEF Waiting
<1>4. ASSUME NEW d, NEW e, Before(population, d, e) PROVE age'[d] >= age'[e]
  <2>1. /\ d \in Callers /\ e \in Callers /\ age[d] >= age[e]
        /\ age[d] \in Nat /\ age[e] \in Nat
    BY <1>2, <1>3, <1>4 DEF SInv, Line, Fresh, Overdue
  <2>2. e = c => age[d] > age[c]
    BY <1>1, <1>2, <1>4 DEF Before
  <2>3. /\ age'[d] = IF d = c THEN age[d] + 1 ELSE age[d]
        /\ age'[e] = IF e = c THEN age[e] + 1 ELSE age[e]
    BY <1>1, <1>2, <2>1
  <2>4. QED
    BY <2>1, <2>2, <2>3
<1>5. Line'
  BY <1>1, <1>4 DEF SInv, Line, Waiting
<1>6. Rounds'
  BY <1>1, RoundsWait DEF SInv
<1>7. Calls'
  BY <1>1, CallsStay DEF SInv
<1>8. Kept'
  BY <1>1 DEF SInv, Kept, Waiting
<1>9. QED
  BY <1>5, <1>6, <1>7, <1>8 DEF Ordered

LEMMA WaitOrdered ==
  ASSUME SInv, WindowElapses \/ Wake \/ Close \/ UNCHANGED vars
  PROVE  Ordered'
<1>1. /\ population' = population /\ flight' = flight /\ groups' = groups /\ batch' = batch
      /\ accepted' = accepted /\ cancelled' = cancelled /\ state' = state
      /\ completion' = completion /\ age' = age
  BY DEF WindowElapses, Wake, Close, vars, request, admission, dispatcher
<1>2. pc' = pc \/ (pc' \in {"select", "closed"} /\ pc \in {"idle", "call"}
                     /\ (pc' = "select" => pc = "idle"))
  BY DEF WindowElapses, Wake, Close, vars, dispatcher
<1>3. QED
  BY <1>1, <1>2, StaysOrdered

LEMMA EndRoundOrdered ==
  ASSUME SInv, EndRound
  PROVE  Ordered'
<1>1. /\ population' = population /\ flight' = flight /\ groups' = groups /\ batch' = batch
      /\ accepted' = accepted /\ cancelled' = cancelled /\ state' = state
      /\ completion' = completion /\ age' = age /\ groups = << >> /\ pc' = "select"
  BY DEF EndRound, request, admission
<1>2. flight' \cap Waiting = {}
  BY <1>1 DEF SInv, Line
<1>3. Line'
  BY <1>1, <1>2, LineStays DEF SInv
<1>4. Rounds'
  BY <1>1, NoRounds
<1>5. Calls'
  BY <1>1 DEF SInv, Calls, BatchFits
<1>6. Kept'
  BY <1>1 DEF SInv, Kept, Waiting
<1>7. QED
  BY <1>3, <1>4, <1>5, <1>6 DEF Ordered

(***************************************************************************)
(* The dispatcher.                                                         *)
(***************************************************************************)
LEMMA MaxBatchIsNumber == MaxBatch \in Nat \ {0}
  BY SchedulerAssumption

\* What a round selects from those that are not overdue.
LEMMA RoundSelected ==
  ASSUME SInv, NEW live, live = Without(population, Older(Waiting, Overdue)),
         NEW candidates,
         candidates = Only(Select(live, Older(ToSet(live), Aged), MaxBatch),
                           {c \in Callers : ~cancelled[c]})
  PROVE  /\ live \in Seq(Callers) /\ NoDup(live)
         /\ Selected(live, Older(ToSet(live), Aged), MaxBatch, candidates)
<1> DEFINE aged == Older(ToSet(live), Aged)
           chosen == Select(live, aged, MaxBatch)
           here == {c \in Callers : ~cancelled[c]}
<1>1. population \in Seq(Callers) /\ NoDup(population) /\ age \in [Callers -> Fresh..Overdue]
  BY DEF SInv, TypeOK, Line
<1>2. /\ live \in Seq(Callers) /\ NoDup(live) /\ ToSet(live) \subseteq Waiting
      /\ \A c, d : Before(live, c, d) => Before(population, c, d)
  BY <1>1, WithoutKeeps DEF Waiting
<1>3. AgedInOrder(live, aged)
  <2> SUFFICES ASSUME NEW c, NEW d, Before(live, c, d), d \in aged PROVE c \in aged
    BY DEF AgedInOrder
  <2>1. c \in ToSet(live) /\ d \in ToSet(live)
    BY <1>2, InQueue
  <2>2. age[c] >= age[d] /\ age[d] >= Aged /\ age[c] \in Nat /\ age[d] \in Nat
    <3>1. c \in Callers /\ d \in Callers
      BY <1>2, <2>1, Elements
    <3>2. QED
      BY <1>1, <1>2, <3>1 DEF SInv, Line, Older, Fresh, Overdue
  <2>3. QED
    BY <2>1, <2>2 DEF Older, Aged
<1> HIDE DEF aged
<1>4. Selected(live, aged, MaxBatch, chosen)
  BY <1>2, <1>3, MaxBatchIsNumber, SelectFair
<1> HIDE DEF chosen
<1>5. /\ chosen \in Seq(Callers) /\ NoDup(chosen) /\ ToSet(chosen) \subseteq ToSet(live)
      /\ Len(chosen) <= MaxBatch /\ FirstOfQueues(live, chosen)
  BY <1>4 DEF Selected
<1>6. candidates = Only(chosen, here)
  BY DEF chosen, aged
<1>7. \A c \in ToSet(chosen) : c \in here
  <2>1. \A c \in ToSet(chosen) : c \in Callers
    BY <1>5, Elements
  <2>2. QED
    BY <1>2, <1>5, <2>1 DEF SInv, Line
<1> HIDE DEF here
<1>8. /\ candidates \in Seq(Callers) /\ NoDup(candidates) /\ Len(candidates) <= Len(chosen)
      /\ Len(candidates) \in Nat /\ ToSet(candidates) = ToSet(chosen) \cap here
      /\ \A c, d : Before(candidates, c, d) <=> Before(chosen, c, d) /\ c \in here /\ d \in here
  <2> DEFINE o == Only(chosen, here)
  <2>1. /\ o \in Seq(Callers) /\ Len(o) \in Nat /\ Len(o) <= Len(chosen)
        /\ ToSet(o) = ToSet(chosen) \cap here /\ NoDup(o)
        /\ \A c, d : Before(o, c, d) <=> Before(chosen, c, d) /\ c \in here /\ d \in here
    BY <1>5, OnlyKeeps
  <2>2. candidates = o
    BY <1>6
  <2> HIDE DEF o
  <2>3. QED
    BY <2>1, <2>2
<1>9. ToSet(candidates) = ToSet(chosen) /\ Len(candidates) = Len(chosen)
  <2>1. ToSet(candidates) = ToSet(chosen)
    BY <1>7, <1>8
  <2>2. QED
    BY <1>5, <1>8, <2>1, SeqSize
<1>10. FirstOfQueues(live, candidates)
  BY <1>5, <1>7, <1>8 DEF FirstOfQueues
<1>11. \A c : LeadsIn(chosen, c) => LeadsIn(candidates, c)
  BY <1>7, <1>8, <1>9 DEF LeadsIn
<1>12. Selected(live, aged, MaxBatch, candidates)
  BY <1>4, <1>8, <1>9, <1>10, <1>11 DEF Selected
<1>13. QED
  BY <1>2, <1>12 DEF aged

\* The batches of a fresh round.
LEMMA RoundBegins ==
  ASSUME NEW q \in Seq(Callers), NoDup(q), Len(q) <= MaxBatch, FirstOfQueues(population', q),
         population' \in Seq(Callers), NoDup(population'),
         ToSet(q) \subseteq Waiting', GroupsOf(q, groups')
  PROVE  Rounds'
<1>1. /\ groups' \in Seq(Seq(Callers))
      /\ \A i \in DOMAIN groups' :
           /\ NoDup(groups'[i]) /\ ToSet(groups'[i]) \subseteq ToSet(q) /\ Len(groups'[i]) <= Len(q)
           /\ \A c, d : Before(groups'[i], c, d) => Before(q, c, d)
      /\ \A i, j \in DOMAIN groups' : \A c \in ToSet(groups'[i]), d \in ToSet(groups'[j]) :
           KeyOf[c] = KeyOf[d] <=> i = j
      /\ \A c \in ToSet(q) : \E i \in DOMAIN groups' : c \in ToSet(groups'[i])
  BY DEF GroupsOf
<1>2. InRound' = ToSet(q)
  BY <1>1 DEF InRound
<1>3. ASSUME NEW i \in DOMAIN groups' PROVE NoDup(groups'[i]) /\ Len(groups'[i]) <= MaxBatch
  <2>1. groups'[i] \in Seq(Callers)
    BY <1>1
  <2>2. Len(groups'[i]) \in Nat /\ Len(q) \in Nat
    BY <2>1
  <2>3. QED
    BY <1>1, <2>2, MaxBatchIsNumber
<1>4. ASSUME NEW i \in DOMAIN groups', NEW c, NEW d, Before(groups'[i], c, d), SameQueue(c, d),
             c \in Waiting', d \in Waiting'
      PROVE  Before(population', c, d)
  <2>1. Before(q, c, d)
    BY <1>1, <1>4
  <2>2. c \in ToSet(q) /\ c # d /\ ~ Before(q, d, c)
    <3>1. Len(q) \in Nat
      OBVIOUS
    <3>2. QED
      BY <2>1, <3>1, InQueue, NoCycle
  <2>3. ~ Before(population', d, c)
    BY <1>4, <2>2 DEF FirstOfQueues, SameQueue
  <2>4. QED
    BY <1>4, <2>2, <2>3, Comparable DEF Waiting
<1>5. \A c, d : Before(population', c, d) /\ SameQueue(c, d) /\ d \in InRound' => c \in InRound'
  BY <1>2 DEF FirstOfQueues
<1>6. \A c \in InRound' : ~ cancelled'[c] => c \in Waiting'
  BY <1>2
<1>7. QED
  BY <1>1, <1>3, <1>4, <1>5, <1>6 DEF Rounds

LEMMA SelectOrdered ==
  ASSUME SInv, SelectRound
  PROVE  Ordered'
<1> DEFINE expired == Older(Waiting, Overdue)
           live == Without(population, expired)
           candidates == Only(Select(live, Older(ToSet(live), Aged), MaxBatch),
                              {c \in Callers : ~cancelled[c]})
           urgent == Older(ToSet(candidates), Urgent)
<1>1. /\ population' = live /\ Release(expired)
      /\ state' = [c \in Callers |-> IF c \in expired THEN "failed" ELSE state[c]]
      /\ completion' = [c \in Callers |->
             IF c \in expired /\ completion[c] = "open" THEN "error" ELSE completion[c]]
      /\ age' = NotWaiting(expired)
      /\ cancelled' = cancelled /\ flight' = flight /\ batch' = batch /\ pc = "select"
      /\ \/ groups' = groups /\ pc' \in {"idle", "dead"}
         \/ groups' = Grouped(candidates, urgent) /\ pc' = "group"
  BY DEF SelectRound
<1>2. /\ live \in Seq(Callers) /\ NoDup(live)
      /\ candidates \in Seq(Callers) /\ NoDup(candidates) /\ Len(candidates) <= MaxBatch
      /\ ToSet(candidates) \subseteq ToSet(live) /\ FirstOfQueues(live, candidates)
  <2> HIDE DEF live, candidates
  <2>1. live \in Seq(Callers) /\ NoDup(live)
          /\ Selected(live, Older(ToSet(live), Aged), MaxBatch, candidates)
    BY RoundSelected DEF live, candidates
  <2>2. QED
    BY <2>1 DEF Selected
<1> HIDE DEF candidates, urgent, live
<1>3. Waiting' = Waiting \ expired /\ Waiting \subseteq Callers /\ expired \subseteq Waiting
  <2>1. expired \subseteq Waiting
    BY DEF Older
  <2> HIDE DEF expired
  <2>2. population' = Without(population, expired)
    BY <1>1 DEF live
  <2>3. QED
    BY <2>1, <2>2, Shrinks, RoundFacts DEF SInv
<1>4. Line'
  <2> HIDE DEF expired
  <2>1. population' = Without(population, expired)
    BY <1>1 DEF live
  <2>2. flight' \cap (Waiting \ expired) = {}
    BY <1>1 DEF SInv, Line
  <2>3. \A c \in Waiting \ expired :
          /\ state'[c] = state[c] /\ cancelled'[c] = cancelled[c]
          /\ completion'[c] = completion[c] /\ age'[c] = age[c]
    BY <1>1, <1>3 DEF NotWaiting
  <2>4. QED
    BY <2>1, <2>2, <2>3, LineShrinks DEF SInv
<1>5. groups = << >>
  BY <1>1 DEF SInv, Calls
<1>6. Rounds'
  <2>1. CASE groups' = groups
    BY <1>5, <2>1, NoRounds
  <2>2. CASE groups' = Grouped(candidates, urgent)
    <3>1. GroupsOf(candidates, groups')
      BY <1>2, <2>2, GroupedByKey
    <3>2. ToSet(candidates) \subseteq Waiting'
      BY <1>1, <1>2 DEF Waiting
    <3>3. FirstOfQueues(population', candidates) /\ population' \in Seq(Callers)
            /\ NoDup(population')
      BY <1>1, <1>2
    <3>4. QED
      BY <1>2, <3>1, <3>2, <3>3, RoundBegins
  <2>3. QED
    BY <1>1, <2>1, <2>2
<1>7. Calls'
  BY <1>1, <1>5 DEF SInv, Calls, BatchFits
<1>8. Kept'
  <2>1. accepted' = accepted \ (expired \cap accepted)
    BY <1>1 DEF Release
  <2>2. expired \cap flight = {}
    BY <1>3 DEF SInv, Line
  <2> HIDE DEF expired
  <2>3. Waiting' \cup {c \in flight' : ~cancelled'[c]} \subseteq accepted'
    BY <1>1, <1>3, <2>1, <2>2 DEF SInv, Kept
  <2>4. accepted' \subseteq Waiting' \cup flight'
    BY <1>1, <1>3, <2>1, <2>2 DEF SInv, Kept
  <2>5. QED
    BY <2>3, <2>4 DEF Kept
<1>9. QED
  BY <1>4, <1>6, <1>7, <1>8 DEF Ordered

\* The round after its first batch.
LEMMA NextBatch ==
  ASSUME TypeOK, Rounds, groups # << >>, groups' = Tail(groups)
  PROVE  /\ Head(groups) \in Seq(Callers) /\ NoDup(Head(groups)) /\ Len(Head(groups)) <= MaxBatch
         /\ \A c, d \in ToSet(Head(groups)) : KeyOf[c] = KeyOf[d]
         /\ groups' \in Seq(Seq(Callers))
         /\ \A i \in DOMAIN groups' : i + 1 \in DOMAIN groups /\ groups'[i] = groups[i + 1]
         /\ ToSet(Head(groups)) \subseteq InRound /\ InRound' = InRound \ ToSet(Head(groups))
<1> DEFINE h == Head(groups)
           g == Tail(groups)
<1>1. groups \in Seq(Seq(Callers)) /\ Len(groups) \in Nat /\ Len(groups) # 0
  BY DEF TypeOK
<1>2. /\ h \in Seq(Callers) /\ g \in Seq(Seq(Callers)) /\ h = groups[1]
      /\ DOMAIN groups = 1..Len(groups) /\ DOMAIN g = 1..(Len(groups) - 1)
      /\ \A i \in 1..(Len(groups) - 1) : g[i] = groups[i + 1]
  BY <1>1
<1> HIDE DEF h, g
<1>3. groups' = g
  BY DEF g
<1>4. 1 \in DOMAIN groups /\ \A i \in DOMAIN groups' : i + 1 \in DOMAIN groups /\ i + 1 # 1
  BY <1>1, <1>2, <1>3
<1>5. \A i \in DOMAIN groups : i = 1 \/ (i - 1 \in DOMAIN groups' /\ groups'[i - 1] = groups[i])
  BY <1>1, <1>2, <1>3
<1>6. \A i \in DOMAIN groups' : groups'[i] = groups[i + 1]
  BY <1>2, <1>3
<1>7. ToSet(h) \subseteq InRound
  BY <1>2, <1>4 DEF InRound
<1>8. InRound' = InRound \ ToSet(h)
  <2>1. ASSUME NEW c \in InRound' PROVE c \in InRound /\ c \notin ToSet(h)
    <3>1. PICK i \in DOMAIN groups' : c \in ToSet(groups'[i])
      BY DEF InRound
    <3>2. i + 1 \in DOMAIN groups /\ i + 1 # 1 /\ c \in ToSet(groups[i + 1])
      BY <1>4, <1>6, <3>1
    <3>3. c \in InRound
      BY <3>2 DEF InRound
    <3>4. c \notin ToSet(h)
      BY <1>2, <1>4, <3>2 DEF Rounds
    <3>5. QED
      BY <3>3, <3>4
  <2>2. ASSUME NEW c \in InRound, c \notin ToSet(h) PROVE c \in InRound'
    <3>1. PICK i \in DOMAIN groups : c \in ToSet(groups[i])
      BY DEF InRound
    <3>2. i - 1 \in DOMAIN groups' /\ c \in ToSet(groups'[i - 1])
      BY <1>2, <1>5, <2>2, <3>1
    <3>3. QED
      BY <3>2 DEF InRound
  <2>3. QED
    BY <2>1, <2>2
<1>9. /\ NoDup(h) /\ Len(h) <= MaxBatch /\ \A c, d \in ToSet(h) : KeyOf[c] = KeyOf[d]
  BY <1>2, <1>4 DEF Rounds
<1>10. QED
  BY <1>2, <1>3, <1>4, <1>6, <1>7, <1>8, <1>9 DEF h

\* The first batch leaves the round for the provider.
LEMMA DispatchWhole ==
  ASSUME SInv, pc' = "call", groups # << >>, batch' = Head(groups), groups' = Tail(groups),
         state' = [c \in Callers |-> IF c \in ToSet(Head(groups)) THEN "in_flight" ELSE state[c]],
         flight' = flight \cup ToSet(Head(groups)),
         population' = Without(population, ToSet(Head(groups))),
         age' = NotWaiting(flight' \ flight), completion' = completion,
         cancelled' = cancelled, accepted' = accepted
  PROVE  Ordered'
<1> DEFINE S == ToSet(Head(groups))
<1>1. /\ Head(groups) \in Seq(Callers) /\ NoDup(Head(groups)) /\ Len(Head(groups)) <= MaxBatch
      /\ \A c, d \in S : KeyOf[c] = KeyOf[d]
      /\ groups' \in Seq(Seq(Callers))
      /\ \A i \in DOMAIN groups' : i + 1 \in DOMAIN groups /\ groups'[i] = groups[i + 1]
      /\ S \subseteq InRound /\ InRound' = InRound \ S
  BY NextBatch DEF SInv
<1> HIDE DEF S
<1>2. population' = Without(population, S) /\ flight' = flight \cup S
      /\ state' = [c \in Callers |-> IF c \in S THEN "in_flight" ELSE state[c]]
  BY DEF S
<1>3. /\ Waiting' = Waiting \ S
      /\ \A c, d : Before(population', c, d) <=>
           Before(population, c, d) /\ c \notin S /\ d \notin S
  BY <1>2, Shrinks DEF SInv
<1>4. /\ Waiting \subseteq Callers /\ \A c \in InRound : c \in Callers
      /\ DOMAIN groups' = 1..Len(groups') /\ Len(groups') \in Nat
  BY <1>1, RoundFacts DEF SInv
<1>5. Line'
  <2>1. flight' \cap (Waiting \ S) = {}
    BY <1>2 DEF SInv, Line
  <2>2. \A c \in Waiting \ S :
          /\ state'[c] = state[c] /\ cancelled'[c] = cancelled[c]
          /\ completion'[c] = completion[c] /\ age'[c] = age[c]
    BY <1>2, <1>4 DEF NotWaiting
  <2>3. QED
    BY <1>2, <2>1, <2>2, LineShrinks DEF SInv
<1>6. Rounds'
  <2>1. ASSUME NEW i \in DOMAIN groups', NEW j \in DOMAIN groups',
               NEW c \in ToSet(groups'[i]), NEW d \in ToSet(groups'[j])
        PROVE  KeyOf[c] = KeyOf[d] <=> i = j
    <3>1. KeyOf[c] = KeyOf[d] <=> i + 1 = j + 1
      BY <1>1 DEF SInv, Rounds
    <3>2. QED
      BY <1>4, <3>1
  <2>2. \A i \in DOMAIN groups' : NoDup(groups'[i]) /\ Len(groups'[i]) <= MaxBatch
    BY <1>1 DEF SInv, Rounds
  <2>3. \A i \in DOMAIN groups' : \A c, d \in Waiting' :
          Before(groups'[i], c, d) /\ SameQueue(c, d) => Before(population', c, d)
    BY <1>1, <1>3 DEF SInv, Rounds
  <2>4. \A c, d : Before(population', c, d) /\ SameQueue(c, d) /\ d \in InRound' => c \in InRound'
    BY <1>1, <1>3 DEF SInv, Rounds
  <2>5. \A c \in InRound' : ~ cancelled'[c] => c \in Waiting'
    BY <1>1, <1>3 DEF SInv, Rounds
  <2>6. QED
    BY <2>1, <2>2, <2>3, <2>4, <2>5 DEF Rounds
<1>7. Calls'
  BY <1>1, <1>2 DEF Calls, BatchFits, S
<1>8. Kept'
  <2>1. \A c \in S : ~ cancelled[c] => c \in accepted
    BY <1>1 DEF SInv, Rounds, Kept
  <2>2. QED
    BY <1>2, <1>3, <2>1 DEF SInv, Kept
<1>9. QED
  BY <1>5, <1>6, <1>7, <1>8 DEF Ordered

\* A removal raises after the members of S: the dispatcher task ends there.
LEMMA DispatchBroken ==
  ASSUME SInv, pc' = "dead", groups' = << >>, batch' = batch,
         NEW S, S \subseteq InRound, NEW c \in Callers, c \notin Waiting \ S,
         state' = [d \in Callers |-> IF d \in S \cup {c} THEN "in_flight" ELSE state[d]],
         flight' = flight \cup S, population' = Without(population, S),
         age' = NotWaiting(flight' \ flight), completion' = completion,
         cancelled' = cancelled, accepted' = accepted
  PROVE  Ordered'
<1>1. Waiting' = Waiting \ S /\ Waiting \subseteq Callers /\ \A d \in InRound : d \in Callers
  BY Shrinks, RoundFacts DEF SInv
<1>2. Line'
  <2>1. flight' \cap (Waiting \ S) = {}
    BY DEF SInv, Line
  <2>2. \A d \in Waiting \ S :
          /\ state'[d] = state[d] /\ cancelled'[d] = cancelled[d]
          /\ completion'[d] = completion[d] /\ age'[d] = age[d]
    BY <1>1 DEF NotWaiting
  <2>3. QED
    BY <2>1, <2>2, LineShrinks DEF SInv
<1>3. Rounds'
  BY NoRounds
<1>4. Calls'
  BY DEF SInv, Calls, BatchFits
<1>5. Kept'
  <2>1. \A d \in S : ~ cancelled[d] => d \in accepted
    BY DEF SInv, Rounds, Kept
  <2>2. QED
    BY <1>1, <2>1 DEF SInv, Kept
<1>6. QED
  BY <1>2, <1>3, <1>4, <1>5 DEF Ordered

LEMMA DispatchOrdered ==
  ASSUME SInv, Dispatch
  PROVE  Ordered'
<1> DEFINE members == Head(groups)
           bad == {i \in DOMAIN members : RemoveFails(members, i)}
           upto(n) == {members[i] : i \in 1..n}
<1>1. /\ groups # << >> /\ age' = NotWaiting(flight' \ flight) /\ completion' = completion
      /\ cancelled' = cancelled /\ accepted' = accepted
  BY DEF Dispatch, admission
<1>2. groups \in Seq(Seq(Callers))
  BY DEF SInv, TypeOK
<1>3. members \in Seq(Callers) /\ DOMAIN members = 1..Len(members) /\ Len(members) \in Nat
      /\ ToSet(members) \subseteq InRound
  <2>1. /\ members = groups[1] /\ 1 \in DOMAIN groups
    BY <1>1, <1>2
  <2>2. groups[1] \in Seq(Callers) /\ ToSet(groups[1]) \subseteq InRound
    BY <2>1, RoundFacts DEF SInv
  <2>3. QED
    BY <2>1, <2>2
<1>4. CASE /\ bad = {} /\ pc' = "call" /\ batch' = members /\ groups' = Tail(groups)
           /\ state' = [c \in Callers |-> IF c \in ToSet(members) THEN "in_flight" ELSE state[c]]
           /\ flight' = flight \cup ToSet(members)
           /\ population' = Without(population, ToSet(members))
  BY <1>1, <1>4, DispatchWhole
<1>5. CASE \E i \in bad :
             /\ pc' = "dead" /\ groups' = << >> /\ batch' = batch
             /\ state' = [c \in Callers |-> IF c \in upto(i) THEN "in_flight" ELSE state[c]]
             /\ flight' = flight \cup upto(i - 1)
             /\ population' = Without(population, upto(i - 1))
  <2>1. PICK i \in bad :
             /\ pc' = "dead" /\ groups' = << >> /\ batch' = batch
             /\ state' = [c \in Callers |-> IF c \in upto(i) THEN "in_flight" ELSE state[c]]
             /\ flight' = flight \cup upto(i - 1)
             /\ population' = Without(population, upto(i - 1))
    BY <1>5
  <2> DEFINE S == upto(i - 1)
             c == members[i]
  <2>2. i \in 1..Len(members) /\ RemoveFails(members, i)
    BY <1>3
  <2> HIDE DEF members
  <2>3. c \in Callers /\ upto(i) = S \cup {c}
    <3>1. 1..i = 1..(i - 1) \cup {i}
      BY <1>3, <2>2
    <3>2. QED
      BY <1>3, <2>2, <3>1
  <2>4. c \notin Waiting \ S
    BY <2>2 DEF RemoveFails
  <2>5. S \subseteq InRound
    <3>1. \A j \in 1..(i - 1) : j \in 1..Len(members)
      BY <1>3, <2>2
    <3>2. S \subseteq ToSet(members)
      BY <1>3, <3>1, Elements
    <3>3. QED
      BY <1>3, <3>2
  <2> HIDE DEF S, c
  <2>6. /\ pc' = "dead" /\ groups' = << >> /\ batch' = batch
        /\ state' = [d \in Callers |-> IF d \in S \cup {c} THEN "in_flight" ELSE state[d]]
        /\ flight' = flight \cup S /\ population' = Without(population, S)
    BY <2>1, <2>3 DEF S
  <2>7. QED
    BY <1>1, <2>3, <2>4, <2>5, <2>6, DispatchBroken
<1>6. QED
  BY <1>4, <1>5 DEF Dispatch

LEMMA ResolveOrdered ==
  ASSUME SInv, NEW failed, Resolve(failed)
  PROVE  Ordered'
<1> DEFINE members == ToSet(batch)
<1>1. /\ pc = "call" /\ pc' = "group" /\ batch' = << >> /\ flight' = flight \ members
      /\ accepted' = accepted \ (members \cap accepted)
      /\ cancelled' = cancelled /\ age' = age /\ population' = population /\ groups' = groups
      /\ \A c \in Callers : c \notin members =>
           state'[c] = state[c] /\ completion'[c] = completion[c]
  BY DEF Resolve, Release
<1>2. members \subseteq flight /\ members \cap Waiting = {} /\ Waiting \subseteq Callers
  BY <1>1, RoundFacts DEF SInv, Calls, Line
<1> HIDE DEF members
<1>3. Line'
  <2>1. flight' \cap Waiting = {}
    BY <1>1 DEF SInv, Line
  <2>2. \A c \in Waiting : state'[c] = state[c] /\ completion'[c] \in {completion[c], "dropped"}
    BY <1>1, <1>2
  <2>3. QED
    BY <1>1, <2>1, <2>2, LineStays DEF SInv
<1>4. Rounds'
  BY <1>1, RoundsWait DEF SInv
<1>5. Calls'
  <2>1. Len(<< >>) = 0 /\ NoDup(<< >>) /\ ToSet(<< >>) = {}
    BY DEF NoDup, ToSet
  <2>2. QED
    BY <1>1, <2>1, MaxBatchIsNumber DEF Calls, BatchFits
<1>6. Kept'
  <2>1. Waiting' = Waiting
    BY <1>1 DEF Waiting
  <2>2. QED
    BY <1>1, <1>2, <2>1 DEF SInv, Kept
<1>7. QED
  BY <1>3, <1>4, <1>5, <1>6 DEF Ordered

(***************************************************************************)
(* Types, and the theorems.                                                *)
(***************************************************************************)
\* The types of the accounting.
AdmissionTyped ==
  accepted \subseteq Callers /\ globalPending \in Nat /\ sessionPending \in [Sessions -> Nat]

LEMMA AdmissionTypes == IInv => AdmissionTyped
<1> SUFFICES ASSUME IInv PROVE AdmissionTyped
  OBVIOUS
<1>1. accepted \subseteq Callers /\ sessionPending = [s \in Sessions |-> sessionPending[s]]
  BY DEF IInv, Held
<1>2. globalPending \in Nat
  BY <1>1, Counting DEF IInv, CountersAreExact
<1>3. \A s \in Sessions : HeldBy(s) \subseteq Callers
  BY <1>1 DEF HeldBy
<1>4. \A s \in Sessions : sessionPending[s] \in Nat
  BY <1>3, Counting DEF IInv, CountersAreExact
<1>5. QED
  BY <1>1, <1>2, <1>4 DEF AdmissionTyped

\* The types of everything but the accounting.
Typed ==
  /\ caller \in [Callers -> {"away", "waiting", "leaving"}]
  /\ completion \in [Callers -> {"none", "open", "result", "error", "dropped"}]
  /\ state \in [Callers -> PendingState] /\ cancelled \in [Callers -> BOOLEAN]
  /\ age \in [Callers -> Fresh..Overdue] /\ ticked \subseteq Callers
  /\ population \in Seq(Callers) /\ flight \subseteq Callers
  /\ window \in {"closed", "open", "elapsed"} /\ wake \in BOOLEAN
  /\ pc \in {"idle", "select", "group", "call", "dead", "closed"}
  /\ groups \in Seq(Seq(Callers)) /\ batch \in Seq(Callers)

LEMMA Rejuvenates ==
  ASSUME TypeOK, NEW S
  PROVE  NotWaiting(S) \in [Callers -> Fresh..Overdue]
  BY DEF TypeOK, NotWaiting, Fresh, Overdue

LEMMA CallersTyped ==
  ASSUME SInv, NEW c \in Callers, Submit(c) \/ Return(c) \/ Disconnect(c) \/ Cancel(c)
  PROVE  Typed'
<1>1. CASE Submit(c)
  <2>1. population' \in Seq(Callers)
    BY <1>1 DEF Submit, SInv, TypeOK
  <2>2. QED
    BY <1>1, <2>1 DEF Submit, SInv, TypeOK, Typed, PendingState, Fresh, Overdue, dispatcher
<1>2. CASE Return(c)
  BY <1>2, Rejuvenates DEF Return, Forget, SInv, TypeOK, Typed, PendingState, clock, dispatcher
<1>3. CASE Disconnect(c)
  BY <1>3 DEF Disconnect, SInv, TypeOK, Typed, clock, dispatcher
<1>4. CASE Cancel(c)
  <2>1. population' \in Seq(Callers)
    <3>1. population' = population \/ population' = Without(population, {c})
      BY <1>4 DEF Cancel
    <3>2. QED
      BY <3>1, Shrinks DEF SInv, TypeOK
  <2>2. age' \in [Callers -> Fresh..Overdue]
    BY <1>4, Rejuvenates DEF Cancel, Forget, SInv, TypeOK
  <2>3. state' \in [Callers -> PendingState]
    BY <1>4 DEF Cancel, Forget, SInv, TypeOK, PendingState
  <2>4. completion' \in [Callers -> {"none", "open", "result", "error", "dropped"}]
    BY <1>4 DEF Cancel, Forget, SInv, TypeOK
  <2>5. cancelled' \in [Callers -> BOOLEAN] /\ wake' \in BOOLEAN
    BY <1>4 DEF Cancel, SInv, TypeOK
  <2>6. QED
    BY <1>4, <2>1, <2>2, <2>3, <2>4, <2>5 DEF Cancel, SInv, TypeOK, Typed, clock, dispatcher
<1>5. QED
  BY <1>1, <1>2, <1>3, <1>4

LEMMA TimeTyped ==
  ASSUME SInv, Time
  PROVE  Typed'
<1>1. CASE WindowElapses
  BY <1>1 DEF WindowElapses, SInv, TypeOK, Typed, request, dispatcher
<1>2. ASSUME NEW c \in Callers, Elapse(c) PROVE Typed'
  <2>1. LastAge \in Fresh..Overdue
    BY SchedulerAssumption
  <2>2. age' \in [Callers -> Fresh..Overdue]
    <3>1. age[c] \in 0..3 /\ age[c] < LastAge /\ LastAge \in 0..3
      BY <1>2, <2>1 DEF Elapse, SInv, TypeOK, Fresh, Overdue
    <3>2. age[c] + 1 \in Fresh..Overdue
      BY <3>1 DEF Fresh, Overdue
    <3>3. age' = [age EXCEPT ![c] = age[c] + 1] /\ age \in [Callers -> Fresh..Overdue]
      BY <1>2 DEF Elapse, SInv, TypeOK
    <3>4. QED
      BY <3>2, <3>3
  <2>3. ticked' \subseteq Callers
    BY <1>2 DEF Elapse, SInv, TypeOK
  <2>4. QED
    BY <1>2, <2>2, <2>3 DEF Elapse, SInv, TypeOK, Typed, dispatcher
<1>3. QED
  BY <1>1, <1>2 DEF Time

LEMMA SelectTyped ==
  ASSUME SInv, SelectRound
  PROVE  Typed'
<1> DEFINE expired == Older(Waiting, Overdue)
           live == Without(population, expired)
           candidates == Only(Select(live, Older(ToSet(live), Aged), MaxBatch),
                              {c \in Callers : ~cancelled[c]})
           urgent == Older(ToSet(candidates), Urgent)
<1>1. /\ population' = live
      /\ state' = [c \in Callers |-> IF c \in expired THEN "failed" ELSE state[c]]
      /\ completion' = [c \in Callers |->
             IF c \in expired /\ completion[c] = "open" THEN "error" ELSE completion[c]]
      /\ age' = NotWaiting(expired) /\ ticked' \in {ticked \ expired, {}}
      /\ window' \in {window, "closed"} /\ pc' \in {"idle", "dead", "group"}
      /\ groups' \in {groups, Grouped(candidates, urgent)}
      /\ caller' = caller /\ cancelled' = cancelled /\ flight' = flight /\ wake' = wake
      /\ batch' = batch
  BY DEF SelectRound
<1>2. live \in Seq(Callers) /\ candidates \in Seq(Callers) /\ NoDup(candidates)
  <2> HIDE DEF live, candidates
  <2>1. live \in Seq(Callers) /\ Selected(live, Older(ToSet(live), Aged), MaxBatch, candidates)
    BY RoundSelected DEF live, candidates
  <2>2. QED
    BY <2>1 DEF Selected
<1> HIDE DEF expired, live, candidates, urgent
<1>3. Grouped(candidates, urgent) \in Seq(Seq(Callers))
  BY <1>2, GroupedByKey DEF GroupsOf
<1>4. age' \in [Callers -> Fresh..Overdue]
  BY <1>1, Rejuvenates DEF SInv
<1>5. state' \in [Callers -> PendingState]
  BY <1>1 DEF SInv, TypeOK, PendingState
<1>6. completion' \in [Callers -> {"none", "open", "result", "error", "dropped"}]
  BY <1>1 DEF SInv, TypeOK
<1>7. groups' \in Seq(Seq(Callers)) /\ ticked' \subseteq Callers
      /\ window' \in {"closed", "open", "elapsed"}
  BY <1>1, <1>3 DEF SInv, TypeOK
<1>8. QED
  BY <1>1, <1>2, <1>4, <1>5, <1>6, <1>7 DEF SInv, TypeOK, Typed

LEMMA DispatchTyped ==
  ASSUME SInv, Dispatch
  PROVE  Typed'
<1> DEFINE members == Head(groups)
           upto(n) == {members[i] : i \in 1..n}
<1>1. /\ groups # << >> /\ age' = NotWaiting(flight' \ flight) /\ completion' = completion
      /\ caller' = caller /\ cancelled' = cancelled /\ window' = window /\ ticked' = ticked
      /\ wake' = wake /\ pc' \in {"call", "dead"} /\ batch' \in {members, batch}
      /\ groups' \in {Tail(groups), << >>}
  BY DEF Dispatch, clock
<1>2. members \in Seq(Callers) /\ Tail(groups) \in Seq(Seq(Callers))
        /\ ToSet(members) \subseteq Callers
  <2>1. groups \in Seq(Seq(Callers))
    BY DEF SInv, TypeOK
  <2>2. members \in Seq(Callers) /\ Tail(groups) \in Seq(Seq(Callers))
    BY <1>1, <2>1
  <2> HIDE DEF members
  <2>3. QED
    BY <2>2, Elements
<1>3. \E S, U : /\ U \subseteq Callers /\ flight' = flight \cup U
                /\ population' = Without(population, U)
                /\ state' = [c \in Callers |-> IF c \in S THEN "in_flight" ELSE state[c]]
  <2>1. CASE /\ flight' = flight \cup ToSet(members)
             /\ population' = Without(population, ToSet(members))
             /\ state' = [c \in Callers |-> IF c \in ToSet(members) THEN "in_flight" ELSE state[c]]
    BY <1>2, <2>1
  <2>2. ASSUME NEW i \in DOMAIN members,
               flight' = flight \cup upto(i - 1), population' = Without(population, upto(i - 1)),
               state' = [c \in Callers |-> IF c \in upto(i) THEN "in_flight" ELSE state[c]]
        PROVE  \E S, U : /\ U \subseteq Callers /\ flight' = flight \cup U
                         /\ population' = Without(population, U)
                         /\ state' = [c \in Callers |-> IF c \in S THEN "in_flight" ELSE state[c]]
    <3>1. upto(i - 1) \subseteq Callers
      BY <1>2
    <3> HIDE DEF upto
    <3>2. QED
      BY <2>2, <3>1
  <2>3. QED
    BY <2>1, <2>2 DEF Dispatch
<1>4. PICK S, U : /\ U \subseteq Callers /\ flight' = flight \cup U
                  /\ population' = Without(population, U)
                  /\ state' = [c \in Callers |-> IF c \in S THEN "in_flight" ELSE state[c]]
  BY <1>3
<1> HIDE DEF members
<1>5. population' \in Seq(Callers)
  BY <1>4, Shrinks DEF SInv
<1>6. age' \in [Callers -> Fresh..Overdue]
  BY <1>1, Rejuvenates DEF SInv
<1>7. state' \in [Callers -> PendingState]
  BY <1>4 DEF SInv, TypeOK, PendingState
<1>8. groups' \in Seq(Seq(Callers)) /\ batch' \in Seq(Callers)
  <2>1. groups' = Tail(groups) \/ groups' = << >>
    BY <1>1
  <2>2. batch' = members \/ batch' = batch
    BY <1>1
  <2>3. << >> \in Seq(Seq(Callers)) /\ batch \in Seq(Callers)
    BY DEF SInv, TypeOK
  <2>4. QED
    BY <1>2, <2>1, <2>2, <2>3
<1>9. QED
  BY <1>1, <1>4, <1>5, <1>6, <1>7, <1>8 DEF SInv, TypeOK, Typed

LEMMA ResolveTyped ==
  ASSUME SInv, NEW failed, Resolve(failed)
  PROVE  Typed'
<1>1. state' \in [Callers -> PendingState]
  BY DEF Resolve, SInv, TypeOK, PendingState
<1>2. completion' \in [Callers -> {"none", "open", "result", "error", "dropped"}]
  BY DEF Resolve, SInv, TypeOK
<1>3. /\ flight' \subseteq Callers /\ batch' \in Seq(Callers)
      /\ pc' \in {"idle", "select", "group", "call", "dead", "closed"}
  BY DEF Resolve, SInv, TypeOK
<1>4. QED
  BY <1>1, <1>2, <1>3 DEF Resolve, SInv, TypeOK, Typed, clock

LEMMA TypedStep ==
  ASSUME SInv, [Next]_vars
  PROVE  Typed'
<1>1. CASE \E c \in Callers : Submit(c) \/ Return(c) \/ Disconnect(c) \/ Cancel(c)
  BY <1>1, CallersTyped
<1>2. CASE Time
  BY <1>2, TimeTyped
<1>3. CASE Wake
  BY <1>3 DEF Wake, SInv, TypeOK, Typed, request, clock
<1>4. CASE SelectRound
  BY <1>4, SelectTyped
<1>5. CASE Dispatch
  BY <1>5, DispatchTyped
<1>6. CASE ProviderAnswers
  BY <1>6, ResolveTyped DEF ProviderAnswers
<1>7. CASE EndRound
  BY <1>7 DEF EndRound, SInv, TypeOK, Typed, request
<1>8. CASE Close
  BY <1>8 DEF Close, SInv, TypeOK, Typed, request, clock
<1>9. CASE UNCHANGED vars
  BY <1>9 DEF vars, SInv, TypeOK, Typed, request, clock, dispatcher
<1>10. QED
  BY <1>1, <1>2, <1>3, <1>4, <1>5, <1>6, <1>7, <1>8, <1>9 DEF Next, Dispatcher

LEMMA OrderedStep ==
  ASSUME SInv, [Next]_vars
  PROVE  Ordered'
<1>1. CASE \E c \in Callers : Submit(c) \/ Return(c) \/ Disconnect(c) \/ Cancel(c)
  BY <1>1, SubmitOrdered, ReturnOrdered, CancelOrdered
<1>2. CASE Time
  BY <1>2, WaitOrdered, ElapseOrdered DEF Time
<1>3. CASE SelectRound \/ Dispatch
  BY <1>3, SelectOrdered, DispatchOrdered
<1>4. CASE ProviderAnswers
  BY <1>4, ResolveOrdered DEF ProviderAnswers
<1>5. CASE Wake \/ EndRound \/ Close \/ UNCHANGED vars
  BY <1>5, WaitOrdered, EndRoundOrdered
<1>6. QED
  BY <1>1, <1>2, <1>3, <1>4, <1>5 DEF Next, Dispatcher

LEMMA SchedulerInit == Init => SInv
<1> SUFFICES ASSUME Init PROVE SInv
  OBVIOUS
<1>1. IInv
  BY InvInit
<1>2. Typed
  <2>1. /\ caller \in [Callers -> {"away", "waiting", "leaving"}]
        /\ completion \in [Callers -> {"none", "open", "result", "error", "dropped"}]
        /\ state \in [Callers -> PendingState] /\ cancelled \in [Callers -> BOOLEAN]
        /\ age \in [Callers -> Fresh..Overdue]
    BY DEF Init, PendingState, Fresh, Overdue
  <2>2. << >> \in Seq(Callers) /\ << >> \in Seq(Seq(Callers))
    OBVIOUS
  <2>3. /\ ticked = {} /\ population = << >> /\ flight = {} /\ window = "closed" /\ wake = FALSE
        /\ pc = "idle" /\ groups = << >> /\ batch = << >>
    BY DEF Init
  <2>4. QED
    BY <2>1, <2>2, <2>3 DEF Typed
<1>3. TypeOK
  BY <1>1, <1>2, AdmissionTypes DEF TypeOK, Typed, AdmissionTyped
<1>4. /\ population = << >> /\ groups = << >> /\ batch = << >> /\ flight = {} /\ accepted = {}
      /\ pc = "idle"
  BY DEF Init
<1>5. /\ ToSet(<< >>) = {} /\ NoDup(<< >>) /\ Len(<< >>) = 0 /\ DOMAIN << >> = {}
      /\ \A c, d : ~ Before(<< >>, c, d)
  BY DEF ToSet, NoDup, Before
<1>6. Waiting = {} /\ InRound = {}
  BY <1>4, <1>5 DEF Waiting, InRound
<1>7. Line
  BY <1>4, <1>5, <1>6 DEF Line
<1>8. Rounds
  BY <1>4, <1>5, <1>6 DEF Rounds
<1>9. Calls
  BY <1>4, <1>5, MaxBatchIsNumber DEF Calls, BatchFits
<1>10. Kept
  BY <1>4, <1>6 DEF Kept
<1>11. QED
  BY <1>1, <1>3, <1>7, <1>8, <1>9, <1>10 DEF SInv

LEMMA SchedulerStep == SInv /\ [Next]_vars => SInv'
<1> SUFFICES ASSUME SInv, [Next]_vars PROVE SInv'
  OBVIOUS
<1>1. IInv'
  BY InvStep DEF SInv
<1>2. AdmissionTyped'
  BY <1>1, AdmissionTypes, PTL
<1>3. TypeOK'
  BY <1>2, TypedStep DEF TypeOK, Typed, AdmissionTyped
<1>4. QED
  BY <1>1, <1>3, OrderedStep DEF SInv, Ordered

\* Every variable has its type.
THEOREM TypeCorrect == Spec => []TypeOK
<1>1. SInv => TypeOK
  BY DEF SInv
<1>2. QED
  BY <1>1, SchedulerInit, SchedulerStep, PTL DEF Spec

\* Who waits or is in flight for a caller that stayed holds capacity, nobody else than who waits
\* or is in flight does, and the counters count the holders: whichever of expiry, cancel and
\* resolution a request meets, it returns its capacity once.
THEOREM CapacityIsReturnedOnce == Spec => []CapacityIsExact
<1>1. SInv => CapacityIsExact
  BY DEF SInv, IInv, Kept, CapacityIsExact
<1>2. QED
  BY <1>1, SchedulerInit, SchedulerStep, PTL DEF Spec

\* The provider is never given more requests than it takes, a request twice, or requests
\* of different batch keys.
THEOREM BatchesFit == Spec => []BatchFits
<1>1. SInv => BatchFits
  BY DEF SInv, Calls
<1>2. QED
  BY <1>1, SchedulerInit, SchedulerStep, PTL DEF Spec

\* What FifoPerSession says of one step.
FifoStep ==
  \A i, j \in DOMAIN population :
       /\ i < j /\ SameQueue(population[i], population[j])
       /\ population[j] \in flight' \ flight /\ population[i] \in ToSet(population')
       => /\ KeyOf[population[i]] # KeyOf[population[j]]
          /\ population[i] \in InRound' \/ pc' = "dead"

LEMMA FifoAtDispatch ==
  ASSUME SInv, Dispatch
  PROVE  FifoStep
<1> SUFFICES ASSUME NEW i \in DOMAIN population, NEW j \in DOMAIN population, i < j,
                    SameQueue(population[i], population[j]),
                    population[j] \in flight' \ flight, population[i] \in ToSet(population')
             PROVE  /\ KeyOf[population[i]] # KeyOf[population[j]]
                    /\ population[i] \in InRound' \/ pc' = "dead"
  BY DEF FifoStep
<1> DEFINE c == population[i]
           d == population[j]
           members == Head(groups)
           upto(n) == {members[k] : k \in 1..n}
<1>1. population \in Seq(Callers) /\ groups \in Seq(Seq(Callers)) /\ NoDup(population)
  BY DEF SInv, TypeOK, Line
<1>2. Before(population, c, d) /\ c \in Waiting /\ d \in Waiting /\ ~ Before(population, d, c)
  <2>1. Before(population, c, d) /\ Len(population) \in Nat
    BY <1>1 DEF Before
  <2> HIDE DEF c, d
  <2>2. QED
    BY <1>1, <2>1, InQueue, NoCycle DEF Waiting
<1>3. SameQueue(c, d) /\ d \in flight' /\ d \notin flight /\ c \in ToSet(population')
  OBVIOUS
<1> HIDE DEF c, d
<1>4. groups # << >>
  BY DEF Dispatch
<1>5. /\ members = groups[1] /\ 1 \in DOMAIN groups /\ members \in Seq(Callers)
      /\ ToSet(members) \subseteq InRound
  <2>1. members = groups[1] /\ 1 \in DOMAIN groups
    BY <1>1, <1>4
  <2>2. groups[1] \in Seq(Callers) /\ ToSet(groups[1]) \subseteq InRound
    BY <2>1, RoundFacts DEF SInv
  <2>3. QED
    BY <2>1, <2>2
<1> HIDE DEF members
\* Whoever is taken is in the first batch, and who is ahead of it is in the round.
<1>6. ASSUME d \in ToSet(members), c \notin ToSet(members)
      PROVE c \in InRound /\ KeyOf[c] # KeyOf[d]
  <2>1. c \in InRound
    BY <1>2, <1>3, <1>5, <1>6 DEF SInv, Rounds
  <2>2. PICK k \in DOMAIN groups : c \in ToSet(groups[k])
    BY <2>1 DEF InRound
  <2>3. KeyOf[c] = KeyOf[d] <=> k = 1
    BY <1>5, <1>6, <2>2 DEF SInv, Rounds
  <2>4. QED
    BY <1>5, <1>6, <2>1, <2>2, <2>3
<1>7. CASE /\ flight' = flight \cup ToSet(members) /\ groups' = Tail(groups)
           /\ population' = Without(population, ToSet(members))
  <2>1. Waiting' = Waiting \ ToSet(members)
    BY <1>7, Shrinks DEF SInv
  <2>2. d \in ToSet(members) /\ c \notin ToSet(members)
    BY <1>3, <1>7, <2>1 DEF Waiting
  <2>3. InRound' = InRound \ ToSet(members)
    BY <1>4, <1>7, NextBatch DEF SInv, members
  <2>4. QED
    BY <1>6, <2>2, <2>3 DEF c, d
<1>8. ASSUME NEW n \in DOMAIN members, pc' = "dead", flight' = flight \cup upto(n - 1),
             population' = Without(population, upto(n - 1))
      PROVE  KeyOf[c] # KeyOf[d]
  <2> DEFINE S == upto(n - 1)
  <2>1. n \in 1..Len(members) /\ Len(members) \in Nat /\ \A k \in 1..(n - 1) : k \in 1..Len(members)
    BY <1>5
  <2>2. PICK b \in 1..(n - 1) : members[b] = d
    BY <1>3, <1>8
  <2>3. d \in ToSet(members)
    BY <1>5, <2>1, <2>2, Elements
  <2>4. \A k \in 1..(n - 1) : members[k] # c
    <3>1. population' = Without(population, S)
      BY <1>8
    <3>2. c \in S <=> \E k \in 1..(n - 1) : members[k] = c
      OBVIOUS
    <3> HIDE DEF S
    <3>3. Waiting' = Waiting \ S
      BY <3>1, Shrinks DEF SInv
    <3>4. QED
      BY <1>3, <3>2, <3>3 DEF Waiting
  <2>5. CASE c \notin ToSet(members)
    BY <1>6, <2>3, <2>5
  <2>6. CASE c \in ToSet(members)
    <3>1. PICK a \in 1..Len(members) : members[a] = c
      BY <1>5, <2>6, Elements
    <3>2. b < a
      BY <2>1, <2>2, <2>4, <3>1
    <3>3. Before(members, d, c)
      BY <2>1, <2>2, <3>1, <3>2 DEF Before
    <3>4. SameQueue(d, c)
      BY <1>3 DEF SameQueue
    <3>5. Before(population, d, c)
      BY <1>2, <1>5, <3>3, <3>4 DEF SInv, Rounds
    <3>6. QED
      BY <1>2, <3>5
  <2>7. QED
    BY <2>5, <2>6
<1>9. CASE \E n \in DOMAIN members : /\ pc' = "dead" /\ flight' = flight \cup upto(n - 1)
                                     /\ population' = Without(population, upto(n - 1))
  BY <1>8, <1>9 DEF c, d
<1>10. QED
  BY <1>7, <1>9 DEF Dispatch, members

\* A session's requests of one priority are dispatched in submission order.  Only a dispatch
\* adds to what is in flight, so it is a matter of that step.
THEOREM FirstComeFirstServed == Spec => FifoPerSession
<1>1. SInv /\ [Next]_vars => [FifoStep]_vars
  <2> SUFFICES ASSUME SInv, Next PROVE FifoStep
    OBVIOUS
  <2>1. ASSUME flight' \subseteq flight PROVE FifoStep
    BY <2>1 DEF FifoStep
  <2>2. CASE \E c \in Callers : Submit(c) \/ Return(c) \/ Disconnect(c) \/ Cancel(c)
    BY <2>1, <2>2 DEF Submit, Return, Disconnect, Cancel
  <2>3. CASE Time
    BY <2>1, <2>3 DEF Time, WindowElapses, Elapse
  <2>4. CASE Wake \/ SelectRound \/ EndRound \/ Close
    BY <2>1, <2>4 DEF Wake, SelectRound, EndRound, Close
  <2>5. CASE ProviderAnswers
    BY <2>1, <2>5 DEF ProviderAnswers, Resolve
  <2>6. CASE Dispatch
    BY <2>6, FifoAtDispatch
  <2>7. QED
    BY <2>2, <2>3, <2>4, <2>5, <2>6 DEF Next, Dispatcher
<1>2. QED
  BY <1>1, SchedulerInit, SchedulerStep, PTL DEF Spec, FifoPerSession, FifoStep

\* What a round that dispatches serves: as many as fit, or all that wait; and of the
\* aged NORMAL requests at least the one that has waited longest.
RoundServes ==
  pc = "select" /\ pc' = "group" =>
    /\ Cardinality(InRound') = MaxBatch \/ InRound' = Waiting'
    /\ \A c \in Waiting' \ High : age[c] >= Aged =>
         \E d \in InRound' \ High : d = c \/ Before(population', d, c)

\* A round serves whom it has to.
LEMMA SelectServes ==
  ASSUME SInv, SelectRound
  PROVE  RoundServes
<1> SUFFICES ASSUME pc' = "group" PROVE RoundServes
  BY DEF RoundServes
<1> DEFINE live == Without(population, Older(Waiting, Overdue))
           candidates == Only(Select(live, Older(ToSet(live), Aged), MaxBatch),
                              {c \in Callers : ~cancelled[c]})
           urgent == Older(ToSet(candidates), Urgent)
<1>1. population' = live /\ groups' = Grouped(candidates, urgent)
  BY DEF SelectRound
<1>2. NoDup(live) /\ Selected(live, Older(ToSet(live), Aged), MaxBatch, candidates)
  <2> HIDE DEF live, candidates
  <2>1. QED
    BY RoundSelected DEF live, candidates
<1> HIDE DEF live, candidates, urgent
<1>3. candidates \in Seq(Callers) /\ NoDup(candidates)
  BY <1>2 DEF Selected
<1>4. GroupsOf(candidates, groups')
  BY <1>1, <1>3, GroupedByKey
<1>5. InRound' = ToSet(candidates)
  BY <1>4 DEF InRound, GroupsOf
<1>6. Waiting' = ToSet(live)
  BY <1>1 DEF Waiting
<1>7. Cardinality(InRound') = MaxBatch \/ InRound' = Waiting'
  <2>1. Cardinality(ToSet(candidates)) = Len(candidates)
    BY <1>3, SeqSize
  <2>2. QED
    BY <1>2, <1>5, <1>6, <2>1 DEF Selected
<1>8. ASSUME NEW c \in Waiting' \ High, age[c] >= Aged
      PROVE  \E d \in InRound' \ High : d = c \/ Before(population', d, c)
  <2>1. c \in (ToSet(live) \cap Older(ToSet(live), Aged)) \ High
    BY <1>6, <1>8 DEF Older
  <2>2. QED
    BY <1>1, <1>2, <1>5, <2>1 DEF Selected
<1>9. QED
  BY <1>7, <1>8 DEF RoundServes

\* No slot stays empty while a request waits, and aged NORMAL work is served in
\* every round, whatever HIGH traffic there is.
THEOREM RoundsAreFair == Spec => [][RoundServes]_vars
<1>1. SInv /\ [Next]_vars => [RoundServes]_vars
  <2> SUFFICES ASSUME SInv, Next PROVE RoundServes
    OBVIOUS
  <2>1. CASE SelectRound
    BY <2>1, SelectServes
  <2>2. CASE \E c \in Callers : Submit(c) \/ Return(c) \/ Disconnect(c) \/ Cancel(c)
    BY <2>2 DEF Submit, Return, Disconnect, Cancel, dispatcher, RoundServes
  <2>3. CASE Time \/ Wake \/ Dispatch \/ ProviderAnswers \/ EndRound \/ Close
    BY <2>3 DEF Time, WindowElapses, Elapse, Wake, Dispatch, ProviderAnswers, Resolve, EndRound,
                Close, dispatcher, RoundServes
  <2>4. QED
    BY <2>1, <2>2, <2>3 DEF Next, Dispatcher
<1>2. QED
  BY <1>1, SchedulerInit, SchedulerStep, PTL DEF Spec

(***************************************************************************)
(* NORMAL requests under brisk rounds.                                     *)
(***************************************************************************)
Tick(c) == IF c \in ticked THEN 1 ELSE 0

\* c is in the batch that goes out next, in a round nobody has left.
Hot(c) ==
  pc = "group" /\ groups # << >> /\ c \in ToSet(Head(groups)) /\ InRound \subseteq Waiting

\* Another NORMAL request is ahead of c, and not in the round.
Behind(c) == \E d \in (Waiting \ High) \ InRound : Before(population, d, c)

Paced(c) ==
  /\ age[c] <= Urgent
  /\ ~ Hot(c) => age[c] <= Aged + Tick(c)
  /\ c \notin InRound /\ pc # "dead" /\ Behind(c) => age[c] <= Tick(c)

\* A NORMAL request is urgent only in the batch that goes out next or if it got so
\* since the last round, and behind another it is not even aged then.
Pace == \A c \in Waiting \ High : Paced(c)

\* At most two callers are NORMAL.
TwoNormals == \A b, c, d \in Callers \ High : b = c \/ c = d \/ b = d

LEMMA Ages ==
  ASSUME SInv
  PROVE  /\ Waiting \subseteq Callers /\ \A c \in Waiting : age[c] \in 0..3
         /\ \A c : Tick(c) \in {0, 1}
         /\ \A c, d : Before(population, c, d) => c \in Waiting /\ d \in Waiting
<1>1. Waiting \subseteq Callers
  BY RoundFacts DEF SInv
<1>2. \A c \in Waiting : age[c] \in 0..3
  BY <1>1 DEF SInv, TypeOK, Fresh, Overdue
<1>3. \A c : Tick(c) \in {0, 1}
  BY DEF Tick
<1>4. \A c, d : Before(population, c, d) => c \in Waiting /\ d \in Waiting
  BY InQueue DEF SInv, TypeOK, Waiting
<1>5. QED
  BY <1>1, <1>2, <1>3, <1>4

\* Steps that take requests out of the queue or leave it alone.
LEMMA PaceStays ==
  ASSUME SInv, Pace, \A c : ~ Hot(c), groups' = groups, pc = "dead" => pc' = "dead",
         Waiting' \subseteq Waiting,
         \A c, d : Before(population', c, d) => Before(population, c, d),
         \A c \in Waiting' : age'[c] = age[c] /\ (c \in ticked => c \in ticked')
  PROVE  Pace'
<1>1. InRound' = InRound
  BY DEF InRound
<1> SUFFICES ASSUME NEW c \in Waiting' \ High PROVE Paced(c)'
  BY DEF Pace
<1>2. c \in Waiting \ High /\ age'[c] = age[c] /\ Paced(c) /\ ~ Hot(c) /\ age[c] \in 0..3
  BY Ages DEF Pace
<1>3. Tick(c) \in {0, 1} /\ Tick(c)' \in {0, 1} /\ Tick(c) <= Tick(c)'
  BY DEF Tick
<1>4. age'[c] <= Urgent /\ age'[c] <= Aged + Tick(c)'
  BY <1>2, <1>3 DEF Paced, Aged, Urgent
<1>5. Behind(c)' => Behind(c)
  BY <1>1 DEF Behind
<1>6. ASSUME c \notin InRound', pc' # "dead", Behind(c)' PROVE age'[c] <= Tick(c)'
  <2>1. age[c] <= Tick(c)
    BY <1>1, <1>2, <1>5, <1>6 DEF Paced
  <2>2. QED
    BY <1>2, <1>3, <2>1
<1>7. QED
  BY <1>4, <1>6 DEF Paced

LEMMA PaceCaller ==
  ASSUME SInv, Pace, NEW c \in Callers, Return(c) \/ Disconnect(c) \/ Cancel(c)
  PROVE  Pace'
<1>1. groups' = groups /\ pc' = pc /\ ticked' = ticked /\ pc # "group"
  BY DEF Return, Disconnect, Cancel, LoopFree, dispatcher, clock
<1>2. \A d : ~ Hot(d)
  BY <1>1 DEF Hot
<1>3. \/ population' = population
      \/ population' = Without(population, {c}) /\ age' = NotWaiting({c})
  BY DEF Return, Disconnect, Cancel
<1>4. /\ Waiting' \subseteq Waiting
      /\ \A d, e : Before(population', d, e) => Before(population, d, e)
  <2>1. CASE population' = population
    BY <2>1 DEF Waiting
  <2>2. CASE population' = Without(population, {c})
    BY <2>2, Shrinks DEF SInv
  <2>3. QED
    BY <1>3, <2>1, <2>2
<1>5. ASSUME NEW d \in Waiting' PROVE age'[d] = age[d]
  <2>1. d \in Waiting /\ d \in Callers
    BY <1>4, Ages
  <2>2. CASE population' = Without(population, {c}) /\ age' = NotWaiting({c})
    <3>1. d # c
      BY <2>2, Shrinks DEF SInv
    <3>2. QED
      BY <2>1, <2>2, <3>1 DEF NotWaiting
  <2>3. CASE population' = population /\ Return(c)
    <3>1. d # c
      BY <2>1, <2>3 DEF Return, SInv, Line
    <3>2. QED
      BY <2>1, <2>3, <3>1 DEF Return, Forget, NotWaiting
  <2>4. CASE Disconnect(c)
    BY <2>4 DEF Disconnect
  <2>5. CASE population' = population /\ Cancel(c)
    <3>1. CASE c \notin flight \cup Waiting
      BY <2>1, <2>5, <3>1 DEF Cancel, Forget, NotWaiting
    <3>2. CASE age' = age
      BY <3>2
    <3>3. CASE population' = Without(population, {c}) /\ age' = NotWaiting({c})
      BY <2>2, <3>3
    <3>4. QED
      BY <2>5, <3>1, <3>2, <3>3 DEF Cancel
  <2>6. QED
    BY <1>3, <2>2, <2>3, <2>4, <2>5
<1>6. QED
  BY <1>1, <1>2, <1>4, <1>5, PaceStays

LEMMA PaceSubmit ==
  ASSUME SInv, Pace, NEW c \in Callers, Submit(c)
  PROVE  Pace'
<1>1. /\ c \notin Waiting /\ c \notin InRound /\ population' = Append(population, c)
      /\ age' = [age EXCEPT ![c] = Fresh] /\ ticked' = ticked \ {c}
      /\ groups' = groups /\ pc' = pc /\ pc # "group"
  <2>1. c \notin Waiting /\ c \notin InRound
    BY DEF Submit, Gone
  <2>2. /\ population' = Append(population, c) /\ age' = [age EXCEPT ![c] = Fresh]
        /\ ticked' = ticked \ {c} /\ groups' = groups /\ pc' = pc
    BY DEF Submit, dispatcher
  <2>3. pc # "group"
    BY DEF Submit, LoopFree
  <2>4. QED
    BY <2>1, <2>2, <2>3
<1>2. /\ population \in Seq(Callers) /\ age \in [Callers -> Fresh..Overdue]
      /\ InRound' = InRound
  BY <1>1 DEF SInv, TypeOK, InRound
<1>3. /\ Waiting' = Waiting \cup {c}
      /\ \A d, e : Before(population', d, e) <=>
           Before(population, d, e) \/ (d \in Waiting /\ e = c)
  BY <1>1, <1>2, AppendOrder DEF Waiting
<1> SUFFICES ASSUME NEW d \in Waiting' \ High PROVE Paced(d)'
  BY DEF Pace
<1>4. d \in Callers /\ Tick(d) \in {0, 1} /\ Tick(d)' \in {0, 1}
  BY <1>3, Ages DEF Tick
<1>5. CASE d = c
  BY <1>1, <1>2, <1>5 DEF Paced, Tick, Aged, Urgent, Fresh
<1>6. CASE d # c
  <2>1. d \in Waiting \ High /\ Paced(d) /\ ~ Hot(d) /\ age[d] \in 0..3
    BY <1>1, <1>3, <1>6, Ages DEF Pace, Hot
  <2>2. age'[d] = age[d] /\ Tick(d)' = Tick(d)
    BY <1>1, <1>2, <1>4, <1>6 DEF Tick
  <2>3. Behind(d)' => Behind(d)
    BY <1>1, <1>2, <1>3, <1>6, Ages DEF Behind
  <2>4. age'[d] <= Urgent /\ age'[d] <= Aged + Tick(d)'
    BY <2>1, <2>2, <1>4 DEF Paced, Urgent, Aged
  <2>5. d \notin InRound' /\ pc' # "dead" /\ Behind(d)' => age'[d] <= Tick(d)'
    BY <1>1, <1>2, <2>1, <2>2, <2>3 DEF Paced
  <2>6. QED
    BY <2>4, <2>5 DEF Paced
<1>7. QED
  BY <1>5, <1>6

\* A request that passes a stage has not passed one since the last round.
LEMMA PaceElapse ==
  ASSUME Brisk, SInv, Pace, NEW c \in Callers, Elapse(c)
  PROVE  Pace'
<1>1. /\ c \notin ticked /\ c \in Waiting /\ age' = [age EXCEPT ![c] = @ + 1]
      /\ ticked' = ticked \cup {c} /\ population' = population
      /\ groups' = groups /\ pc' = pc /\ pc # "group"
  BY DEF Elapse, dispatcher, LoopFree
<1>2. age \in [Callers -> Fresh..Overdue] /\ InRound' = InRound /\ Waiting' = Waiting
  BY <1>1 DEF SInv, TypeOK, InRound, Waiting
<1> SUFFICES ASSUME NEW d \in Waiting \ High PROVE Paced(d)'
  BY <1>2 DEF Pace
<1>3. d \in Callers /\ Paced(d) /\ ~ Hot(d) /\ age[d] \in 0..3
  BY <1>1, Ages DEF Pace, Hot
<1>4. Behind(d)' <=> Behind(d)
  BY <1>1, <1>2 DEF Behind
<1>5. age'[d] = (IF d = c THEN age[d] + 1 ELSE age[d])
      /\ Tick(d)' = (IF d = c THEN 1 ELSE Tick(d)) /\ Tick(c) = 0 /\ Tick(d) \in {0, 1}
  BY <1>1, <1>2, <1>3 DEF Tick
<1>6. age[d] <= 1 + Tick(d)
  BY <1>3 DEF Paced, Aged
<1>7. age'[d] <= Urgent /\ age'[d] <= Aged + Tick(d)'
  BY <1>3, <1>5, <1>6 DEF Urgent, Aged
<1>8. ASSUME d \notin InRound', pc' # "dead", Behind(d)' PROVE age'[d] <= Tick(d)'
  <2>1. age[d] <= Tick(d)
    BY <1>1, <1>2, <1>3, <1>4, <1>8 DEF Paced
  <2>2. QED
    BY <1>3, <1>5, <2>1
<1>9. QED
  BY <1>7, <1>8 DEF Paced

LEMMA PaceWait ==
  ASSUME SInv, Pace,
         WindowElapses \/ Wake \/ Close \/ EndRound \/ \E failed : Resolve(failed)
  PROVE  Pace'
<1>1. /\ groups' = groups /\ ticked' = ticked /\ population' = population /\ age' = age
      /\ pc = "group" => groups = << >>
      /\ pc = "dead" => pc' = "dead"
  BY DEF WindowElapses, Wake, Close, EndRound, Resolve, LoopFree, request, clock, dispatcher
<1>2. \A c : ~ Hot(c)
  BY <1>1 DEF Hot
<1>3. QED
  BY <1>1, <1>2, PaceStays DEF Waiting

(***************************************************************************)
(* A round and its batches.                                                *)
(***************************************************************************)
\* Nobody waits, or the round is put off, or it starts.
SelectsNone ==
  pc' = "idle" /\ groups' = groups /\ Waiting' = {}

SelectsLater ==
  /\ groups' = groups /\ Waiting' \cap ticked \subseteq ticked' /\ window' = window
  /\ pc' = IF window = "closed" THEN "dead" ELSE "idle"
  /\ Coalesce /\ Waiting' # {}

SelectsNow ==
  /\ pc' = "group" /\ ticked' = {} /\ window' = window
  /\ InRound' \subseteq Waiting' /\ \A i \in DOMAIN groups' : groups'[i] # << >>
  /\ \A c \in Waiting' \ High : age[c] >= Aged =>
       \/ \E d \in InRound' \ High : Before(population', d, c)
       \/ /\ c \in InRound'
          /\ age[c] >= Urgent => groups' # << >> /\ c \in ToSet(Head(groups'))

LEMMA SelectKinds ==
  ASSUME SInv, SelectRound
  PROVE  /\ groups = << >> /\ InRound = {} /\ Waiting' \subseteq Waiting
         /\ \A c, d : Before(population', c, d) => Before(population, c, d)
         /\ \A c \in Waiting' : age'[c] = age[c]
         /\ SelectsNone \/ SelectsLater \/ SelectsNow
<1> DEFINE expired == Older(Waiting, Overdue)
           live == Without(population, expired)
           candidates == Only(Select(live, Older(ToSet(live), Aged), MaxBatch),
                              {c \in Callers : ~cancelled[c]})
           urgent == Older(ToSet(candidates), Urgent)
           hold == /\ Coalesce
                   /\ \/ window = "closed"
                      \/ urgent = {} /\ window # "elapsed" /\ Len(candidates) < MaxBatch
<1>1. /\ population' = live /\ age' = NotWaiting(expired) /\ pc = "select"
      /\ ticked' = IF candidates # << >> /\ hold THEN ticked \ expired ELSE {}
      /\ \/ candidates = << >> /\ pc' = "idle" /\ groups' = groups
         \/ /\ candidates # << >> /\ hold
            /\ pc' = IF window = "closed" THEN "dead" ELSE "idle"
            /\ groups' = groups /\ window' = window
         \/ /\ candidates # << >> /\ ~hold /\ pc' = "group" /\ window' = window
            /\ groups' = Grouped(candidates, urgent)
  BY DEF SelectRound
<1>2. NoDup(live) /\ Selected(live, Older(ToSet(live), Aged), MaxBatch, candidates)
  <2> HIDE DEF live, candidates
  <2>1. QED
    BY RoundSelected DEF live, candidates
<1>3. hold => Coalesce
  OBVIOUS
<1> HIDE DEF candidates, urgent, live, expired, hold
<1>4. /\ Waiting' = Waiting \ expired /\ Waiting \subseteq Callers
      /\ \A c, d : Before(population', c, d) => Before(population, c, d)
  BY <1>1, Shrinks, Ages DEF SInv, live
<1>5. \A c \in Waiting' : age'[c] = age[c]
  BY <1>1, <1>4 DEF NotWaiting
<1>6. groups = << >> /\ InRound = {}
  BY <1>1 DEF SInv, Calls, InRound
<1>7. /\ Waiting' = ToSet(live) /\ candidates \in Seq(Callers) /\ NoDup(candidates)
      /\ ToSet(candidates) \subseteq Waiting'
  BY <1>1, <1>2 DEF Waiting, Selected
<1>8. CASE candidates = << >> /\ pc' = "idle" /\ groups' = groups
  <2>1. Len(candidates) # MaxBatch /\ ToSet(candidates) = {}
    BY <1>8, MaxBatchIsNumber DEF ToSet
  <2>2. Waiting' = {}
    BY <1>2, <1>7, <2>1 DEF Selected
  <2>3. QED
    BY <1>4, <1>5, <1>6, <1>8, <2>2 DEF SelectsNone
<1>9. CASE /\ candidates # << >> /\ hold /\ groups' = groups /\ window' = window
           /\ pc' = IF window = "closed" THEN "dead" ELSE "idle"
  <2>1. Waiting' # {}
    <3>1. Head(candidates) \in ToSet(candidates)
      BY <1>7, <1>9, TailOrder
    <3>2. QED
      BY <1>7, <3>1
  <2>2. Waiting' \cap ticked \subseteq ticked'
    BY <1>1, <1>4, <1>9
  <2>3. QED
    BY <1>3, <1>4, <1>5, <1>6, <1>9, <2>1, <2>2 DEF SelectsLater
<1>10. CASE /\ candidates # << >> /\ ~hold /\ pc' = "group" /\ window' = window
            /\ groups' = Grouped(candidates, urgent)
  <2>1. GroupsOf(candidates, groups') /\ HurriedFirst(candidates, urgent, groups')
    BY <1>7, <1>10, GroupedByKey
  <2>2. InRound' = ToSet(candidates)
    BY <2>1 DEF InRound, GroupsOf
  <2>3. ASSUME NEW c \in Waiting' \ High, age[c] >= Aged
        PROVE  \/ \E d \in InRound' \ High : Before(population', d, c)
               \/ /\ c \in InRound'
                  /\ age[c] >= Urgent => groups' # << >> /\ c \in ToSet(Head(groups'))
    <3>1. c \in (ToSet(live) \cap Older(ToSet(live), Aged)) \ High
      BY <1>7, <2>3 DEF Older
    <3>2. \/ LeadsIn(candidates, c)
          \/ \E d \in ToSet(candidates) : d \notin High /\ Before(live, d, c)
      BY <1>2, <3>1 DEF Selected
    <3>3. CASE LeadsIn(candidates, c)
      <4>1. c \in ToSet(candidates)
        BY <3>3 DEF LeadsIn
      <4>2. ASSUME age[c] >= Urgent PROVE groups' # << >> /\ c \in ToSet(Head(groups'))
        <5>1. c \in urgent
          BY <4>1, <4>2 DEF urgent, Older
        <5>2. groups' # << >> /\ c \in ToSet(groups'[1])
          BY <2>1, <3>3, <5>1 DEF HurriedFirst
        <5>3. groups' \in Seq(Seq(Callers))
          BY <2>1 DEF GroupsOf
        <5>4. Head(groups') = groups'[1]
          BY <5>2, <5>3
        <5>5. QED
          BY <5>2, <5>4
      <4>3. QED
        BY <2>2, <4>1, <4>2
    <3>4. CASE \E d \in ToSet(candidates) : d \notin High /\ Before(live, d, c)
      BY <1>1, <2>2, <3>4
    <3>5. QED
      BY <3>2, <3>3, <3>4
  <2>4. \A i \in DOMAIN groups' : groups'[i] # << >>
    BY <2>1 DEF HurriedFirst
  <2>5. SelectsNow
    BY <1>1, <1>7, <1>10, <2>2, <2>3, <2>4 DEF SelectsNow
  <2>6. QED
    BY <1>4, <1>5, <1>6, <2>5
<1>11. QED
  BY <1>1, <1>8, <1>9, <1>10

LEMMA PaceSelect ==
  ASSUME TwoNormals, SInv, Pace, SelectRound
  PROVE  Pace'
<1>1. /\ groups = << >> /\ InRound = {} /\ Waiting' \subseteq Waiting /\ pc = "select"
      /\ \A c, d : Before(population', c, d) => Before(population, c, d)
      /\ \A c \in Waiting' : age'[c] = age[c]
      /\ SelectsNone \/ SelectsLater \/ SelectsNow
  BY SelectKinds DEF SelectRound
<1>2. CASE SelectsNone
  BY <1>2 DEF SelectsNone, Pace
<1>3. CASE SelectsLater
  <2>1. \A c : ~ Hot(c)
    BY <1>1 DEF Hot
  <2>2. QED
    BY <1>1, <1>3, <2>1, PaceStays DEF SelectsLater
<1>4. CASE SelectsNow
  <2> SUFFICES ASSUME NEW c \in Waiting' \ High PROVE Paced(c)'
    BY DEF Pace
  <2>1. /\ c \in Waiting \ High /\ age'[c] = age[c] /\ Paced(c) /\ ~ Hot(c)
        /\ age[c] \in 0..3 /\ Tick(c) \in {0, 1} /\ c \in Callers
    BY <1>1, Ages DEF Pace, Hot
  <2>2. Tick(c)' = 0
    BY <1>4 DEF SelectsNow, Tick
  <2>3. age[c] <= Urgent
    BY <2>1 DEF Paced
  <2>4. ASSUME ~ Hot(c)', age[c] >= Urgent PROVE FALSE
    <3>1. age[c] >= Aged
      BY <2>1, <2>4 DEF Urgent, Aged
    <3>2. ~ (groups' # << >> /\ c \in ToSet(Head(groups')))
      BY <1>4, <2>4 DEF SelectsNow, Hot
    <3>3. PICK d \in InRound' \ High : Before(population', d, c)
      BY <1>4, <2>4, <3>1, <3>2 DEF SelectsNow
    <3>4. Before(population, d, c) /\ d \in Waiting
      BY <1>1, <3>3, Ages
    <3>5. Behind(c)
      BY <1>1, <3>3, <3>4 DEF Behind
    <3>6. age[c] <= Tick(c)
      BY <1>1, <2>1, <3>5 DEF Paced
    <3>7. QED
      BY <2>1, <2>4, <3>6 DEF Urgent
  <2>5. ASSUME c \notin InRound', Behind(c)', age[c] >= Aged PROVE FALSE
    <3>1. PICK d \in InRound' \ High : Before(population', d, c)
      BY <1>4, <2>5 DEF SelectsNow
    <3>2. PICK e \in (Waiting' \ High) \ InRound' : Before(population', e, c)
      BY <2>5 DEF Behind
    <3>3. d \in Callers /\ e \in Callers /\ d # e
      BY <1>1, <1>4, <3>1, <3>2, Ages DEF SelectsNow
    <3>4. ~ Before(population', c, c)
      <4>1. NoDup(population) /\ Len(population) \in Nat
        BY DEF SInv, Line, TypeOK
      <4>2. QED
        BY <1>1, <4>1, NoCycle
    <3>5. d # c /\ e # c
      BY <3>1, <3>2, <3>4
    <3>6. QED
      BY <2>1, <3>1, <3>2, <3>3, <3>5 DEF TwoNormals
  <2>6. age'[c] <= Urgent
    BY <2>1, <2>3
  <2>7. ASSUME ~ Hot(c)' PROVE age'[c] <= Aged + Tick(c)'
    <3>1. ~ (age[c] >= Urgent)
      BY <2>4, <2>7
    <3>2. QED
      BY <2>1, <2>2, <3>1 DEF Urgent, Aged
  <2>8. ASSUME c \notin InRound', Behind(c)' PROVE age'[c] <= Tick(c)'
    <3>1. ~ (age[c] >= Aged)
      BY <2>5, <2>8
    <3>2. QED
      BY <2>1, <2>2, <3>1 DEF Aged
  <2>9. QED
    BY <2>6, <2>7, <2>8 DEF Paced
<1>5. QED
  BY <1>1, <1>2, <1>3, <1>4

\* The batch goes out, or its removal raises at a member that has left the queue.
DispatchesAll ==
  /\ pc' = "call" /\ groups' = Tail(groups)
  /\ Waiting' = Waiting \ ToSet(Head(groups)) /\ InRound' = InRound \ ToSet(Head(groups))

DispatchFails ==
  /\ pc' = "dead" /\ groups' = << >>
  /\ \E c \in ToSet(Head(groups)) :
       /\ cancelled[c] /\ c \notin Waiting /\ \E d \in Waiting : SameQueue(d, c)

LEMMA DispatchKinds ==
  ASSUME SInv, Dispatch
  PROVE  /\ pc = "group" /\ groups # << >> /\ Waiting' \subseteq Waiting
         /\ ToSet(Head(groups)) \subseteq InRound
         /\ \A c, d : Before(population', c, d) => Before(population, c, d)
         /\ \A c \in Waiting' : age'[c] = age[c]
         /\ DispatchesAll \/ DispatchFails
<1> DEFINE members == Head(groups)
           bad == {i \in DOMAIN members : RemoveFails(members, i)}
           upto(n) == {members[i] : i \in 1..n}
<1>1. groups # << >> /\ pc = "group" /\ age' = NotWaiting(flight' \ flight)
  BY DEF Dispatch
<1>2. groups \in Seq(Seq(Callers)) /\ members = groups[1] /\ 1 \in DOMAIN groups
  BY <1>1 DEF SInv, TypeOK
<1>3. members \in Seq(Callers) /\ DOMAIN members = 1..Len(members) /\ Len(members) \in Nat
      /\ ToSet(members) \subseteq InRound /\ NoDup(members)
      /\ ToSet(Head(groups)) \subseteq InRound
  <2>1. groups[1] \in Seq(Callers) /\ ToSet(groups[1]) \subseteq InRound /\ NoDup(groups[1])
    BY <1>2, RoundFacts DEF SInv, Rounds
  <2>2. QED
    BY <1>2, <2>1
<1>4. \/ /\ pc' = "call" /\ groups' = Tail(groups)
         /\ flight' = flight \cup ToSet(members)
         /\ population' = Without(population, ToSet(members))
      \/ \E i \in bad :
           /\ pc' = "dead" /\ groups' = << >>
           /\ flight' = flight \cup upto(i - 1) /\ population' = Without(population, upto(i - 1))
  BY DEF Dispatch
<1>5. ASSUME NEW S, flight' = flight \cup S, population' = Without(population, S)
      PROVE  /\ Waiting' = Waiting \ S /\ \A c \in Waiting' : age'[c] = age[c]
             /\ \A c, d : Before(population', c, d) => Before(population, c, d)
  <2>1. /\ Waiting' = Waiting \ S
        /\ \A c, d : Before(population', c, d) => Before(population, c, d)
    BY <1>5, Shrinks DEF SInv
  <2>2. \A c \in Waiting' : age'[c] = age[c]
    BY <1>1, <1>5, <2>1, Ages DEF NotWaiting
  <2>3. QED
    BY <2>1, <2>2
<1>9. ToSet(Head(groups)) \subseteq InRound
  BY <1>3
<1> HIDE DEF members, bad, upto
<1>6. CASE /\ pc' = "call" /\ groups' = Tail(groups)
           /\ flight' = flight \cup ToSet(members)
           /\ population' = Without(population, ToSet(members))
  <2>1. InRound' = InRound \ ToSet(members)
    BY <1>1, <1>6, NextBatch DEF SInv, members
  <2>2. /\ Waiting' = Waiting \ ToSet(members) /\ \A c \in Waiting' : age'[c] = age[c]
        /\ \A c, d : Before(population', c, d) => Before(population, c, d)
    BY <1>5, <1>6
  <2>3. DispatchesAll
    BY <1>6, <2>1, <2>2 DEF DispatchesAll, members
  <2>4. Waiting' \subseteq Waiting
    BY <2>2
  <2>5. QED
    BY <1>1, <1>9, <2>2, <2>3, <2>4
<1>7. CASE \E i \in bad :
           /\ pc' = "dead" /\ groups' = << >>
           /\ flight' = flight \cup upto(i - 1) /\ population' = Without(population, upto(i - 1))
  <2>1. PICK i \in bad :
           /\ pc' = "dead" /\ groups' = << >>
           /\ flight' = flight \cup upto(i - 1) /\ population' = Without(population, upto(i - 1))
    BY <1>7
  <2>2. /\ Waiting' \subseteq Waiting /\ \A c \in Waiting' : age'[c] = age[c]
        /\ \A c, d : Before(population', c, d) => Before(population, c, d)
    <3> DEFINE S == upto(i - 1)
    <3>1. flight' = flight \cup S /\ population' = Without(population, S)
      BY <2>1
    <3> HIDE DEF S
    <3>2. QED
      BY <1>5, <3>1
  <2>3. i \in 1..Len(members) /\ RemoveFails(members, i)
    BY <1>3 DEF bad
  <2> DEFINE c == members[i]
  <2>4. c \in ToSet(members) /\ c \in InRound
    BY <1>3, <2>3, Elements
  <2>5. c \notin upto(i - 1)
    <3>1. \A j \in 1..(i - 1) : j \in 1..Len(members) /\ j # i
      BY <1>3, <2>3
    <3>2. QED
      BY <1>3, <2>3, <3>1 DEF NoDup, upto
  <2>6. c \notin Waiting /\ \E d \in Waiting : SameQueue(d, c)
    BY <2>3, <2>5 DEF RemoveFails, upto
  <2>7. cancelled[c]
    BY <2>4, <2>6 DEF SInv, Rounds
  <2> HIDE DEF c
  <2>8. DispatchFails
    BY <2>1, <2>4, <2>6, <2>7 DEF DispatchFails, members
  <2>9. QED
    BY <1>1, <1>9, <2>2, <2>8
<1>8. QED
  BY <1>4, <1>6, <1>7

LEMMA PaceDispatch ==
  ASSUME SInv, Pace, Dispatch
  PROVE  Pace'
<1>1. /\ pc = "group" /\ groups # << >> /\ Waiting' \subseteq Waiting
      /\ ToSet(Head(groups)) \subseteq InRound
      /\ \A c, d : Before(population', c, d) => Before(population, c, d)
      /\ \A c \in Waiting' : age'[c] = age[c]
      /\ DispatchesAll \/ DispatchFails
  BY DispatchKinds
<1>2. ticked' = ticked
  BY DEF Dispatch, clock
<1> SUFFICES ASSUME NEW c \in Waiting' \ High PROVE Paced(c)'
  BY DEF Pace
<1>3. /\ c \in Waiting \ High /\ age'[c] = age[c] /\ Paced(c)
      /\ age[c] \in 0..3 /\ Tick(c) \in {0, 1} /\ Tick(c)' = Tick(c)
  BY <1>1, <1>2, Ages DEF Pace, Tick
<1>4. ~ Hot(c)
  BY <1>1 DEF Hot, DispatchesAll, DispatchFails
<1>5. age'[c] <= Urgent /\ age'[c] <= Aged + Tick(c)'
  BY <1>3, <1>4 DEF Paced
<1>6. ASSUME c \notin InRound', pc' # "dead", Behind(c)' PROVE age'[c] <= Tick(c)'
  <2>1. DispatchesAll
    BY <1>1, <1>6 DEF DispatchFails
  <2>2. c \notin InRound /\ c \notin ToSet(Head(groups))
    BY <1>6, <2>1 DEF DispatchesAll
  <2>3. PICK d \in (Waiting' \ High) \ InRound' : Before(population', d, c)
    BY <1>6 DEF Behind
  <2>4. d \in (Waiting \ High) \ InRound /\ Before(population, d, c)
    BY <1>1, <2>1, <2>3 DEF DispatchesAll
  <2>5. Behind(c)
    BY <2>4 DEF Behind
  <2>6. age[c] <= Tick(c)
    BY <1>1, <1>3, <2>2, <2>5 DEF Paced
  <2>7. QED
    BY <1>3, <2>6
<1>7. QED
  BY <1>5, <1>6 DEF Paced

LEMMA PaceStep == Brisk /\ TwoNormals /\ SInv /\ Pace /\ [Next]_vars => Pace'
<1> SUFFICES ASSUME Brisk, TwoNormals, SInv, Pace, [Next]_vars PROVE Pace'
  OBVIOUS
<1>1. ASSUME NEW c \in Callers, Submit(c) PROVE Pace'
  BY <1>1, PaceSubmit
<1>2. ASSUME NEW c \in Callers, Return(c) \/ Disconnect(c) \/ Cancel(c) PROVE Pace'
  BY <1>2, PaceCaller
<1>3. CASE Time
  BY <1>3, PaceElapse, PaceWait DEF Time
<1>4. CASE SelectRound
  BY <1>4, PaceSelect
<1>5. CASE Dispatch
  BY <1>5, PaceDispatch
<1>6. CASE Wake \/ EndRound \/ Close
  BY <1>6, PaceWait
<1>7. CASE ProviderAnswers
  BY <1>7, PaceWait DEF ProviderAnswers
<1>8. CASE UNCHANGED vars
  BY <1>8 DEF vars, request, clock, admission, dispatcher, Pace, Paced, Hot, Behind, Tick, Waiting,
              InRound
<1>9. QED
  BY <1>1, <1>2, <1>3, <1>4, <1>5, <1>6, <1>7, <1>8 DEF Next, Dispatcher

LEMMA PairOfNormals == Cardinality(Callers \ High) <= 2 => TwoNormals
<1> SUFFICES ASSUME Cardinality(Callers \ High) <= 2,
                    NEW b \in Callers \ High, NEW c \in Callers \ High, NEW d \in Callers \ High,
                    b # c, c # d, b # d
             PROVE  FALSE
  BY DEF TwoNormals
<1> DEFINE N == Callers \ High
           two == {b, c}
           three == two \cup {d}
<1>1. IsFiniteSet(Callers) /\ N \subseteq Callers /\ three \subseteq N
  BY SchedulerAssumption
<1>2. IsFiniteSet(N) /\ Cardinality(N) \in Nat
  BY <1>1, FS_Subset, FS_CardinalityType
<1>3. IsFiniteSet({b}) /\ Cardinality({b}) = 1
  BY FS_Singleton
<1>4. two = {b} \cup {c} /\ c \notin {b}
  OBVIOUS
<1> HIDE DEF two
<1>5. IsFiniteSet(two) /\ Cardinality(two) = 2
  BY <1>3, <1>4, FS_AddElement
<1>6. d \notin two
  BY DEF two
<1>7. Cardinality(three) = 3
  BY <1>5, <1>6, FS_AddElement
<1> HIDE DEF three
<1>8. Cardinality(three) <= Cardinality(N)
  BY <1>1, <1>2, FS_Subset
<1>9. Cardinality(N) <= 2
  OBVIOUS
<1> HIDE DEF N
<1>10. QED
  BY <1>2, <1>7, <1>8, <1>9

\* While rounds are brisk, two NORMAL requests never meet their deadline in the queue,
\* whatever HIGH traffic, batch keys, leavers and failures there are.
THEOREM NormalsInTime ==
  ASSUME Brisk, Cardinality(Callers \ High) <= 2
  PROVE  Spec => []NormalMeetsDeadline
<1>1. Brisk /\ TwoNormals
  BY PairOfNormals
<1>2. Init => Pace
  BY DEF Init, Pace, Waiting, ToSet
<1>3. Init => SInv
  BY SchedulerInit
<1>4. SInv /\ [Next]_vars => SInv'
  BY SchedulerStep
<1>5. SInv /\ Pace /\ [Next]_vars => Pace'
  BY <1>1, PaceStep
<1>6. SInv /\ Pace => NormalMeetsDeadline
  <2> SUFFICES ASSUME SInv, Pace, NEW c \in Waiting \ High PROVE age[c] < Overdue
    BY DEF NormalMeetsDeadline
  <2>1. age[c] <= Urgent /\ age[c] \in 0..3
    BY Ages DEF Pace, Paced
  <2>2. QED
    BY <2>1 DEF Urgent, Overdue
<1>7. QED
  BY <1>2, <1>3, <1>4, <1>5, <1>6, PTL DEF Spec

(***************************************************************************)
(* What the dispatcher dies of.                                            *)
(***************************************************************************)
\* While a request waits, a window is open (to compare a closed one would raise).
WindowKept == Coalesce /\ Waiting # {} => window # "closed"

LEMMA WindowStep == SInv /\ WindowKept /\ [Next]_vars => WindowKept'
<1> SUFFICES ASSUME SInv, WindowKept, [Next]_vars PROVE WindowKept'
  OBVIOUS
<1>1. ASSUME Waiting' \subseteq Waiting, window' = window \/ window' # "closed" PROVE WindowKept'
  BY <1>1 DEF WindowKept
<1>2. ASSUME population' = population PROVE Waiting' = Waiting
  BY <1>2 DEF Waiting
<1>3. ASSUME NEW c \in Callers, Submit(c) PROVE WindowKept'
  BY <1>3 DEF Submit, WindowKept
<1>4. ASSUME NEW c \in Callers, Return(c) \/ Disconnect(c) \/ Cancel(c) PROVE WindowKept'
  <2>1. window' = window
    BY <1>4 DEF Return, Disconnect, Cancel, clock
  <2>2. population' = population \/ population' = Without(population, {c})
    BY <1>4 DEF Return, Disconnect, Cancel
  <2>3. Waiting' \subseteq Waiting
    BY <1>2, <2>2, Shrinks DEF SInv
  <2>4. QED
    BY <1>1, <2>1, <2>3
<1>5. CASE Time \/ Wake \/ ProviderAnswers \/ Close \/ UNCHANGED vars
  <2>1. population' = population /\ (window' = window \/ window' # "closed")
    BY <1>5 DEF Time, WindowElapses, Elapse, Wake, ProviderAnswers, Resolve, Close, vars, clock
  <2>2. QED
    BY <1>1, <1>2, <2>1
<1>6. CASE EndRound
  <2>1. Waiting # {} => \E c \in Waiting : ~ cancelled[c]
    BY DEF SInv, Line
  <2>2. QED
    BY <1>2, <1>6, <2>1 DEF EndRound, WindowKept
<1>7. CASE Dispatch
  BY <1>1, <1>7, DispatchKinds DEF Dispatch, clock
<1>8. CASE SelectRound
  <2>1. Waiting' \subseteq Waiting /\ (SelectsNone \/ SelectsLater \/ SelectsNow)
    BY <1>8, SelectKinds
  <2>2. CASE SelectsNone
    BY <2>2 DEF SelectsNone, WindowKept
  <2>3. CASE window' = window
    BY <1>1, <2>1, <2>3
  <2>4. QED
    BY <2>1, <2>2, <2>3 DEF SelectsLater, SelectsNow
<1>9. QED
  BY <1>3, <1>4, <1>5, <1>6, <1>7, <1>8 DEF Next, Dispatcher

\* The round would be put off with no window to wait for.
LEMMA SelectSurvives ==
  ASSUME SInv, WindowKept, SelectRound
  PROVE  pc' # "dead"
<1>1. Waiting' \subseteq Waiting /\ (SelectsNone \/ SelectsLater \/ SelectsNow)
  BY SelectKinds
<1>2. QED
  BY <1>1 DEF SelectsNone, SelectsLater, SelectsNow, WindowKept

\* Nobody but the dispatcher ends it.
LEMMA OthersSurvive ==
  ASSUME Next, pc # "dead", ~ SelectRound, ~ Dispatch
  PROVE  pc' # "dead"
<1>1. ASSUME NEW c \in Callers, Submit(c) \/ Return(c) \/ Disconnect(c) \/ Cancel(c)
      PROVE  pc' = pc
  BY <1>1 DEF Submit, Return, Disconnect, Cancel, dispatcher
<1>2. CASE Time \/ Wake \/ ProviderAnswers \/ Close \/ EndRound
  BY <1>2 DEF Time, WindowElapses, Elapse, Wake, ProviderAnswers, Resolve, Close, EndRound,
              dispatcher
<1>3. QED
  BY <1>1, <1>2 DEF Next, Dispatcher

DiesOfALeaver ==
  pc # "dead" /\ pc' = "dead" =>
    /\ pc = "group"
    /\ \E c \in InRound :
         /\ cancelled[c] /\ c \notin Waiting /\ \E d \in Waiting : SameQueue(d, c)

\* The dispatcher dies of nothing but a member of a later batch that was cancelled
\* while an earlier one was with the provider, and left others in its queue.
THEOREM OnlyALeaverKills == Spec => [][DiesOfALeaver]_vars
<1>1. SInv /\ WindowKept /\ [Next]_vars => [DiesOfALeaver]_vars
  <2> SUFFICES ASSUME SInv, WindowKept, Next, pc # "dead", pc' = "dead" PROVE DiesOfALeaver
    BY DEF DiesOfALeaver
  <2>1. Dispatch
    BY SelectSurvives, OthersSurvive
  <2>2. /\ pc = "group" /\ ToSet(Head(groups)) \subseteq InRound
        /\ DispatchesAll \/ DispatchFails
    BY <2>1, DispatchKinds
  <2>3. QED
    BY <2>2 DEF DispatchesAll, DispatchFails, DiesOfALeaver
<1>2. Init => SInv
  BY SchedulerInit
<1>3. Init => WindowKept
  BY DEF Init, WindowKept, Waiting, ToSet
<1>4. SInv /\ [Next]_vars => SInv'
  BY SchedulerStep
<1>5. SInv /\ WindowKept /\ [Next]_vars => WindowKept'
  BY WindowStep
<1>6. QED
  BY <1>1, <1>2, <1>3, <1>4, <1>5, PTL DEF Spec

\* All requests can share a batch.
OneBatchKey == \A c, d \in Callers : KeyOf[c] = KeyOf[d]

\* A round has one batch, which goes out as soon as it is selected.
Alone == (groups # << >> => pc = "group") /\ \A i \in DOMAIN groups : groups[i] # << >>

\* Nobody is on the way out.
Stays == \A c \in Callers : caller[c] # "leaving"

\* Those selected wait until their batch goes out.
Intact == pc # "dead" /\ InRound \subseteq Waiting

Reason == (OneBatchKey /\ Alone) \/ (MayDisconnect = {} /\ Stays)

LEMMA StaysStep ==
  ASSUME SInv, MayDisconnect = {}, Stays, [Next]_vars
  PROVE  Stays'
<1>1. caller \in [Callers -> {"away", "waiting", "leaving"}]
  BY DEF SInv, TypeOK
<1>2. ASSUME NEW c \in Callers, Submit(c) \/ Return(c) \/ Cancel(c) PROVE Stays'
  BY <1>1, <1>2 DEF Submit, Return, Cancel, Stays
<1>3. ASSUME NEW c \in Callers, Disconnect(c) PROVE FALSE
  BY <1>3 DEF Disconnect
<1>4. CASE Time \/ Dispatcher \/ Close \/ UNCHANGED vars
  <2>1. caller' = caller
    BY <1>4 DEF Time, WindowElapses, Elapse, Dispatcher, Wake, SelectRound, Dispatch,
             ProviderAnswers, Resolve, EndRound, Close, vars, request
  <2>2. QED
    BY <2>1 DEF Stays
<1>5. QED
  BY <1>2, <1>3, <1>4 DEF Next

LEMMA OneBatchOnly ==
  ASSUME SInv, OneBatchKey, Alone, groups # << >>
  PROVE  Tail(groups) = << >>
<1>1. groups \in Seq(Seq(Callers)) /\ Len(groups) \in Nat /\ DOMAIN groups = 1..Len(groups)
  BY RoundFacts DEF SInv, TypeOK
<1>2. CASE Len(groups) >= 2
  <2>1. 1 \in DOMAIN groups /\ 2 \in DOMAIN groups
    BY <1>1, <1>2
  <2>2. ASSUME NEW i \in DOMAIN groups PROVE groups[i] \in Seq(Callers) /\ groups[i] # << >>
    BY <2>2, RoundFacts DEF SInv, Alone
  <2> DEFINE c == Head(groups[1])
             d == Head(groups[2])
  <2>3. c \in ToSet(groups[1]) /\ d \in ToSet(groups[2]) /\ c \in Callers /\ d \in Callers
    <3>1. groups[1] \in Seq(Callers) /\ groups[1] # << >>
            /\ groups[2] \in Seq(Callers) /\ groups[2] # << >>
      BY <2>1, <2>2
    <3>2. QED
      BY <3>1, TailOrder
  <2> HIDE DEF c, d
  <2>4. KeyOf[c] = KeyOf[d]
    BY <2>3 DEF OneBatchKey
  <2>5. QED
    BY <2>1, <2>3, <2>4 DEF SInv, Rounds
<1>3. QED
  BY <1>1, <1>2

LEMMA AloneStep ==
  ASSUME SInv, OneBatchKey, Alone, [Next]_vars
  PROVE  Alone'
<1>1. ASSUME groups' = << >> PROVE Alone'
  BY <1>1 DEF Alone
<1>2. ASSUME groups' = groups, pc # "group" \/ pc' = pc PROVE Alone'
  BY <1>2 DEF Alone
<1>3. ASSUME NEW c \in Callers, Submit(c) \/ Return(c) \/ Disconnect(c) \/ Cancel(c)
      PROVE  Alone'
  BY <1>2, <1>3 DEF Submit, Return, Disconnect, Cancel, dispatcher
<1>4. CASE Time \/ Wake \/ ProviderAnswers \/ Close \/ UNCHANGED vars
  BY <1>2, <1>4 DEF Time, WindowElapses, Elapse, Wake, ProviderAnswers, Resolve, Close, vars,
                    dispatcher
<1>5. CASE EndRound
  BY <1>1, <1>5 DEF EndRound
<1>6. CASE SelectRound
  <2>1. groups = << >> /\ (SelectsNone \/ SelectsLater \/ SelectsNow)
    BY <1>6, SelectKinds
  <2>2. CASE SelectsNow
    BY <2>2 DEF SelectsNow, Alone
  <2>3. QED
    BY <1>1, <2>1, <2>2 DEF SelectsNone, SelectsLater
<1>7. CASE Dispatch
  <2>1. groups # << >> /\ (DispatchesAll \/ DispatchFails)
    BY <1>7, DispatchKinds
  <2>2. QED
    BY <1>1, <2>1, OneBatchOnly DEF DispatchesAll, DispatchFails
<1>8. QED
  BY <1>3, <1>4, <1>5, <1>6, <1>7 DEF Next, Dispatcher

LEMMA IntactStep ==
  ASSUME SInv, WindowKept, Reason, Intact, [Next]_vars
  PROVE  Intact'
<1>1. ASSUME InRound' = InRound, Waiting \subseteq Waiting', pc' # "dead" PROVE Intact'
  BY <1>1 DEF Intact
<1>2. ASSUME groups' = groups PROVE InRound' = InRound
  BY <1>2 DEF InRound
<1>3. ASSUME population' = population PROVE Waiting' = Waiting
  BY <1>3 DEF Waiting
<1>4. ASSUME groups' = << >>, pc' # "dead" PROVE Intact'
  BY <1>4 DEF Intact, InRound
<1>5. ASSUME NEW c \in Callers, Submit(c) PROVE Intact'
  <2>1. population \in Seq(Callers) /\ population' = Append(population, c)
    BY <1>5 DEF Submit, SInv, TypeOK
  <2>2. Waiting \subseteq Waiting'
    BY <2>1, AppendOrder DEF Waiting
  <2>3. QED
    BY <1>1, <1>2, <1>5, <2>2 DEF Submit, dispatcher, Intact
<1>6. ASSUME NEW c \in Callers, Return(c) \/ Disconnect(c) PROVE Intact'
  BY <1>1, <1>2, <1>3, <1>6 DEF Return, Disconnect, dispatcher, Intact
<1>7. ASSUME NEW c \in Callers, Cancel(c) PROVE Intact'
  <2>1. Alone /\ pc # "group" /\ groups' = groups /\ pc' = pc
    BY <1>7 DEF Cancel, LoopFree, dispatcher, Reason, Stays
  <2>2. QED
    BY <1>4, <2>1 DEF Alone, Intact
<1>8. CASE Time \/ Wake \/ ProviderAnswers \/ Close \/ UNCHANGED vars
  <2>1. population' = population /\ groups' = groups /\ pc' # "dead"
    BY <1>8 DEF Time, WindowElapses, Elapse, Wake, ProviderAnswers, Resolve, Close, vars,
                dispatcher, Intact
  <2>2. QED
    BY <1>1, <1>2, <1>3, <2>1
<1>9. CASE EndRound
  BY <1>4, <1>9 DEF EndRound
<1>10. CASE SelectRound
  <2>1. groups = << >> /\ (SelectsNone \/ SelectsLater \/ SelectsNow) /\ pc' # "dead"
    BY <1>10, SelectKinds, SelectSurvives
  <2>2. CASE SelectsNow
    BY <2>1, <2>2 DEF SelectsNow, Intact
  <2>3. QED
    BY <1>4, <2>1, <2>2 DEF SelectsNone, SelectsLater
<1>11. CASE Dispatch
  <2>1. ToSet(Head(groups)) \subseteq InRound /\ (DispatchesAll \/ DispatchFails)
    BY <1>11, DispatchKinds
  <2>2. ~ DispatchFails
    BY <2>1 DEF DispatchFails, Intact
  <2>3. QED
    BY <2>1, <2>2 DEF DispatchesAll, Intact
<1>12. QED
  BY <1>5, <1>6, <1>7, <1>8, <1>9, <1>10, <1>11 DEF Next, Dispatcher

\* The dispatcher survives if all requests can share a batch, since a round is one
\* batch then, or if nobody leaves: the loss takes both.
THEOREM SurvivesTogether ==
  ASSUME OneBatchKey \/ MayDisconnect = {}
  PROVE  Spec => []DispatcherSurvives
<1> DEFINE Inv == SInv /\ WindowKept /\ Reason /\ Intact
<1>1. Init => Inv
  <2> SUFFICES ASSUME Init PROVE Inv
    OBVIOUS
  <2>1. SInv /\ groups = << >> /\ population = << >> /\ pc = "idle" /\ Stays
    BY SchedulerInit DEF Init, Stays
  <2>2. Alone /\ Intact /\ WindowKept
    BY <2>1 DEF Alone, Intact, InRound, WindowKept, Waiting, ToSet
  <2>3. QED
    BY <2>1, <2>2 DEF Reason
<1>2. Inv /\ [Next]_vars => Inv'
  <2> SUFFICES ASSUME Inv, [Next]_vars PROVE Inv'
    OBVIOUS
  <2>1. SInv' /\ WindowKept'
    BY SchedulerStep, WindowStep
  <2>2. Reason'
    BY AloneStep, StaysStep DEF Reason
  <2>3. QED
    BY <2>1, <2>2, IntactStep
<1>3. Inv => DispatcherSurvives
  BY DEF Intact, DispatcherSurvives
<1>4. QED
  BY <1>1, <1>2, <1>3, PTL DEF Spec
=============================================================================
