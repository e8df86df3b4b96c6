------------------------- MODULE UsageEvidenceProofs -------------------------
(***************************************************************************)
(* Safety of the usage-evidence protocol for every number of facts,        *)
(* processes and faults: only committed attempts are reported, committed   *)
(* attempts are never discarded, and no committed fact is lost.            *)
(*                                                                         *)
(* The argument.  A process that holds the session lock owns the record:   *)
(* nobody else can save or delete it.  So what a lock holder read is still *)
(* enough to account for every committed fact (KeepsAll), a token absent   *)
(* from the proof it read was never committed (Unlanded), and an attempt   *)
(* whose owner lost the lock can never be committed later.                 *)
(***************************************************************************)
EXTENDS UsageEvidence, FiniteSetTheorems, SequenceTheorems, TLAPS

\* A process with its own staged, not yet committed attempts.
Staging(w) == pc[w] \in {"save", "abort", "stageOne", "write"}

\* Processes whose copy of the record is in use.
Working == {"prune", "stage", "save", "keep", "reread", "flip", "prove", "drop",
            "clean", "keepHeld", "stageOne", "write", "saveMark"}

HasSnap ==
  \A w \in Proc : pc[w] \in Working \ {"reread", "clean"} => snap[w] \in Meta

NoItemsYet ==
  \A w \in Proc :
     pc[w] \in {"idle", "load", "prune", "stage", "held", "keepHeld", "deferred", "remaining"}
        => items[w] = {}

StopOnly ==
  \A w \in Proc :
     /\ pc[w] \in {"list", "remaining", "delete", "mark", "saveMark"} => job[w] = "stop"
     /\ pc[w] \in {"lock", "reload"} => job[w] # "stop"

HasTarget ==
  \A w \in Proc : pc[w] \in {"keep", "reread", "flip", "prove", "drop"} => target[w] \in Token

\* Stage tokens are fresh: none is newer than the last staging call.
KnownTokens ==
  /\ \A k \in Facts : rows[k].token <= attempts
  /\ \A t \in landed : t[2] <= attempts
  /\ \A w \in Proc : \A t \in items[w] \cup {target[w]} : t[2] <= attempts

\* What a proof lists was committed, or is about to be by the process's own
\* save; and only committed attempts are flipped.
ProofLanded ==
  /\ meta # NoMeta => meta.tokens \subseteq landed
  /\ \A w \in Proc :
       /\ (pc[w] \in Working /\ snap[w] # NoMeta)
            => snap[w].tokens \subseteq landed \cup (IF Staging(w) THEN items[w] ELSE {})
       /\ pc[w] \in {"save", "stageOne", "write"} => items[w] \subseteq snap[w].tokens
       /\ pc[w] \in {"commit", "flipAll"} => items[w] \subseteq landed
       /\ pc[w] = "flip" => target[w] \in landed

\* A row that is staged although its attempt was committed.
Owed(k) == rows[k].status = "staged" /\ TokenOf(rows, k) \in landed

\* The record, and the copy a lock holder may write back, prove every owed row.
ProofComplete ==
  /\ \A k \in Facts : Owed(k) => meta # NoMeta /\ TokenOf(rows, k) \in meta.tokens
  /\ \A w \in Proc : (lock = w /\ pc[w] \in Working /\ snap[w] # NoMeta) =>
       \A k \in Facts : Owed(k) => TokenOf(rows, k) \in snap[w].tokens

\* An attempt still in progress has not been committed, and each is one
\* process's own.  An attempt about to be released will never be committed.
Unlanded ==
  /\ \A w \in Proc : Staging(w) => items[w] \cap landed = {}
  /\ \A u, w \in Proc : u # w /\ Staging(u) /\ Staging(w) => items[u] \cap items[w] = {}
  /\ \A w \in Proc : pc[w] = "abort" => lock # w
  /\ \A w \in Proc : pc[w] = "prove" /\ lock = w => target[w] \notin landed
  /\ \A w \in Proc : pc[w] = "drop" =>
        /\ target[w] \notin landed
        /\ \A u \in Proc : Staging(u) /\ target[w] \in items[u] => lock # u

\* Nobody discards the rows of a process that can still commit them.
OwnRowsStand ==
  \A w \in Proc : lock = w /\ Staging(w) =>
     \A k \in Facts : TokenOf(rows, k) \in items[w] => rows[k].status # "discarded"

\* Fact k is accounted for by record m.
Safe(k, m) ==
  \/ rows[k].status = "ready"
  \/ /\ m # NoMeta
     /\ \/ rows[k].status = "staged" /\ TokenOf(rows, k) \in m.tokens
        \/ k \in Elems(m.unstaged)

\* The copy a lock holder may write back accounts for every committed fact,
\* and for those its save is about to commit.
KeepsAll ==
  \A w \in Proc : (lock = w /\ pc[w] \in Working /\ snap[w] # NoMeta) =>
     \A k \in (Committed \cup (IF pc[w] = "save" THEN Elems(queue[w]) ELSE {})) \ givenUp :
        Safe(k, snap[w])

\* Stop has every owed row still on its list, or has left one unresolved.
StopResolving(w) ==
  /\ job[w] = "stop" /\ ~unresolved[w]
  /\ pc[w] \in {"session", "keep", "reread", "flip", "prove", "drop", "clean", "purge", "remaining"}

Covers(w, t) ==
  \/ t \in items[w]
  \/ pc[w] \in {"keep", "reread", "flip", "prove", "drop"} /\ t = target[w]

StopCovers ==
  \A w \in Proc : lock = w /\ StopResolving(w) =>
     \A k \in Facts : Owed(k) => Covers(w, TokenOf(rows, k))

\* The record is deleted only when nothing is owed any more.
NothingOwed ==
  \A w \in Proc : (lock = w /\ pc[w] \in {"purge", "delete"}) =>
     /\ \A k \in Facts : ~Owed(k)
     /\ \A k \in Committed \ givenUp : rows[k].status = "ready"

IInv ==
  /\ TypeOK /\ HasSnap /\ NoItemsYet /\ StopOnly /\ HasTarget /\ KnownTokens
  /\ ProofLanded /\ ProofComplete /\ Unlanded /\ OwnRowsStand
  /\ KeepsAll /\ StopCovers /\ NothingOwed
  /\ ReportedWasCommitted /\ CommittedNotDiscarded /\ NothingLost

(***************************************************************************)
(* What the statements of the outbox do to the table.                      *)
(***************************************************************************)
\* The table after mark_ready of the attempts in I.
FlippedTo(table, I) ==
  \A k \in Facts :
     /\ table[k].token = rows[k].token
     /\ table[k] = rows[k] \/ (table[k].status = "ready" /\ TokenOf(rows, k) \in I)

\* The table after release of the attempts in I.
ReleasedTo(table, I) ==
  \A k \in Facts :
     LET released == rows[k].status = "staged" /\ TokenOf(rows, k) \in I
     IN /\ released => \/ table[k].status = "none" /\ table[k].token = 0
                       \/ table[k].status = "discarded" /\ table[k].token = rows[k].token
        /\ ~released => table[k] = rows[k]

LEMMA FlipFacts ==
  ASSUME rows \in [Facts -> Row], last \in Nat, NEW I
  PROVE  /\ LastAfter(rows, I, last) \in Nat
         /\ MarkReady(rows, I, last) \in [Facts -> Row]
         /\ FlippedTo(MarkReady(rows, I, last), I)
         /\ LastAfter(rows, I, last) # last =>
              \E k \in Facts : /\ TokenOf(rows, k) \in I
                               /\ MarkReady(rows, I, last)[k].status = "ready"
<1>1. \A S \in SUBSET Facts : Cardinality(S) \in Nat
  BY FactsAssumption, FS_Subset, FS_CardinalityType
<1>2. Flipped(rows, I) \in SUBSET Facts
  BY DEF Flipped, Presented
<1>3. \A k \in Facts : {j \in Flipped(rows, I) : Before(rows, j, k)} \in SUBSET Facts
  BY <1>2
<1>4. \A k \in Facts : last + 1 + Cardinality({j \in Flipped(rows, I) : Before(rows, j, k)}) \in Nat
  BY <1>1, <1>3
<1>5. \A k \in Flipped(rows, I) : TokenOf(rows, k) \in I
  BY DEF Flipped, Presented
<1> DEFINE N(k) == last + 1 + Cardinality({j \in Flipped(rows, I) : Before(rows, j, k)})
<1> HIDE DEF N
<1>6. \A k \in Facts : N(k) \in Nat
  BY <1>4 DEF N
<1>7. MarkReady(rows, I, last) =
        [k \in Facts |-> IF k \in Flipped(rows, I)
                         THEN [rows[k] EXCEPT !.status = "ready", !.number = N(k)] ELSE rows[k]]
  BY DEF MarkReady, N
<1>8. MarkReady(rows, I, last) \in [Facts -> Row]
  BY <1>7, <1>6 DEF Row, Status
<1>9. FlippedTo(MarkReady(rows, I, last), I)
  BY <1>5, <1>7 DEF Row, FlippedTo
<1>10. LastAfter(rows, I, last) \in Nat
  BY <1>1, <1>2 DEF LastAfter
<1>11. ASSUME LastAfter(rows, I, last) # last
       PROVE  \E k \in Facts : /\ TokenOf(rows, k) \in I
                               /\ MarkReady(rows, I, last)[k].status = "ready"
  <2>1. Flipped(rows, I) # {}
    BY <1>11, FS_EmptySet DEF LastAfter
  <2>2. PICK k \in Flipped(rows, I) : TRUE
    BY <2>1
  <2> QED BY <1>2, <1>5, <1>7, <2>2 DEF Row
<1> QED BY <1>8, <1>9, <1>10, <1>11

\* The table after staging call n of the facts in D.
StagedTo(table, D, n) ==
  \A k \in Facts :
     LET taken == k \in D /\ rows[k].status \in {"none", "discarded"}
     IN /\ taken => table[k].status = "staged" /\ table[k].token = n
        /\ ~taken => table[k] = rows[k]

LEMMA StageFacts ==
  ASSUME rows \in [Facts -> Row], NEW D, NEW n \in Nat, NEW v \in Nat
  PROVE  /\ Stage(rows, D, n, v) \in [Facts -> Row]
         /\ StagedTo(Stage(rows, D, n, v), D, n)
BY DEF Stage, Stageable, StagedTo, Row, Status

LEMMA ReleaseFacts ==
  ASSUME rows \in [Facts -> Row], NEW I, NEW d \in BOOLEAN
  PROVE  /\ Release(rows, I, d) \in [Facts -> Row]
         /\ ReleasedTo(Release(rows, I, d), I)
BY DEF Release, ReleasedTo, Row, Status, NoRow

(***************************************************************************)
(* Types.                                                                  *)
(***************************************************************************)
LEMMA MetaFacts ==
  ASSUME NEW m \in Meta
  PROVE  /\ \A D \in SUBSET Facts : Applying(m, D) \in Meta
         /\ \A q \in Seq(Facts) : Deferring(m, q) \in Meta
         /\ \A T \in SUBSET Token : Stamped(m, T) \in Meta
         /\ Pruned(m) \in Meta
         /\ m.unstaged # << >> => WithoutHead(m) \in Meta /\ Head(m.unstaged) \in Facts
         /\ [m EXCEPT !.cleanup = TRUE] \in Meta
<1>1. ASSUME NEW D \in SUBSET Facts PROVE Applying(m, D) \in Meta
  BY DEF Meta, Applying
<1>2. ASSUME NEW q \in Seq(Facts) PROVE Deferring(m, q) \in Meta
  <2> DEFINE u == m.unstaged \o q
  <2>1. u \in Seq(Facts)
    BY ConcatProperties DEF Meta
  <2>2. Deferring(m, q) = [m EXCEPT !.unstaged = u]
    BY DEF Deferring
  <2> HIDE DEF u
  <2> QED BY <2>1, <2>2 DEF Meta
<1>3. ASSUME NEW T \in SUBSET Token PROVE Stamped(m, T) \in Meta
  <2> DEFINE v == IF T = {} THEN m.version ELSE m.version + 1
  <2>1. v \in Nat /\ m.tokens \cup T \in SUBSET Token
    BY DEF Meta
  <2>2. Stamped(m, T) = [m EXCEPT !.tokens = m.tokens \cup T, !.version = v]
    BY DEF Stamped
  <2> HIDE DEF v
  <2> QED BY <2>1, <2>2 DEF Meta
<1>4. Pruned(m) \in Meta
  BY DEF Meta, Pruned
<1>5. ASSUME m.unstaged # << >> PROVE WithoutHead(m) \in Meta /\ Head(m.unstaged) \in Facts
  <2> DEFINE u == Tail(m.unstaged)
  <2>1. u \in Seq(Facts) /\ Head(m.unstaged) \in Facts
    BY <1>5, HeadTailProperties DEF Meta
  <2>2. WithoutHead(m) = [m EXCEPT !.unstaged = u]
    BY DEF WithoutHead
  <2> HIDE DEF u
  <2> QED BY <2>1, <2>2 DEF Meta
<1>6. [m EXCEPT !.cleanup = TRUE] \in Meta
  BY DEF Meta
<1> QED BY <1>1, <1>2, <1>3, <1>4, <1>5, <1>6

LEMMA UnionType == ASSUME NEW h \in Seq(SUBSET Facts) PROVE UNION Elems(h) \subseteq Facts
BY DEF Elems

LEMMA ElemsType == ASSUME NEW q \in Seq(Facts) PROVE Elems(q) \in SUBSET Facts
BY DEF Elems

THEOREM TypeInit == Init => TypeOK /\ HasSnap
<1> SUFFICES ASSUME Init PROVE TypeOK /\ HasSnap
  OBVIOUS
<1>1. TypeOK
  BY ConstantsAssumption DEF Init, TypeOK, NewMeta, Meta, NoRow, Row, Status, PC, Jobs, Token
<1>2. HasSnap
  BY DEF Init, HasSnap, Working
<1> QED BY <1>1, <1>2

(***************************************************************************)
(* What the errors that are caught leave behind.                           *)
(***************************************************************************)
\* A session that could not be read leaves Stop's list.
RowSkipped(w) ==
  /\ pc[w] = "session" /\ UNCHANGED <<rows, attempts>>
  /\ \E l \in {"session", "remaining", "exit"}, I \in SUBSET items[w] :
       /\ pc' = [pc EXCEPT ![w] = l] /\ items' = [items EXCEPT ![w] = I]
       /\ l = "remaining" => I = {} /\ job[w] = "stop"
  /\ unresolved' = [unresolved EXCEPT ![w] = TRUE]

\* A drain that stops staging may leave a row under a token of its own.
StagingStopped(w) ==
  /\ pc[w] = "stageOne"
  /\ AfterDrain(w) \/ Goto(w, "write")
  /\ UNCHANGED <<items, unresolved>>
  /\ \/ UNCHANGED <<rows, attempts>>
     \/ \E k \in Facts : /\ attempts' = attempts + 1 /\ rows[k].status # "staged"
                        /\ rows' \in [Facts -> Row] /\ StagedTo(rows', {k}, attempts + 1)

FlipSkipped(w) ==
  /\ pc[w] = "flipAll" /\ AfterDrain(w) /\ items' = [items EXCEPT ![w] = {}]
  /\ UNCHANGED <<rows, attempts, unresolved>>

LEMMA CaughtEffect ==
  ASSUME TypeOK, HasSnap, NEW w \in Proc, Caught(w)
  PROVE  /\ UNCHANGED <<lock, meta, last, job, queue, snap, target, history, landed, givenUp>>
         /\ faults' = faults + 1
         /\ RowSkipped(w) \/ StagingStopped(w) \/ FlipSkipped(w)
<1>1. UNCHANGED <<lock, meta, last, job, queue, snap, target, history, landed, givenUp>> /\ faults' = faults + 1
  BY Zenon DEF Caught, SessionUnreadable, StageDeferredFails, FlipDrainedFails, store, outbox, ghost
<1>2. CASE SessionUnreadable(w)
  <2>1. PICK t \in items[w] : /\ Goto(w, RowAfter(w, items[w] \ {t}))
                             /\ items' = [items EXCEPT ![w] = items[w] \ {t}]
    BY <1>2 DEF SessionUnreadable
  <2> DEFINE I == items[w] \ {t}
             l == RowAfter(w, I)
  <2>2. /\ l \in {"session", "remaining", "exit"} /\ I \in SUBSET items[w]
        /\ l = "remaining" => I = {} /\ job[w] = "stop"
    BY DEF RowAfter
  <2>3. pc' = [pc EXCEPT ![w] = l] /\ items' = [items EXCEPT ![w] = I]
    BY <2>1, Zenon DEF Goto
  <2> HIDE DEF I, l
  <2>4. RowSkipped(w)
    BY <1>2, <2>2, <2>3 DEF RowSkipped, SessionUnreadable, outbox
  <2> QED BY <1>1, <2>4
<1>3. CASE StageDeferredFails(w)
  <2> DEFINE k == Head(snap[w].unstaged)
  <2>1. /\ pc[w] = "stageOne" /\ snap[w].unstaged # << >> /\ attempts \in Nat /\ rows \in [Facts -> Row]
    BY <1>3 DEF StageDeferredFails, TypeOK
  <2>2. snap[w] \in Meta /\ attempts + 1 \in Nat
    BY <2>1 DEF HasSnap, Working
  <2>3. snap[w].unstaged \in Seq(Facts) /\ snap[w].version + 1 \in Nat
    BY <2>2 DEF Meta
  <2>4. k \in Facts
    BY <2>1, <2>2, MetaFacts, Zenon
  <2>5. AfterDrain(w) \/ Goto(w, "write")
    BY <1>3 DEF StageDeferredFails, StopStaging
  <2>6. /\ UNCHANGED <<items, unresolved>>
        /\ \/ UNCHANGED <<rows, attempts>>
           \/ /\ ~StageBlocked(rows, {k}) /\ attempts' = attempts + 1
              /\ rows' = Stage(rows, {k}, attempts + 1, snap[w].version + 1)
    BY <1>3, Zenon DEF StageDeferredFails
  <2> HIDE DEF k
  <2>7. rows[k].status # "staged" \/ StageBlocked(rows, {k})
    BY <2>4 DEF StageBlocked
  <2>8. ASSUME rows' = Stage(rows, {k}, attempts + 1, snap[w].version + 1)
        PROVE  StagedTo(rows', {k}, attempts + 1) /\ rows' \in [Facts -> Row]
    BY <2>1, <2>2, <2>3, <2>4, <2>8, StageFacts, Zenon
  <2>9. StagingStopped(w)
    BY <2>1, <2>4, <2>5, <2>6, <2>7, <2>8, Zenon DEF StagingStopped
  <2> QED BY <1>1, <2>9
<1>4. CASE FlipDrainedFails(w)
  <2>1. FlipSkipped(w)
    BY <1>4, Zenon DEF FlipDrainedFails, FlipSkipped, outbox
  <2> QED BY <1>1, <2>1
<1> QED BY <1>2, <1>3, <1>4 DEF Caught

LEMMA TypeRequest ==
  ASSUME TypeOK, HasSnap, NEW w \in Proc, RequestStep(w) PROVE TypeOK'
<1> USE DEF TypeOK
<1>1. CASE LoadRequest(w)
  <2> DEFINE m == Deferring(Applying(meta, Elems(queue[w])), queue[w])
  <2>1. meta # NoMeta => m \in Meta
    BY MetaFacts, ElemsType, Zenon
  <2> HIDE DEF m
  <2>2. /\ \/ pc' = [pc EXCEPT ![w] = "exit"] /\ snap' = snap
           \/ pc' = [pc EXCEPT ![w] = "prune"] /\ snap' = [snap EXCEPT ![w] = meta]
           \/ /\ meta # NoMeta /\ pc' = [pc EXCEPT ![w] = "save"]
              /\ snap' = [snap EXCEPT ![w] = m]
        /\ UNCHANGED <<store, outbox, faults, job, queue, items, target, unresolved, ghost>>
    BY <1>1, Zenon DEF LoadRequest, Load, Goto, m
  <2> QED BY <2>1, <2>2 DEF PC, store, outbox, ghost
<1>2. CASE PruneProof(w)
  BY <1>2, MetaFacts DEF PruneProof, Goto, PC, store, outbox, local, ghost, HasSnap, Working
<1>3. CASE StageRequest(w)
  <2> DEFINE D == Elems(queue[w])
             mine == {<<k, attempts + 1>> : k \in Stageable(rows, D)}
  <2>a. D \in SUBSET Facts
    BY ElemsType, Zenon
  <2> HIDE DEF D
  <2>b. pc[w] = "stage"
    BY <1>3 DEF StageRequest
  <2>c. mine \in SUBSET Token
    BY <2>a DEF Stageable, Token
  <2>1. mine \in SUBSET Token /\ snap[w] \in Meta
    BY <2>b, <2>c DEF HasSnap, Working
  <2>2. snap[w].version + 1 \in Nat /\ attempts + 1 \in Nat
    BY <2>1 DEF Meta
  <2> HIDE DEF mine
  <2>3. Stamped(Applying(snap[w], D), mine) \in Meta
    BY <2>a, <2>1, MetaFacts, Zenon
  <2>4. Stage(rows, D, attempts + 1, snap[w].version + 1) \in [Facts -> Row]
    BY <2>2, StageFacts, Zenon
  <2>5. \/ UNCHANGED <<rows, attempts, snap, items>> /\ Goto(w, "exit")
        \/ /\ rows' = Stage(rows, D, attempts + 1, snap[w].version + 1)
           /\ attempts' = attempts + 1 /\ items' = [items EXCEPT ![w] = mine]
           /\ snap' = [snap EXCEPT ![w] = Stamped(Applying(snap[w], D), mine)]
           /\ Goto(w, "save")
    BY <1>3, Zenon DEF StageRequest, D, mine
  <2>6. UNCHANGED <<store, last, faults, job, queue, target, unresolved, ghost>>
    BY <1>3 DEF StageRequest
  <2>7. /\ rows' \in [Facts -> Row] /\ attempts' \in Nat /\ items' \in [Proc -> SUBSET Token]
        /\ snap' \in [Proc -> Meta \cup {NoMeta}] /\ pc' \in [Proc -> PC]
    BY <2>1, <2>2, <2>3, <2>4, <2>5 DEF Goto, PC
  <2> QED BY <2>6, <2>7 DEF store, ghost
<1>4. CASE SaveRequest(w)
  <2>1. Append(history, Elems(queue[w])) \in Seq(SUBSET Facts)
    BY ElemsType, AppendProperties, Zenon
  <2>2. HasSnap /\ pc[w] = "save"
    BY <1>4 DEF SaveRequest
  <2>3. snap[w] \in Meta
    BY <2>2 DEF HasSnap, Working
  <2>4. /\ history' \in Seq(SUBSET Facts) /\ meta' \in Meta \cup {NoMeta} /\ landed' \subseteq Token
        /\ pc' \in [Proc -> PC]
        /\ UNCHANGED <<lock, outbox, faults, job, queue, snap, items, target, unresolved, givenUp>>
    BY <1>4, <2>1, <2>3 DEF SaveRequest, Goto, PC
  <2> QED BY <2>4 DEF outbox
<1>5. CASE CommitRequest(w)
  BY <1>5, FlipFacts DEF CommitRequest, Goto, PC, store, outbox, local, ghost
<1>6. CASE AbortRequest(w)
  BY <1>6, ReleaseFacts DEF AbortRequest, Goto, PC, store, outbox, local, ghost
<1> QED BY <1>1, <1>2, <1>3, <1>4, <1>5, <1>6 DEF RequestStep

LEMMA TypeResolve ==
  ASSUME TypeOK, HasSnap, NEW w \in Proc, ResolveStep(w) PROVE TypeOK'
<1> USE DEF TypeOK
<1>1. CASE LoadSession(w)
  BY <1>1 DEF LoadSession, Goto, Load, PC, store, outbox, local, ghost
<1>2. CASE KeepAlive(w)
  BY <1>2 DEF KeepAlive, FencedSave, Raise, Goto, PC, store, outbox, local, ghost
<1>3. CASE Reread(w)
  BY <1>3 DEF Reread, NextRow, RowAfter, Goto, PC, store, outbox, local, ghost
<1>4. CASE FlipRow(w)
  BY <1>4, FlipFacts DEF FlipRow, NextRow, RowAfter, Goto, PC, store, outbox, local, ghost
<1>5. CASE Discard(w)
  BY <1>5, ReleaseFacts DEF Discard, Goto, PC, store, outbox, local, ghost
<1>6. CASE CheckCleanup(w)
  BY <1>6 DEF CheckCleanup, NextRow, RowAfter, Goto, PC, store, outbox, local, ghost
<1>7. CASE PurgeMeta(w)
  BY <1>7 DEF PurgeMeta, NextRow, RowAfter, Raise, Goto, PC, store, outbox, local, ghost
<1> QED BY <1>1, <1>2, <1>3, <1>4, <1>5, <1>6, <1>7 DEF ResolveStep

LEMMA TypeDrain ==
  ASSUME TypeOK, HasSnap, NEW w \in Proc, DrainStep(w) PROVE TypeOK'
<1> USE DEF TypeOK
<1>1. CASE LoadHeld(w)
  BY <1>1 DEF LoadHeld, Goto, Load, PC, store, outbox, local, ghost
<1>2. CASE KeepHeld(w)
  BY <1>2 DEF KeepHeld, FencedSave, Raise, Goto, PC, store, outbox, local, ghost
<1>3. CASE ReadDeferred(w)
  BY <1>3 DEF ReadDeferred, AfterDrain, Goto, Load, PC, store, outbox, local, ghost
<1>4. CASE StageDeferred(w)
  <2> DEFINE k == Head(snap[w].unstaged)
             mine == {<<k, attempts + 1>> : j \in Stageable(rows, {k})}
  <2>a. snap[w] \in Meta /\ snap[w].unstaged # << >>
    BY <1>4 DEF StageDeferred, HasSnap, Working
  <2>b. k \in Facts
    BY <2>a, MetaFacts, Zenon
  <2> HIDE DEF k
  <2>1. mine \in SUBSET Token
    BY <2>b DEF Stageable, Token
  <2> HIDE DEF mine
  <2>2. snap[w].version + 1 \in Nat /\ attempts + 1 \in Nat
    BY <2>a DEF Meta
  <2>3. \A T \in SUBSET Token : Stamped(WithoutHead(snap[w]), T) \in Meta
    BY <2>a, MetaFacts, Zenon
  <2>4. Stage(rows, {k}, attempts + 1, snap[w].version + 1) \in [Facts -> Row]
    BY <2>2, StageFacts, Zenon
  <2>5. \/ /\ AfterDrain(w) \/ Goto(w, "write")
           /\ UNCHANGED <<rows, attempts, queue, items, snap, givenUp>>
        \/ TakeHead(w, {}) /\ givenUp' = givenUp \cup {k} /\ UNCHANGED <<rows, attempts>>
        \/ /\ TakeHead(w, mine) /\ attempts' = attempts + 1 /\ UNCHANGED givenUp
           /\ rows' = Stage(rows, {k}, attempts + 1, snap[w].version + 1)
    BY <1>4, Zenon DEF StageDeferred, StopStaging, k, mine
  <2>6. UNCHANGED <<store, last, faults, job, target, unresolved, history, landed>>
    BY <1>4 DEF StageDeferred
  <2>7. ASSUME NEW T \in SUBSET Token, TakeHead(w, T)
        PROVE  /\ queue' \in [Proc -> Seq(Facts)] /\ items' \in [Proc -> SUBSET Token]
               /\ snap' \in [Proc -> Meta \cup {NoMeta}] /\ pc' \in [Proc -> PC]
    <3>1. Append(queue[w], k) \in Seq(Facts)
      BY <2>b, AppendProperties, Zenon
    <3>2. queue' = [queue EXCEPT ![w] = Append(queue[w], k)]
      BY <2>7, Zenon DEF TakeHead, k
    <3> QED BY <2>3, <2>7, <3>1, <3>2 DEF TakeHead, Goto, PC
  <2>8. /\ queue' \in [Proc -> Seq(Facts)] /\ items' \in [Proc -> SUBSET Token]
        /\ snap' \in [Proc -> Meta \cup {NoMeta}] /\ pc' \in [Proc -> PC]
    <3>1. CASE UNCHANGED <<queue, items, snap>> /\ (AfterDrain(w) \/ Goto(w, "write"))
      BY <3>1 DEF AfterDrain, Goto, PC
    <3>2. CASE \E T \in SUBSET Token : TakeHead(w, T)
      BY <3>2, <2>7
    <3> QED BY <2>1, <2>5, <3>1, <3>2
  <2>9. rows' \in [Facts -> Row] /\ attempts' \in Nat /\ givenUp' \subseteq Facts
    BY <2>b, <2>2, <2>4, <2>5
  <2> QED BY <2>6, <2>8, <2>9 DEF store
<1>5. CASE AllDeferredStaged(w)
  BY <1>5 DEF AllDeferredStaged, Goto, PC, store, outbox, local, ghost
<1>6. CASE WriteDrained(w)
  BY <1>6 DEF WriteDrained, FencedSave, Raise, Goto, PC, store, outbox, local, ghost
<1>7. CASE FlipDrained(w)
  BY <1>7, FlipFacts DEF FlipDrained, AfterDrain, Goto, PC, store, outbox, local, ghost
<1>8. CASE Reload(w)
  BY <1>8 DEF Reload, Goto, Load, PC, store, outbox, local, ghost
<1> QED BY <1>1, <1>2, <1>3, <1>4, <1>5, <1>6, <1>7, <1>8 DEF DrainStep

LEMMA TypeStop ==
  ASSUME TypeOK, HasSnap, NEW w \in Proc, StopStep(w) PROVE TypeOK'
<1> USE DEF TypeOK
<1>1. CASE ListRows(w)
  BY <1>1 DEF ListRows, StagedTokens, TokenOf, Token, Row, Goto, PC, store, outbox, local, ghost
<1>2. CASE CountRemaining(w)
  BY <1>2 DEF CountRemaining, Goto, PC, store, outbox, local, ghost
<1>3. CASE DeleteMeta(w)
  BY <1>3 DEF DeleteMeta, FencedDelete, Raise, Goto, PC, store, outbox, local, ghost
<1>4. CASE MarkCleanup(w)
  BY <1>4, MetaFacts DEF MarkCleanup, Goto, PC, store, outbox, local, ghost
<1>5. CASE SaveMark(w)
  BY <1>5 DEF SaveMark, FencedSave, Raise, Goto, PC, store, outbox, local, ghost, HasSnap, Working
<1> QED BY <1>1, <1>2, <1>3, <1>4, <1>5 DEF StopStep

LEMMA TypeOther ==
  ASSUME TypeOK, HasSnap, NEW w \in Proc, Begin(w) \/ Exit(w) \/ Fault(w) PROVE TypeOK'
<1> USE DEF TypeOK
<1>1. ASSUME NEW r \in Requests, BeginRequest(w, r) PROVE TypeOK'
  BY <1>1, ConstantsAssumption
     DEF BeginRequest, Enter, Acquire, Goto, PC, Jobs, store, outbox, local, ghost
<1>2. ASSUME NEW k \in Facts, PickStale(w, k) PROVE TypeOK'
  <2>1. {TokenOf(rows, k)} \in SUBSET Token
    BY DEF TokenOf, Token, Row
  <2> QED BY <1>2, <2>1 DEF PickStale, Goto, PC, Jobs, store, outbox, local, ghost
<1>3. CASE LockRow(w)
  BY <1>3 DEF LockRow, Acquire, Goto, PC, store, outbox, local, ghost
<1>4. CASE BeginDrain(w)
  BY <1>4 DEF BeginDrain, Enter, Acquire, Goto, PC, Jobs, store, outbox, local, ghost
<1>5. CASE BeginStop(w)
  BY <1>5 DEF BeginStop, Enter, Acquire, Goto, PC, Jobs, store, outbox, local, ghost
<1>6. CASE Exit(w)
  BY <1>6 DEF Exit, Forget, NoTarget, Goto, PC, Jobs, store, outbox, local, ghost
<1>7. CASE Fail(w)
  BY <1>7 DEF Fail, Raise, Goto, PC, store, outbox, local, ghost
<1>8. CASE Crash(w)
  BY <1>8 DEF Crash, Forget, NoTarget, Goto, PC, Jobs, store, outbox, local, ghost
<1>9. CASE Caught(w)
  <2>1. /\ UNCHANGED <<lock, meta, last, job, queue, snap, target, history, landed, givenUp>>
        /\ faults' = faults + 1
        /\ RowSkipped(w) \/ StagingStopped(w) \/ FlipSkipped(w)
    BY <1>9, CaughtEffect
  <2> USE DEF AfterDrain, Goto, PC
  <2>2. CASE RowSkipped(w)
    BY <2>1, <2>2 DEF RowSkipped
  <2>3. CASE StagingStopped(w)
    <3>1. \/ UNCHANGED <<rows, attempts>>
          \/ rows' \in [Facts -> Row] /\ attempts' = attempts + 1
      BY <2>3, Zenon DEF StagingStopped
    <3>2. rows' \in [Facts -> Row] /\ attempts' \in Nat /\ faults' \in Nat
      BY <2>1, <3>1
    <3>3. pc' \in [Proc -> PC] /\ UNCHANGED <<items, unresolved>>
      BY <2>3 DEF StagingStopped
    <3> QED BY <2>1, <3>2, <3>3
  <2>4. CASE FlipSkipped(w)
    BY <2>1, <2>4 DEF FlipSkipped
  <2> QED BY <2>1, <2>2, <2>3, <2>4
<1> QED BY <1>1, <1>2, <1>3, <1>4, <1>5, <1>6, <1>7, <1>8, <1>9 DEF Begin, Fault

LEMMA TypeStep == TypeOK /\ HasSnap /\ [Next]_vars => TypeOK'
<1> SUFFICES ASSUME TypeOK, HasSnap, [Next]_vars PROVE TypeOK'
  OBVIOUS
<1>1. ASSUME NEW w \in Proc, Begin(w) \/ Step(w) \/ Fault(w) PROVE TypeOK'
  BY <1>1, TypeRequest, TypeResolve, TypeDrain, TypeStop, TypeOther DEF Step
<1>2. CASE LeaseExpires
  BY <1>2 DEF LeaseExpires, TypeOK, outbox, local, ghost
<1>3. CASE MetaExpires
  BY <1>3 DEF MetaExpires, TypeOK, outbox, local, ghost
<1>4. CASE UNCHANGED vars
  BY <1>4 DEF TypeOK, vars, store, outbox, local, ghost
<1> QED BY <1>1, <1>2, <1>3, <1>4 DEF Next

(***************************************************************************)
(* What the three steps that compute a new copy of the record do.          *)
(***************************************************************************)
LEMMA MetaFields ==
  ASSUME NEW m \in Meta
  PROVE  /\ \A D \in SUBSET Facts :
              Applying(m, D).tokens = m.tokens /\ Applying(m, D).unstaged = m.unstaged
         /\ \A q \in Seq(Facts) :
              Deferring(m, q).tokens = m.tokens /\ Deferring(m, q).unstaged = m.unstaged \o q
         /\ \A T \in SUBSET Token :
              Stamped(m, T).tokens = m.tokens \cup T /\ Stamped(m, T).unstaged = m.unstaged
         /\ Pruned(m).tokens = {t \in m.tokens : IsStaged(rows, t)} /\ Pruned(m).unstaged = m.unstaged
         /\ WithoutHead(m).tokens = m.tokens /\ WithoutHead(m).unstaged = Tail(m.unstaged)
         /\ [m EXCEPT !.cleanup = TRUE].tokens = m.tokens
         /\ [m EXCEPT !.cleanup = TRUE].unstaged = m.unstaged
<1>1. \A D \in SUBSET Facts :
        Applying(m, D).tokens = m.tokens /\ Applying(m, D).unstaged = m.unstaged
  BY DEF Meta, Applying
<1>2. \A q \in Seq(Facts) :
        Deferring(m, q).tokens = m.tokens /\ Deferring(m, q).unstaged = m.unstaged \o q
  BY DEF Meta, Deferring
<1>3. \A T \in SUBSET Token :
        Stamped(m, T).tokens = m.tokens \cup T /\ Stamped(m, T).unstaged = m.unstaged
  BY DEF Meta, Stamped
<1>4. Pruned(m).tokens = {t \in m.tokens : IsStaged(rows, t)} /\ Pruned(m).unstaged = m.unstaged
  BY DEF Meta, Pruned
<1>5. WithoutHead(m).tokens = m.tokens /\ WithoutHead(m).unstaged = Tail(m.unstaged)
  BY DEF Meta, WithoutHead
<1>6. /\ [m EXCEPT !.cleanup = TRUE].tokens = m.tokens
      /\ [m EXCEPT !.cleanup = TRUE].unstaged = m.unstaged
  BY DEF Meta
<1> QED BY <1>1, <1>2, <1>3, <1>4, <1>5, <1>6

LEMMA ElemsFacts ==
  /\ \A p, q \in Seq(Facts) : Elems(p \o q) = Elems(p) \cup Elems(q)
  /\ \A q \in Seq(Facts) : q # << >> =>
       Head(q) \in Facts /\ Elems(q) \subseteq {Head(q)} \cup Elems(Tail(q))
  /\ Elems(<< >>) = {}
  /\ \A h \in Seq(SUBSET Facts), D \in SUBSET Facts :
       UNION Elems(Append(h, D)) = (UNION Elems(h)) \cup D
<1>1. ASSUME NEW p \in Seq(Facts), NEW q \in Seq(Facts)
      PROVE  Elems(p \o q) = Elems(p) \cup Elems(q)
  <2>1. /\ p \o q \in Seq(Facts) /\ Len(p \o q) = Len(p) + Len(q)
        /\ \A i \in 1..Len(p) : (p \o q)[i] = p[i]
        /\ \A i \in 1..Len(q) : (p \o q)[Len(p) + i] = q[i]
    BY ConcatProperties
  <2>2. /\ DOMAIN p = 1..Len(p) /\ DOMAIN q = 1..Len(q) /\ DOMAIN (p \o q) = 1..Len(p \o q)
        /\ Len(p) \in Nat /\ Len(q) \in Nat
    BY <2>1, LenProperties
  <2> DEFINE s == p \o q
  <2> HIDE DEF s
  <2>3. \A i \in 1..(Len(p) + Len(q)) : i \in 1..Len(p) \/ i - Len(p) \in 1..Len(q)
    BY <2>2
  <2>4. \A i \in DOMAIN s : s[i] \in Elems(p) \cup Elems(q)
    BY <2>1, <2>2, <2>3 DEF Elems, s
  <2>5. \A i \in DOMAIN p : p[i] \in Elems(s)
    BY <2>1, <2>2 DEF Elems, s
  <2>6. ASSUME NEW i \in DOMAIN q PROVE q[i] \in Elems(s)
    <3>1. i \in 1..Len(q) /\ Len(p) + i \in 1..(Len(p) + Len(q))
      BY <2>2
    <3>2. Len(p) + i \in DOMAIN s /\ s[Len(p) + i] = q[i]
      BY <2>1, <2>2, <3>1 DEF s
    <3> QED BY <3>2 DEF Elems
  <2> QED BY <2>4, <2>5, <2>6 DEF Elems, s
<1>2. ASSUME NEW q \in Seq(Facts), q # << >>
      PROVE  Head(q) \in Facts /\ Elems(q) \subseteq {Head(q)} \cup Elems(Tail(q))
  <2>1. /\ Head(q) \in Facts /\ Tail(q) \in Seq(Facts)
        /\ Len(q) \in Nat /\ Len(q) # 0 /\ DOMAIN q = 1..Len(q)
        /\ Len(Tail(q)) = Len(q) - 1 /\ \A i \in 1..Len(Tail(q)) : Tail(q)[i] = q[i + 1]
        /\ DOMAIN Tail(q) = 1..Len(Tail(q)) /\ Head(q) = q[1]
    BY <1>2, HeadTailProperties, LenProperties, EmptySeq
  <2>2. \A i \in 1..Len(q) : i = 1 \/ (i - 1 \in 1..(Len(q) - 1) /\ (i - 1) + 1 = i)
    BY <2>1
  <2>3. \A i \in DOMAIN q : q[i] = Head(q) \/ q[i] \in Elems(Tail(q))
    BY <2>1, <2>2 DEF Elems
  <2> QED BY <2>1, <2>3 DEF Elems
<1>3. Elems(<< >>) = {}
  BY DEF Elems
<1>4. ASSUME NEW h \in Seq(SUBSET Facts), NEW D \in SUBSET Facts
      PROVE  UNION Elems(Append(h, D)) = (UNION Elems(h)) \cup D
  <2>1. /\ Append(h, D) \in Seq(SUBSET Facts) /\ Len(Append(h, D)) = Len(h) + 1
        /\ \A i \in 1..Len(h) : Append(h, D)[i] = h[i]
        /\ Append(h, D)[Len(h) + 1] = D
    BY AppendProperties
  <2>2. /\ DOMAIN h = 1..Len(h) /\ DOMAIN Append(h, D) = 1..(Len(h) + 1) /\ Len(h) \in Nat
    BY <2>1, LenProperties
  <2> DEFINE s == Append(h, D)
  <2> HIDE DEF s
  <2>3. \A i \in 1..(Len(h) + 1) : i \in 1..Len(h) \/ i = Len(h) + 1
    BY <2>2
  <2>4. \A i \in DOMAIN s : s[i] = D \/ s[i] \in Elems(h)
    BY <2>1, <2>2, <2>3 DEF Elems, s
  <2>5. D \in Elems(s) /\ \A i \in DOMAIN h : h[i] \in Elems(s)
    BY <2>1, <2>2 DEF Elems, s
  <2> QED BY <2>4, <2>5 DEF Elems, s
<1> QED BY <1>1, <1>2, <1>3, <1>4

LEMMA LoadRequestEffect ==
  ASSUME TypeOK, NEW w \in Proc, LoadRequest(w)
  PROVE  /\ pc[w] = "load"
         /\ UNCHANGED <<lock, meta, rows, last, attempts, job, queue, items, target, unresolved,
                        history, landed, givenUp>>
         /\ \/ pc' = [pc EXCEPT ![w] = "exit"] /\ snap' = snap
            \/ meta # NoMeta /\ pc' = [pc EXCEPT ![w] = "prune"] /\ snap' = [snap EXCEPT ![w] = meta]
            \/ /\ meta # NoMeta /\ pc' = [pc EXCEPT ![w] = "save"]
               /\ \E m \in Meta : /\ snap' = [snap EXCEPT ![w] = m] /\ m.tokens = meta.tokens
                                  /\ Elems(m.unstaged) = Elems(meta.unstaged) \cup Elems(queue[w])
<1> DEFINE D == Elems(queue[w])
           m == Deferring(Applying(meta, D), queue[w])
<1>1. queue[w] \in Seq(Facts) /\ (meta # NoMeta => meta \in Meta)
  BY DEF TypeOK
<1>2. D \in SUBSET Facts
  BY <1>1, ElemsType, Zenon
<1>3. meta # NoMeta => /\ m \in Meta /\ m.tokens = meta.tokens
                       /\ m.unstaged = meta.unstaged \o queue[w] /\ meta.unstaged \in Seq(Facts)
  <2> SUFFICES ASSUME meta \in Meta
               PROVE  /\ m \in Meta /\ m.tokens = meta.tokens
                      /\ m.unstaged = meta.unstaged \o queue[w] /\ meta.unstaged \in Seq(Facts)
    BY <1>1, Zenon
  <2>1. Applying(meta, D) \in Meta /\ Applying(meta, D).tokens = meta.tokens
        /\ Applying(meta, D).unstaged = meta.unstaged
    BY <1>2, MetaFacts, MetaFields, Zenon
  <2>2. meta.unstaged \in Seq(Facts)
    BY DEF Meta
  <2>3. /\ m \in Meta /\ m.tokens = Applying(meta, D).tokens
        /\ m.unstaged = Applying(meta, D).unstaged \o queue[w]
    BY <1>1, <2>1, MetaFacts, MetaFields, Zenon
  <2> QED BY <2>1, <2>2, <2>3, Zenon
<1>4. meta # NoMeta => Elems(m.unstaged) = Elems(meta.unstaged) \cup Elems(queue[w])
  BY <1>1, <1>3, ElemsFacts, Zenon
<1> HIDE DEF m
<1>5. \/ pc' = [pc EXCEPT ![w] = "exit"] /\ snap' = snap
      \/ meta # NoMeta /\ pc' = [pc EXCEPT ![w] = "prune"] /\ snap' = [snap EXCEPT ![w] = meta]
      \/ /\ meta # NoMeta /\ pc' = [pc EXCEPT ![w] = "save"] /\ snap' = [snap EXCEPT ![w] = m]
  BY Zenon DEF LoadRequest, Load, Goto, m
<1>6. /\ pc[w] = "load"
      /\ UNCHANGED <<store, outbox, faults, job, queue, items, target, unresolved, ghost>>
  BY Zenon DEF LoadRequest
<1>7. \/ pc' = [pc EXCEPT ![w] = "exit"] /\ snap' = snap
      \/ meta # NoMeta /\ pc' = [pc EXCEPT ![w] = "prune"] /\ snap' = [snap EXCEPT ![w] = meta]
      \/ /\ meta # NoMeta /\ pc' = [pc EXCEPT ![w] = "save"]
         /\ \E n \in Meta : /\ snap' = [snap EXCEPT ![w] = n] /\ n.tokens = meta.tokens
                            /\ Elems(n.unstaged) = Elems(meta.unstaged) \cup Elems(queue[w])
  BY <1>3, <1>4, <1>5, Zenon
<1> QED BY <1>6, <1>7 DEF store, outbox, ghost

RequestStaged(w, mine, m) ==
  /\ pc' = [pc EXCEPT ![w] = "save"] /\ attempts' = attempts + 1
  /\ items' = [items EXCEPT ![w] = mine] /\ snap' = [snap EXCEPT ![w] = m]
  /\ m.tokens = snap[w].tokens \cup mine /\ m.unstaged = snap[w].unstaged
  /\ \A t \in mine : t[2] = attempts + 1
  /\ \A k \in Elems(queue[w]) :
       /\ k \in Facts /\ rows[k].status # "staged"
       /\ rows[k].status \in {"none", "discarded"} => <<k, attempts + 1>> \in mine
  /\ StagedTo(rows', Elems(queue[w]), attempts + 1)

LEMMA StageRequestEffect ==
  ASSUME TypeOK, HasSnap, NEW w \in Proc, StageRequest(w)
  PROVE  /\ pc[w] = "stage" /\ snap[w] \in Meta
         /\ UNCHANGED <<lock, meta, last, job, queue, target, unresolved, history, landed, givenUp>>
         /\ \/ pc' = [pc EXCEPT ![w] = "exit"] /\ UNCHANGED <<rows, attempts, snap, items>>
            \/ \E mine \in SUBSET Token, m \in Meta : RequestStaged(w, mine, m)
<1> DEFINE D == Elems(queue[w])
           mine == {<<k, attempts + 1>> : k \in Stageable(rows, D)}
           m == Stamped(Applying(snap[w], D), mine)
<1>1. pc[w] = "stage" /\ queue[w] \in Seq(Facts) /\ attempts \in Nat /\ rows \in [Facts -> Row]
  BY DEF StageRequest, TypeOK
<1>2. snap[w] \in Meta /\ attempts + 1 \in Nat
  BY <1>1 DEF HasSnap, Working
<1>3. D \in SUBSET Facts
  BY <1>1, ElemsType, Zenon
<1>4. mine \in SUBSET Token /\ \A t \in mine : t[2] = attempts + 1
  <2> HIDE DEF D
  <2> QED BY <1>2, <1>3 DEF Stageable, Token
<1>5. snap[w].version + 1 \in Nat
  BY <1>2 DEF Meta
<1>6. m \in Meta /\ m.tokens = snap[w].tokens \cup mine /\ m.unstaged = snap[w].unstaged
  <2> HIDE DEF D, mine
  <2>1. /\ Applying(snap[w], D) \in Meta /\ Applying(snap[w], D).tokens = snap[w].tokens
        /\ Applying(snap[w], D).unstaged = snap[w].unstaged
    BY <1>2, <1>3, MetaFacts, MetaFields, Zenon
  <2>2. /\ m \in Meta /\ m.tokens = Applying(snap[w], D).tokens \cup mine
        /\ m.unstaged = Applying(snap[w], D).unstaged
    BY <2>1, <1>4, MetaFacts, MetaFields, Zenon
  <2> QED BY <2>1, <2>2, Zenon
<1>7. ASSUME rows' = Stage(rows, D, attempts + 1, snap[w].version + 1)
      PROVE  StagedTo(rows', D, attempts + 1)
  BY <1>1, <1>2, <1>5, <1>7, StageFacts, Zenon
<1>8. ASSUME ~StageBlocked(rows, D)
      PROVE  \A k \in D : /\ k \in Facts /\ rows[k].status # "staged"
                          /\ rows[k].status \in {"none", "discarded"} => <<k, attempts + 1>> \in mine
  <2> HIDE DEF D
  <2> QED BY <1>3, <1>8 DEF StageBlocked, Stageable
<1>9. UNCHANGED <<store, last, faults, job, queue, target, unresolved, ghost>>
  BY Zenon DEF StageRequest
<1>10. \/ pc' = [pc EXCEPT ![w] = "exit"] /\ UNCHANGED <<rows, attempts, snap, items>>
       \/ /\ pc' = [pc EXCEPT ![w] = "save"] /\ attempts' = attempts + 1
          /\ items' = [items EXCEPT ![w] = mine] /\ snap' = [snap EXCEPT ![w] = m]
          /\ rows' = Stage(rows, D, attempts + 1, snap[w].version + 1)
          /\ ~StageBlocked(rows, D)
  BY Zenon DEF StageRequest, Goto
<1> HIDE DEF m, mine
<1>11. CASE /\ pc' = [pc EXCEPT ![w] = "save"] /\ attempts' = attempts + 1
            /\ items' = [items EXCEPT ![w] = mine] /\ snap' = [snap EXCEPT ![w] = m]
            /\ rows' = Stage(rows, D, attempts + 1, snap[w].version + 1)
            /\ ~StageBlocked(rows, D)
  <2>1. RequestStaged(w, mine, m)
    BY <1>4, <1>6, <1>7, <1>8, <1>11, Zenon DEF RequestStaged
  <2> QED BY <1>1, <1>2, <1>4, <1>6, <1>9, <2>1, Zenon DEF store, ghost
<1> QED BY <1>1, <1>2, <1>9, <1>10, <1>11, Zenon DEF store, ghost

DeferredTaken(w, k, mine, m) ==
  /\ pc' = [pc EXCEPT ![w] = "stageOne"]
  /\ items' = [items EXCEPT ![w] = items[w] \cup mine] /\ snap' = [snap EXCEPT ![w] = m]
  /\ queue' = [queue EXCEPT ![w] = Append(queue[w], k)]
  /\ m.tokens = snap[w].tokens \cup mine
  /\ Elems(snap[w].unstaged) \subseteq {k} \cup Elems(m.unstaged)

DeferredGivenUp(k, mine) ==
  mine = {} /\ givenUp' = givenUp \cup {k} /\ rows' = rows /\ attempts' = attempts

DeferredStaged(k, mine) ==
  /\ givenUp' = givenUp /\ attempts' = attempts + 1
  /\ rows[k].status # "staged"
  /\ rows[k].status \in {"none", "discarded"} => <<k, attempts + 1>> \in mine
  /\ \A t \in mine : t[2] = attempts + 1
  /\ StagedTo(rows', {k}, attempts + 1)

LEMMA StageDeferredEffect ==
  ASSUME TypeOK, HasSnap, NEW w \in Proc, StageDeferred(w)
  PROVE  /\ pc[w] = "stageOne" /\ snap[w] \in Meta
         /\ UNCHANGED <<lock, meta, last, job, target, unresolved, history, landed>>
         /\ \/ /\ AfterDrain(w) \/ Goto(w, "write")
               /\ UNCHANGED <<rows, attempts, snap, items, queue, givenUp>>
            \/ \E k \in Facts, mine \in SUBSET Token, m \in Meta :
                 DeferredTaken(w, k, mine, m) /\ (DeferredGivenUp(k, mine) \/ DeferredStaged(k, mine))
<1> DEFINE k == Head(snap[w].unstaged)
           mine == {<<k, attempts + 1>> : j \in Stageable(rows, {k})}
           m(T) == Stamped(WithoutHead(snap[w]), T)
<1>1. /\ pc[w] = "stageOne" /\ snap[w].unstaged # << >> /\ attempts \in Nat
      /\ rows \in [Facts -> Row]
  BY DEF StageDeferred, TypeOK
<1>2. snap[w] \in Meta /\ attempts + 1 \in Nat
  BY <1>1 DEF HasSnap, Working
<1>3. snap[w].unstaged \in Seq(Facts) /\ snap[w].version + 1 \in Nat
  BY <1>2 DEF Meta
<1>4. k \in Facts /\ Elems(snap[w].unstaged) \subseteq {k} \cup Elems(Tail(snap[w].unstaged))
  BY <1>1, <1>3, ElemsFacts, Zenon
<1>5. mine \in SUBSET Token /\ \A t \in mine : t[2] = attempts + 1
  <2> HIDE DEF k
  <2> QED BY <1>2, <1>4 DEF Stageable, Token
<1>6. \A T \in SUBSET Token : /\ m(T) \in Meta /\ m(T).tokens = snap[w].tokens \cup T
                              /\ Elems(snap[w].unstaged) \subseteq {k} \cup Elems(m(T).unstaged)
  <2> SUFFICES ASSUME NEW T \in SUBSET Token
               PROVE  /\ m(T) \in Meta /\ m(T).tokens = snap[w].tokens \cup T
                      /\ Elems(snap[w].unstaged) \subseteq {k} \cup Elems(m(T).unstaged)
    BY Zenon
  <2> DEFINE n == WithoutHead(snap[w])
  <2>1. n \in Meta /\ n.tokens = snap[w].tokens /\ n.unstaged = Tail(snap[w].unstaged)
    BY <1>1, <1>2, MetaFacts, MetaFields, Zenon
  <2> HIDE DEF n
  <2>2. Stamped(n, T) \in Meta /\ Stamped(n, T).tokens = n.tokens \cup T
        /\ Stamped(n, T).unstaged = n.unstaged
    BY <2>1, MetaFacts, MetaFields, Zenon
  <2> QED BY <1>4, <2>1, <2>2, Zenon DEF n
<1>7. ASSUME rows' = Stage(rows, {k}, attempts + 1, snap[w].version + 1)
      PROVE  StagedTo(rows', {k}, attempts + 1)
  BY <1>1, <1>2, <1>3, <1>7, StageFacts, Zenon
<1>8. ASSUME ~StageBlocked(rows, {k})
      PROVE  /\ rows[k].status # "staged"
             /\ rows[k].status \in {"none", "discarded"} => <<k, attempts + 1>> \in mine
  <2> HIDE DEF k
  <2> QED BY <1>4, <1>8 DEF StageBlocked, Stageable
<1>9. UNCHANGED <<store, last, faults, job, target, unresolved, history, landed>>
  BY Zenon DEF StageDeferred, StopStaging
<1>10. \/ /\ AfterDrain(w) \/ Goto(w, "write")
          /\ UNCHANGED <<rows, attempts, queue, items, snap, givenUp>>
       \/ TakeHead(w, {}) /\ givenUp' = givenUp \cup {k} /\ UNCHANGED <<rows, attempts>>
       \/ /\ ~StageBlocked(rows, {k}) /\ TakeHead(w, mine)
          /\ rows' = Stage(rows, {k}, attempts + 1, snap[w].version + 1)
          /\ attempts' = attempts + 1 /\ UNCHANGED givenUp
  BY Zenon DEF StageDeferred, StopStaging
<1>11. ASSUME NEW T, TakeHead(w, T)
       PROVE  /\ pc' = [pc EXCEPT ![w] = "stageOne"]
              /\ items' = [items EXCEPT ![w] = items[w] \cup T]
              /\ snap' = [snap EXCEPT ![w] = m(T)]
              /\ queue' = [queue EXCEPT ![w] = Append(queue[w], k)]
  BY <1>11, Zenon DEF TakeHead, Goto
<1> HIDE DEF m, mine, k
<1>12. CASE TakeHead(w, {}) /\ givenUp' = givenUp \cup {k} /\ UNCHANGED <<rows, attempts>>
  <2>1. {} \in SUBSET Token
    OBVIOUS
  <2>2. DeferredTaken(w, k, {}, m({})) /\ DeferredGivenUp(k, {})
    BY <1>6, <1>11, <1>12, <2>1, Zenon DEF DeferredTaken, DeferredGivenUp
  <2> QED BY <1>1, <1>2, <1>4, <1>6, <1>9, <2>1, <2>2, Zenon DEF store
<1>13. CASE /\ ~StageBlocked(rows, {k}) /\ TakeHead(w, mine)
            /\ rows' = Stage(rows, {k}, attempts + 1, snap[w].version + 1)
            /\ attempts' = attempts + 1 /\ UNCHANGED givenUp
  <2>1. DeferredTaken(w, k, mine, m(mine)) /\ DeferredStaged(k, mine)
    BY <1>5, <1>6, <1>7, <1>8, <1>11, <1>13, Zenon DEF DeferredTaken, DeferredStaged
  <2> QED BY <1>1, <1>2, <1>4, <1>5, <1>6, <1>9, <2>1, Zenon DEF store
<1> QED BY <1>1, <1>2, <1>9, <1>10, <1>12, <1>13, Zenon DEF store

(***************************************************************************)
(* A process at work has a copy of the record.                             *)
(***************************************************************************)
LEMMA SnapStep == TypeOK /\ TypeOK' /\ HasSnap /\ [Next]_vars => HasSnap'
<1> SUFFICES ASSUME TypeOK, TypeOK', HasSnap, [Next]_vars PROVE HasSnap'
  OBVIOUS
<1>0. /\ pc \in [Proc -> PC] /\ pc' \in [Proc -> PC] /\ meta \in Meta \cup {NoMeta}
      /\ snap \in [Proc -> Meta \cup {NoMeta}] /\ snap' \in [Proc -> Meta \cup {NoMeta}]
  BY DEF TypeOK
<1> USE <1>0 DEF HasSnap, Working
<1>1. ASSUME NEW w \in Proc, LoadRequest(w) \/ PruneProof(w) \/ StageRequest(w)
      PROVE HasSnap'
  <2>1. CASE LoadRequest(w)
    BY <2>1, LoadRequestEffect
  <2>2. CASE PruneProof(w)
    BY <2>2, MetaFacts DEF PruneProof, Goto
  <2>3. CASE StageRequest(w)
    BY <2>3, StageRequestEffect DEF RequestStaged
  <2> QED BY <1>1, <2>1, <2>2, <2>3
<1>2. ASSUME NEW w \in Proc, SaveRequest(w) \/ CommitRequest(w) \/ AbortRequest(w)
      PROVE HasSnap'
  BY <1>2 DEF SaveRequest, CommitRequest, AbortRequest, Goto
<1>3. ASSUME NEW w \in Proc, LoadSession(w) \/ KeepAlive(w) \/ Reread(w)
      PROVE HasSnap'
  BY <1>3 DEF LoadSession, KeepAlive, Reread, FencedSave, Raise, NextRow, RowAfter, Load, Goto
<1>4. ASSUME NEW w \in Proc, FlipRow(w) \/ Discard(w) \/ CheckCleanup(w) \/ PurgeMeta(w)
      PROVE HasSnap'
  BY <1>4 DEF FlipRow, Discard, CheckCleanup, PurgeMeta, Raise, NextRow, RowAfter, Goto
<1>5. ASSUME NEW w \in Proc, LoadHeld(w) \/ KeepHeld(w) \/ ReadDeferred(w) \/ Reload(w)
      PROVE HasSnap'
  BY <1>5 DEF LoadHeld, KeepHeld, ReadDeferred, Reload, FencedSave, Raise, AfterDrain, Load, Goto
<1>6. ASSUME NEW w \in Proc, StageDeferred(w) PROVE HasSnap'
  <2>1. /\ snap[w] \in Meta
        /\ \/ (AfterDrain(w) \/ Goto(w, "write")) /\ snap' = snap
           \/ \E m \in Meta : /\ pc' = [pc EXCEPT ![w] = "stageOne"]
                              /\ snap' = [snap EXCEPT ![w] = m]
    BY <1>6, StageDeferredEffect DEF DeferredTaken
  <2> QED BY <2>1 DEF AfterDrain, Goto
<1>7. ASSUME NEW w \in Proc, AllDeferredStaged(w) \/ WriteDrained(w) \/ FlipDrained(w)
      PROVE HasSnap'
  BY <1>7 DEF AllDeferredStaged, WriteDrained, FlipDrained, FencedSave, Raise, AfterDrain, Goto
<1>8. ASSUME NEW w \in Proc, StopStep(w) PROVE HasSnap'
  BY <1>8, MetaFacts
     DEF StopStep, ListRows, CountRemaining, DeleteMeta, MarkCleanup, SaveMark, FencedSave,
         FencedDelete, Raise, Goto
<1>9. ASSUME NEW w \in Proc, Begin(w) PROVE HasSnap'
  BY <1>9 DEF Begin, BeginRequest, PickStale, LockRow, BeginDrain, BeginStop, Enter, Goto
<1>10. ASSUME NEW w \in Proc, Exit(w) \/ Fail(w) \/ Crash(w) PROVE HasSnap'
  BY <1>10 DEF Exit, Fail, Crash, Raise, Forget, Goto
<1>10c. ASSUME NEW w \in Proc, Caught(w) PROVE HasSnap'
  BY <1>10c, CaughtEffect DEF RowSkipped, StagingStopped, FlipSkipped, StagedTo, AfterDrain, Goto
<1>11. CASE LeaseExpires \/ MetaExpires \/ UNCHANGED vars
  BY <1>11 DEF LeaseExpires, MetaExpires, vars, local
<1> QED BY <1>10c, <1>1, <1>2, <1>3, <1>4, <1>5, <1>6, <1>7, <1>8, <1>9, <1>10, <1>11
  DEF Next, Step, Fault, RequestStep, ResolveStep, DrainStep

(***************************************************************************)
(* Where a process has items, a target and its job.                        *)
(***************************************************************************)
Control == NoItemsYet /\ StopOnly /\ HasTarget

LEMMA ControlStep == TypeOK /\ HasSnap /\ Control /\ [Next]_vars => Control'
<1> SUFFICES ASSUME TypeOK, HasSnap, Control, [Next]_vars PROVE Control'
  OBVIOUS
<1>0. /\ pc \in [Proc -> PC] /\ job \in [Proc -> Jobs] /\ items \in [Proc -> SUBSET Token]
      /\ target \in [Proc -> Token \cup {NoTarget}]
  BY DEF TypeOK
<1> USE <1>0 DEF Control, NoItemsYet, StopOnly, HasTarget
<1>1. ASSUME NEW w \in Proc, LoadRequest(w) \/ PruneProof(w) \/ StageRequest(w)
      PROVE Control'
  <2>1. CASE LoadRequest(w)
    BY <2>1 DEF LoadRequest, Goto
  <2>2. CASE PruneProof(w)
    BY <2>2 DEF PruneProof, Goto
  <2>3. CASE StageRequest(w)
    BY <2>3, StageRequestEffect DEF RequestStaged
  <2> QED BY <1>1, <2>1, <2>2, <2>3
<1>2. ASSUME NEW w \in Proc, SaveRequest(w) \/ CommitRequest(w) \/ AbortRequest(w)
      PROVE Control'
  BY <1>2 DEF SaveRequest, CommitRequest, AbortRequest, Goto
<1>3. ASSUME NEW w \in Proc, LoadSession(w) \/ KeepAlive(w) \/ Reread(w)
      PROVE Control'
  BY <1>3 DEF LoadSession, KeepAlive, Reread, FencedSave, Raise, NextRow, RowAfter, Goto
<1>4. ASSUME NEW w \in Proc, FlipRow(w) \/ Discard(w) \/ CheckCleanup(w) \/ PurgeMeta(w)
      PROVE Control'
  BY <1>4 DEF FlipRow, Discard, CheckCleanup, PurgeMeta, Raise, NextRow, RowAfter, Goto
<1>5. ASSUME NEW w \in Proc, LoadHeld(w) \/ KeepHeld(w) \/ ReadDeferred(w) \/ Reload(w)
      PROVE Control'
  BY <1>5 DEF LoadHeld, KeepHeld, ReadDeferred, Reload, FencedSave, Raise, AfterDrain, Goto
<1>6. ASSUME NEW w \in Proc, StageDeferred(w) PROVE Control'
  <2>1. /\ pc[w] = "stageOne" /\ UNCHANGED <<job, target>>
        /\ \/ (AfterDrain(w) \/ Goto(w, "write")) /\ items' = items
           \/ \E T : /\ pc' = [pc EXCEPT ![w] = "stageOne"]
                     /\ items' = [items EXCEPT ![w] = items[w] \cup T]
    BY <1>6, StageDeferredEffect DEF DeferredTaken
  <2> QED BY <2>1 DEF AfterDrain, Goto
<1>7. ASSUME NEW w \in Proc, AllDeferredStaged(w) \/ WriteDrained(w) \/ FlipDrained(w)
      PROVE Control'
  BY <1>7 DEF AllDeferredStaged, WriteDrained, FlipDrained, FencedSave, Raise, AfterDrain, Goto
<1>8. ASSUME NEW w \in Proc, StopStep(w) PROVE Control'
  BY <1>8
     DEF StopStep, ListRows, CountRemaining, DeleteMeta, MarkCleanup, SaveMark, FencedSave,
         FencedDelete, Raise, Goto
<1>9. ASSUME NEW w \in Proc, Begin(w) PROVE Control'
  BY <1>9 DEF Begin, BeginRequest, PickStale, LockRow, BeginDrain, BeginStop, Enter, Goto
<1>10. ASSUME NEW w \in Proc, Exit(w) \/ Fail(w) \/ Crash(w) PROVE Control'
  BY <1>10 DEF Exit, Fail, Crash, Raise, Forget, Goto
<1>10c. ASSUME NEW w \in Proc, Caught(w) PROVE Control'
  BY <1>10c, CaughtEffect DEF RowSkipped, StagingStopped, FlipSkipped, StagedTo, AfterDrain, Goto
<1>11. CASE LeaseExpires \/ MetaExpires \/ UNCHANGED vars
  BY <1>11 DEF LeaseExpires, MetaExpires, vars, local
<1> QED BY <1>10c, <1>1, <1>2, <1>3, <1>4, <1>5, <1>6, <1>7, <1>8, <1>9, <1>10, <1>11
  DEF Next, Step, Fault, RequestStep, ResolveStep, DrainStep

\* The steps that number rows, and those that release them.
LEMMA FlipEffect ==
  ASSUME TypeOK, NEW w \in Proc
  PROVE  /\ CommitRequest(w) \/ FlipDrained(w) => FlippedTo(rows', items[w])
         /\ FlipRow(w) => FlippedTo(rows', {target[w]})
         /\ AbortRequest(w) => ReleasedTo(rows', items[w])
         /\ Discard(w) => ReleasedTo(rows', {target[w]})
<1>1. rows \in [Facts -> Row] /\ last \in Nat
  BY DEF TypeOK
<1>2. CommitRequest(w) \/ FlipDrained(w) => rows' = MarkReady(rows, items[w], last)
  BY DEF CommitRequest, FlipDrained
<1>3. FlipRow(w) => rows' = MarkReady(rows, {target[w]}, last)
  BY DEF FlipRow
<1>4. AbortRequest(w) => rows' = Release(rows, items[w], TRUE)
  BY DEF AbortRequest
<1>5. Discard(w) => rows' = Release(rows, {target[w]}, FALSE)
  BY DEF Discard
<1>6. CommitRequest(w) \/ FlipDrained(w) => FlippedTo(rows', items[w])
  BY <1>1, <1>2, FlipFacts, Zenon
<1>7. FlipRow(w) => FlippedTo(rows', {target[w]})
  BY <1>1, <1>3, FlipFacts, Zenon
<1>8. AbortRequest(w) => ReleasedTo(rows', items[w])
  BY <1>1, <1>4, ReleaseFacts, Zenon
<1>9. Discard(w) => ReleasedTo(rows', {target[w]})
  BY <1>1, <1>5, ReleaseFacts, Zenon
<1> QED BY <1>6, <1>7, <1>8, <1>9

(***************************************************************************)
(* Stage tokens are fresh.                                                 *)
(***************************************************************************)
LEMMA KnownStep == TypeOK /\ HasSnap /\ KnownTokens /\ [Next]_vars => KnownTokens'
<1> SUFFICES ASSUME TypeOK, HasSnap, KnownTokens, [Next]_vars PROVE KnownTokens'
  OBVIOUS
<1>0. /\ pc \in [Proc -> PC] /\ items \in [Proc -> SUBSET Token] /\ attempts \in Nat
      /\ target \in [Proc -> Token \cup {NoTarget}] /\ landed \subseteq Token
      /\ rows \in [Facts -> Row] /\ last \in Nat
  BY DEF TypeOK
<1> USE <1>0 DEF KnownTokens
<1>1. ASSUME NEW w \in Proc, LoadRequest(w) \/ PruneProof(w) \/ StageRequest(w)
      PROVE KnownTokens'
  <2>1. CASE LoadRequest(w)
    BY <2>1, LoadRequestEffect
  <2>2. CASE PruneProof(w)
    BY <2>2 DEF PruneProof, outbox, ghost
  <2>3. CASE StageRequest(w)
    <3>1. UNCHANGED <<target, landed>>
      BY <2>3, StageRequestEffect
    <3>2. CASE UNCHANGED <<rows, attempts, items>>
      BY <3>1, <3>2
    <3>3. ASSUME NEW mine \in SUBSET Token, NEW m \in Meta, RequestStaged(w, mine, m)
          PROVE  KnownTokens'
      <4>1. \A k \in Facts : rows'[k].token <= attempts'
        BY <3>3 DEF RequestStaged, StagedTo, Row
      <4>2. \A t \in landed' : t[2] <= attempts'
        BY <3>1, <3>3 DEF RequestStaged, Token
      <4>3. \A u \in Proc : \A t \in items'[u] \cup {target'[u]} : t[2] <= attempts'
        BY <3>1, <3>3 DEF RequestStaged, Token, NoTarget
      <4> QED BY <4>1, <4>2, <4>3
    <3> QED BY <2>3, StageRequestEffect, <3>2, <3>3, Zenon
  <2> QED BY <1>1, <2>1, <2>2, <2>3
<1>2. ASSUME NEW w \in Proc, SaveRequest(w) \/ CommitRequest(w) \/ AbortRequest(w)
      PROVE KnownTokens'
  <2>1. CASE SaveRequest(w)
    BY <2>1 DEF SaveRequest, outbox
  <2>2. CASE CommitRequest(w) \/ AbortRequest(w)
    <3>1. UNCHANGED <<attempts, items, target, landed>>
      BY <2>2 DEF CommitRequest, AbortRequest, ghost
    <3>2. \A k \in Facts : rows'[k].token <= attempts
      BY <2>2, FlipEffect DEF FlippedTo, ReleasedTo
    <3> QED BY <3>1, <3>2
  <2> QED BY <1>2, <2>1, <2>2
<1>3. ASSUME NEW w \in Proc, LoadSession(w) \/ KeepAlive(w) \/ Reread(w)
      PROVE KnownTokens'
  BY <1>3 DEF LoadSession, KeepAlive, Reread, outbox, ghost
<1>4. ASSUME NEW w \in Proc, FlipRow(w) \/ Discard(w) \/ CheckCleanup(w) \/ PurgeMeta(w)
      PROVE KnownTokens'
  <2>1. CASE CheckCleanup(w) \/ PurgeMeta(w)
    BY <2>1 DEF CheckCleanup, PurgeMeta, outbox, ghost
  <2>2. CASE FlipRow(w) \/ Discard(w)
    <3>1. UNCHANGED <<attempts, items, target, landed>>
      BY <2>2 DEF FlipRow, Discard, ghost
    <3>2. \A k \in Facts : rows'[k].token <= attempts
      BY <2>2, FlipEffect DEF FlippedTo, ReleasedTo
    <3> QED BY <3>1, <3>2
  <2> QED BY <1>4, <2>1, <2>2
<1>5. ASSUME NEW w \in Proc, LoadHeld(w) \/ KeepHeld(w) \/ ReadDeferred(w) \/ Reload(w)
      PROVE KnownTokens'
  BY <1>5 DEF LoadHeld, KeepHeld, ReadDeferred, Reload, outbox, ghost
<1>6. ASSUME NEW w \in Proc, StageDeferred(w) PROVE KnownTokens'
  <2>1. UNCHANGED <<target, landed>>
    BY <1>6, StageDeferredEffect
  <2>2. CASE UNCHANGED <<rows, attempts, items>>
    BY <2>1, <2>2
  <2>3. ASSUME NEW k \in Facts, NEW mine \in SUBSET Token, NEW m \in Meta,
               DeferredTaken(w, k, mine, m), DeferredGivenUp(k, mine)
        PROVE  KnownTokens'
    BY <2>1, <2>3 DEF DeferredTaken, DeferredGivenUp
  <2>4. ASSUME NEW k \in Facts, NEW mine \in SUBSET Token, NEW m \in Meta,
               DeferredTaken(w, k, mine, m), DeferredStaged(k, mine)
        PROVE  KnownTokens'
    <3>1. \A j \in Facts : rows'[j].token <= attempts'
      BY <2>4 DEF DeferredStaged, StagedTo, Row
    <3>2. \A t \in landed' : t[2] <= attempts'
      BY <2>1, <2>4 DEF DeferredStaged, Token
    <3>3. \A u \in Proc : \A t \in items'[u] \cup {target'[u]} : t[2] <= attempts'
      BY <2>1, <2>4 DEF DeferredTaken, DeferredStaged, Token, NoTarget
    <3> QED BY <3>1, <3>2, <3>3
  <2> QED BY <1>6, StageDeferredEffect, <2>2, <2>3, <2>4, Zenon
<1>7. ASSUME NEW w \in Proc, AllDeferredStaged(w) \/ WriteDrained(w) \/ FlipDrained(w)
      PROVE KnownTokens'
  BY <1>7, FlipEffect DEF AllDeferredStaged, WriteDrained, FlipDrained, FlippedTo, outbox, ghost
<1>8. ASSUME NEW w \in Proc, StopStep(w) PROVE KnownTokens'
  BY <1>8
     DEF StopStep, ListRows, CountRemaining, DeleteMeta, MarkCleanup, SaveMark, StagedTokens,
         TokenOf, outbox, ghost
<1>9. ASSUME NEW w \in Proc, Begin(w) PROVE KnownTokens'
  BY <1>9
     DEF Begin, BeginRequest, PickStale, LockRow, BeginDrain, BeginStop, Enter, TokenOf, outbox,
         ghost
<1>10. ASSUME NEW w \in Proc, Exit(w) \/ Fail(w) \/ Crash(w) PROVE KnownTokens'
  BY <1>10 DEF Exit, Fail, Crash, Forget, NoTarget, outbox, ghost
<1>10c. ASSUME NEW w \in Proc, Caught(w) PROVE KnownTokens'
  <2>1. /\ UNCHANGED <<lock, meta, last, job, queue, snap, target, history, landed, givenUp>>
        /\ RowSkipped(w) \/ StagingStopped(w) \/ FlipSkipped(w)
    BY <1>10c, CaughtEffect
  <2>2. CASE RowSkipped(w)
    BY <2>1, <2>2 DEF RowSkipped
  <2>3. CASE StagingStopped(w)
    <3>1. UNCHANGED items
      BY <2>3 DEF StagingStopped
    <3>2. CASE UNCHANGED <<rows, attempts>>
      BY <2>1, <3>1, <3>2
    <3>3. ASSUME NEW k \in Facts, attempts' = attempts + 1, StagedTo(rows', {k}, attempts + 1)
          PROVE  KnownTokens'
      <4>1. \A j \in Facts : rows'[j].token <= attempts'
        BY <3>3 DEF StagedTo, Row
      <4>2. \A t \in landed' : t[2] <= attempts'
        BY <2>1, <3>3 DEF Token
      <4>3. \A u \in Proc : \A t \in items'[u] \cup {target'[u]} : t[2] <= attempts'
        BY <2>1, <3>1, <3>3 DEF Token, NoTarget
      <4> QED BY <4>1, <4>2, <4>3
    <3> QED BY <2>3, <3>2, <3>3, Zenon DEF StagingStopped
  <2>4. CASE FlipSkipped(w)
    BY <2>1, <2>4 DEF FlipSkipped, AfterDrain, Goto
  <2> QED BY <2>1, <2>2, <2>3, <2>4
<1>11. CASE LeaseExpires \/ MetaExpires \/ UNCHANGED vars
  BY <1>11 DEF LeaseExpires, MetaExpires, vars, local, outbox, ghost
<1> QED BY <1>10c, <1>1, <1>2, <1>3, <1>4, <1>5, <1>6, <1>7, <1>8, <1>9, <1>10, <1>11
  DEF Next, Step, Fault, RequestStep, ResolveStep, DrainStep

(***************************************************************************)
(* What a proof lists was committed, and only that is reported.            *)
(***************************************************************************)
Landing == ProofLanded /\ ReportedWasCommitted

LEMMA LandingStep ==
  TypeOK /\ TypeOK' /\ HasSnap /\ Control /\ Landing /\ [Next]_vars => Landing'
<1> SUFFICES ASSUME TypeOK, TypeOK', HasSnap, Control, Landing, [Next]_vars PROVE Landing'
  OBVIOUS
<1>0. /\ pc \in [Proc -> PC] /\ items \in [Proc -> SUBSET Token] /\ attempts \in Nat
      /\ target \in [Proc -> Token \cup {NoTarget}] /\ landed \subseteq Token
      /\ snap \in [Proc -> Meta \cup {NoMeta}] /\ meta \in Meta \cup {NoMeta}
      /\ rows \in [Facts -> Row] /\ last \in Nat
  BY DEF TypeOK
<1> USE <1>0 DEF Landing, ProofLanded, ReportedWasCommitted, Working, Staging, TokenOf
<1>1. ASSUME NEW w \in Proc, LoadRequest(w) PROVE Landing'
  BY <1>1, LoadRequestEffect DEF Control, NoItemsYet
<1>2. ASSUME NEW w \in Proc, PruneProof(w) PROVE Landing'
  <2>1. snap[w] \in Meta
    BY <1>2 DEF PruneProof, HasSnap
  <2>2. Pruned(snap[w]).tokens \subseteq snap[w].tokens
    BY <2>1, MetaFields
  <2>3. /\ pc' = [pc EXCEPT ![w] = "stage"] /\ pc[w] = "prune" /\ snap[w] # NoMeta
        /\ snap' = [snap EXCEPT ![w] = Pruned(snap[w])]
        /\ UNCHANGED <<meta, rows, items, target, landed>>
    BY <1>2, <2>1, NoMetaAssumption DEF PruneProof, Goto, store, outbox, ghost
  <2>4. ReportedWasCommitted'
    BY <2>3
  <2>5. ProofLanded'
    BY <2>2, <2>3
  <2> QED BY <2>4, <2>5
<1>3. ASSUME NEW w \in Proc, StageRequest(w) PROVE Landing'
  <2>1. UNCHANGED <<meta, target, landed>> /\ pc[w] = "stage"
    BY <1>3, StageRequestEffect
  <2>2. CASE pc' = [pc EXCEPT ![w] = "exit"] /\ UNCHANGED <<rows, snap, items>>
    BY <2>1, <2>2
  <2>3. ASSUME NEW mine \in SUBSET Token, NEW m \in Meta, RequestStaged(w, mine, m)
        PROVE  Landing'
    <3>1. ReportedWasCommitted'
      BY <2>1, <2>3 DEF RequestStaged, StagedTo
    <3>2. snap[w] # NoMeta
      BY <1>3, StageRequestEffect, NoMetaAssumption
    <3>3. ProofLanded'
      BY <2>1, <2>3, <3>2 DEF RequestStaged
    <3> QED BY <3>1, <3>3
  <2> QED BY <1>3, StageRequestEffect, <2>2, <2>3, Zenon
<1>4. ASSUME NEW w \in Proc, SaveRequest(w) PROVE Landing'
  BY <1>4 DEF SaveRequest, Goto, outbox
<1>5. ASSUME NEW w \in Proc, CommitRequest(w) \/ AbortRequest(w) PROVE Landing'
  <2>1. ReportedWasCommitted'
    BY <1>5, FlipEffect DEF CommitRequest, AbortRequest, FlippedTo, ReleasedTo, ghost
  <2>2. ProofLanded'
    BY <1>5 DEF CommitRequest, AbortRequest, Goto, store, ghost
  <2> QED BY <2>1, <2>2
<1>6. ASSUME NEW w \in Proc, LoadSession(w) PROVE Landing'
  BY <1>6 DEF LoadSession, Load, Goto, store, outbox, ghost
<1>7. ASSUME NEW w \in Proc, KeepAlive(w) PROVE Landing'
  BY <1>7 DEF KeepAlive, FencedSave, Raise, Goto, outbox, ghost
<1>8. ASSUME NEW w \in Proc, Reread(w) PROVE Landing'
  BY <1>8 DEF Reread, NextRow, RowAfter, Goto, store, outbox, ghost
<1>9. ASSUME NEW w \in Proc, FlipRow(w) \/ Discard(w) PROVE Landing'
  <2>1. ReportedWasCommitted'
    <3>1. CASE FlipRow(w)
      <4>1. target[w] \in landed /\ UNCHANGED landed
        BY <3>1 DEF FlipRow, ghost
      <4>2. FlippedTo(rows', {target[w]})
        BY <3>1, FlipEffect
      <4> QED BY <4>1, <4>2 DEF FlippedTo
    <3>2. CASE Discard(w)
      BY <3>2, FlipEffect DEF Discard, ReleasedTo, ghost
    <3> QED BY <1>9, <3>1, <3>2
  <2>2. ProofLanded'
    BY <1>9 DEF FlipRow, Discard, NextRow, RowAfter, Goto, store, ghost
  <2> QED BY <2>1, <2>2
<1>10. ASSUME NEW w \in Proc, CheckCleanup(w) \/ PurgeMeta(w) PROVE Landing'
  BY <1>10 DEF CheckCleanup, PurgeMeta, NextRow, RowAfter, Raise, Goto, store, outbox, ghost
<1>11. ASSUME NEW w \in Proc, LoadHeld(w) \/ KeepHeld(w) \/ ReadDeferred(w) \/ Reload(w)
       PROVE Landing'
  BY <1>11
     DEF LoadHeld, KeepHeld, ReadDeferred, Reload, FencedSave, Raise, AfterDrain, Load, Goto,
         store, outbox, ghost, Control, NoItemsYet
<1>12. ASSUME NEW w \in Proc, StageDeferred(w) PROVE Landing'
  <2>1. UNCHANGED <<meta, target, landed>> /\ pc[w] = "stageOne" /\ snap[w] # NoMeta
    BY <1>12, StageDeferredEffect, NoMetaAssumption
  <2>2. CASE (AfterDrain(w) \/ Goto(w, "write")) /\ UNCHANGED <<rows, snap, items>>
    BY <2>1, <2>2 DEF AfterDrain, Goto
  <2>3. ASSUME NEW k \in Facts, NEW mine \in SUBSET Token, NEW m \in Meta,
               DeferredTaken(w, k, mine, m), DeferredGivenUp(k, mine) \/ DeferredStaged(k, mine)
        PROVE  Landing'
    <3>1. ReportedWasCommitted'
      BY <2>1, <2>3 DEF DeferredGivenUp, DeferredStaged, StagedTo
    <3>2. ProofLanded'
      BY <2>1, <2>3 DEF DeferredTaken
    <3> QED BY <3>1, <3>2
  <2> QED BY <1>12, StageDeferredEffect, <2>2, <2>3, Zenon
<1>13. ASSUME NEW w \in Proc, AllDeferredStaged(w) \/ WriteDrained(w) PROVE Landing'
  BY <1>13 DEF AllDeferredStaged, WriteDrained, FencedSave, Raise, Goto, store, outbox, ghost
<1>14. ASSUME NEW w \in Proc, FlipDrained(w) PROVE Landing'
  <2>1. ReportedWasCommitted'
    BY <1>14, FlipEffect DEF FlipDrained, FlippedTo, ghost
  <2>2. ProofLanded'
    BY <1>14 DEF FlipDrained, AfterDrain, Goto, store, ghost
  <2> QED BY <2>1, <2>2
<1>15. ASSUME NEW w \in Proc, StopStep(w) PROVE Landing'
  <2>1. UNCHANGED <<rows, landed, target>>
    BY <1>15
       DEF StopStep, ListRows, CountRemaining, DeleteMeta, MarkCleanup, SaveMark, outbox, ghost
  <2>2. ReportedWasCommitted'
    BY <2>1
  <2>3. CASE MarkCleanup(w)
    <3> DEFINE m == [meta EXCEPT !.cleanup = TRUE]
    <3>1. meta # NoMeta => m.tokens = meta.tokens
      BY MetaFields
    <3> HIDE DEF m
    <3>2. /\ pc[w] = "mark" /\ UNCHANGED <<meta, items>>
          /\ \/ pc' = [pc EXCEPT ![w] = "exit"] /\ snap' = snap
             \/ /\ meta # NoMeta /\ pc' = [pc EXCEPT ![w] = "saveMark"]
                /\ snap' = [snap EXCEPT ![w] = m]
      BY <2>3, Zenon DEF MarkCleanup, Goto, store, m
    <3>3. ProofLanded'
      BY <2>1, <3>1, <3>2
    <3> QED BY <2>2, <3>3
  <2>4. CASE ListRows(w) \/ CountRemaining(w)
    BY <2>1, <2>2, <2>4 DEF ListRows, CountRemaining, Goto, store
  <2>5. CASE DeleteMeta(w) \/ SaveMark(w)
    BY <2>1, <2>2, <2>5 DEF DeleteMeta, SaveMark, FencedSave, FencedDelete, Raise, Goto
  <2> QED BY <1>15, <2>3, <2>4, <2>5 DEF StopStep
<1>16. ASSUME NEW w \in Proc, Begin(w) PROVE Landing'
  BY <1>16
     DEF Begin, BeginRequest, PickStale, LockRow, BeginDrain, BeginStop, Enter, Goto, store,
         outbox, ghost
<1>17. ASSUME NEW w \in Proc, Exit(w) \/ Fail(w) \/ Crash(w) PROVE Landing'
  BY <1>17 DEF Exit, Fail, Crash, Raise, Forget, Goto, store, outbox, ghost
<1>17c. ASSUME NEW w \in Proc, Caught(w) PROVE Landing'
  BY <1>17c, CaughtEffect DEF RowSkipped, StagingStopped, FlipSkipped, StagedTo, AfterDrain, Goto
<1>18. CASE LeaseExpires \/ MetaExpires \/ UNCHANGED vars
  BY <1>18 DEF LeaseExpires, MetaExpires, vars, local, store, outbox, ghost
<1> QED BY <1>17c, <1>1, <1>2, <1>3, <1>4, <1>5, <1>6, <1>7, <1>8, <1>9, <1>10, <1>11, <1>12, <1>13,
           <1>14, <1>15, <1>16, <1>17, <1>18
  DEF Next, Step, Fault, RequestStep, ResolveStep, DrainStep

(***************************************************************************)
(* What one step can change.  Each lemma below follows one part of the     *)
(* state through every action; the invariants after them need only these.  *)
(***************************************************************************)

\* A row changes by being staged under a fresh token, numbered, or released
\* by a process that aborts or drops its attempt.
RowsFrom ==
  \A k \in Facts :
     \/ rows'[k] = rows[k]
     \/ /\ rows'[k].status = "staged" /\ rows[k].status \in {"none", "discarded"}
        /\ rows'[k].token = attempts + 1
     \/ rows'[k].status = "ready" /\ rows'[k].token = rows[k].token
     \/ /\ rows'[k].status = "none" \/ (rows'[k].status = "discarded" /\ rows'[k].token = rows[k].token)
        /\ rows[k].status = "staged" /\ UNCHANGED <<meta, landed, history, givenUp, lock>>
        /\ \E u \in Proc : \/ pc[u] = "abort" /\ TokenOf(rows, k) \in items[u]
                           \/ pc[u] = "drop" /\ TokenOf(rows, k) = target[u]

LEMMA RowsStep == TypeOK /\ HasSnap /\ [Next]_vars => RowsFrom
<1> SUFFICES ASSUME TypeOK, HasSnap, [Next]_vars PROVE RowsFrom
  OBVIOUS
<1> USE DEF RowsFrom
<1>1. ASSUME NEW w \in Proc, StageRequest(w) PROVE RowsFrom
  BY <1>1, StageRequestEffect DEF RequestStaged, StagedTo
<1>2. ASSUME NEW w \in Proc, StageDeferred(w) PROVE RowsFrom
  BY <1>2, StageDeferredEffect DEF DeferredGivenUp, DeferredStaged, StagedTo
<1>3. ASSUME NEW w \in Proc, CommitRequest(w) \/ FlipRow(w) \/ FlipDrained(w) PROVE RowsFrom
  BY <1>3, FlipEffect DEF FlippedTo
<1>4. ASSUME NEW w \in Proc, AbortRequest(w) PROVE RowsFrom
  <2>1. ReleasedTo(rows', items[w]) /\ pc[w] = "abort" /\ UNCHANGED <<store, ghost>>
    BY <1>4, FlipEffect DEF AbortRequest
  <2> QED BY <2>1 DEF ReleasedTo, store, ghost
<1>5. ASSUME NEW w \in Proc, Discard(w) PROVE RowsFrom
  <2>1. ReleasedTo(rows', {target[w]}) /\ pc[w] = "drop" /\ UNCHANGED <<store, ghost>>
    BY <1>5, FlipEffect DEF Discard
  <2> QED BY <2>1 DEF ReleasedTo, store, ghost
<1>6. ASSUME NEW w \in Proc,
             \/ LoadRequest(w) \/ PruneProof(w) \/ SaveRequest(w)
             \/ LoadSession(w) \/ KeepAlive(w) \/ Reread(w) \/ CheckCleanup(w) \/ PurgeMeta(w)
      PROVE RowsFrom
  BY <1>6 DEF LoadRequest, PruneProof, SaveRequest, LoadSession, KeepAlive, Reread, CheckCleanup,
              PurgeMeta, outbox
<1>7. ASSUME NEW w \in Proc,
             \/ LoadHeld(w) \/ KeepHeld(w) \/ ReadDeferred(w) \/ Reload(w)
             \/ AllDeferredStaged(w) \/ WriteDrained(w)
      PROVE RowsFrom
  BY <1>7 DEF LoadHeld, KeepHeld, ReadDeferred, Reload, AllDeferredStaged, WriteDrained, outbox
<1>8. ASSUME NEW w \in Proc, StopStep(w) \/ Begin(w) \/ Exit(w) \/ Fail(w) \/ Crash(w)
      PROVE RowsFrom
  BY <1>8
     DEF StopStep, ListRows, CountRemaining, DeleteMeta, MarkCleanup, SaveMark, Begin,
         BeginRequest, PickStale, LockRow, BeginDrain, BeginStop, Enter, Exit, Fail, Crash,
         outbox
<1>9. CASE LeaseExpires \/ MetaExpires \/ UNCHANGED vars
  BY <1>9 DEF LeaseExpires, MetaExpires, vars, outbox
<1>10. ASSUME NEW w \in Proc, Caught(w) PROVE RowsFrom
  BY <1>10, CaughtEffect DEF RowSkipped, StagingStopped, FlipSkipped, StagedTo
<1> QED BY <1>1, <1>2, <1>3, <1>4, <1>5, <1>6, <1>7, <1>8, <1>9, <1>10
  DEF Next, Step, Fault, RequestStep, ResolveStep, DrainStep

\* The lock is taken only from rest, and released before it is taken again.
LockFrom ==
  \A w \in Proc : lock' = w =>
     \/ lock = w
     \/ /\ lock = Nobody /\ pc[w] \in {"idle", "lock"}
        /\ pc'[w] \in {"load", "held", "deferred", "session"}

\* Attempts and facts are committed by the save of a lock holder.
LandedFrom ==
  \/ UNCHANGED <<landed, history>> /\ givenUp \subseteq givenUp'
  \/ \E w \in Proc :
       /\ lock = w /\ meta' = snap[w] /\ landed' = landed \cup items[w]
       /\ \A k \in Facts : rows'[k] = rows[k]
       /\ UNCHANGED <<lock, items, target, queue, snap, givenUp>>
       /\ \A u \in Proc : u # w => pc'[u] = pc[u]
       /\ \/ /\ pc[w] = "save" /\ pc'[w] = "commit"
             /\ history' = Append(history, Elems(queue[w]))
          \/ pc[w] = "write" /\ pc'[w] = "flipAll" /\ UNCHANGED history

\* The record changes by the save or the delete of a lock holder, or expires.
MetaFrom ==
  \/ meta' = meta
  \/ /\ meta # NoMeta /\ ~HoldsEvidence(meta) /\ meta' = NoMeta
     /\ UNCHANGED <<rows, landed, history, givenUp>>
  \/ \E w \in Proc : lock = w /\ rows' = rows /\ givenUp' = givenUp /\
       \/ /\ pc[w] \in Working /\ meta' = snap[w] /\ snap[w] \in Meta
          /\ pc[w] \notin {"save", "write"} => UNCHANGED <<landed, history>>
          /\ pc[w] = "save" => pc'[w] = "commit" /\ landed' = landed \cup items[w]
                               /\ history' = Append(history, Elems(queue[w]))
          /\ pc[w] = "write" => landed' = landed \cup items[w] /\ UNCHANGED history
       \/ pc[w] \in {"purge", "delete"} /\ meta' = NoMeta /\ UNCHANGED <<landed, history>>

LEMMA StoreStep == TypeOK /\ HasSnap /\ [Next]_vars => LockFrom /\ LandedFrom /\ MetaFrom
<1> SUFFICES ASSUME TypeOK, HasSnap, [Next]_vars PROVE LockFrom /\ LandedFrom /\ MetaFrom
  OBVIOUS
<1> DEFINE Goal == LockFrom /\ LandedFrom /\ MetaFrom
<1>0. pc \in [Proc -> PC] /\ Nobody \notin Proc /\ Dead \notin Proc
  BY ConstantsAssumption DEF TypeOK
<1> USE <1>0 DEF LockFrom, LandedFrom, MetaFrom, Working, HasSnap
<1>1. ASSUME NEW w \in Proc, LoadRequest(w) \/ PruneProof(w) \/ StageRequest(w)
      PROVE Goal
  BY <1>1, StageRequestEffect DEF LoadRequest, PruneProof, store, ghost
<1>2. ASSUME NEW w \in Proc, SaveRequest(w) PROVE Goal
  BY <1>2 DEF SaveRequest, Goto, outbox
<1>3. ASSUME NEW w \in Proc, CommitRequest(w) \/ AbortRequest(w) PROVE Goal
  BY <1>3 DEF CommitRequest, AbortRequest, store, ghost
<1>4. ASSUME NEW w \in Proc, LoadSession(w) \/ KeepAlive(w) \/ Reread(w)
      PROVE Goal
  BY <1>4 DEF LoadSession, KeepAlive, Reread, FencedSave, store, outbox, ghost
<1>5. ASSUME NEW w \in Proc, FlipRow(w) \/ Discard(w) \/ CheckCleanup(w) \/ PurgeMeta(w)
      PROVE Goal
  BY <1>5 DEF FlipRow, Discard, CheckCleanup, PurgeMeta, store, outbox, ghost
<1>6. ASSUME NEW w \in Proc, LoadHeld(w) \/ KeepHeld(w) \/ ReadDeferred(w) \/ Reload(w)
      PROVE Goal
  BY <1>6 DEF LoadHeld, KeepHeld, ReadDeferred, Reload, FencedSave, store, outbox, ghost
<1>7. ASSUME NEW w \in Proc, StageDeferred(w) \/ AllDeferredStaged(w) \/ FlipDrained(w)
      PROVE Goal
  <2>1. CASE AllDeferredStaged(w) \/ FlipDrained(w)
    BY <2>1 DEF AllDeferredStaged, FlipDrained, store, ghost
  <2>2. CASE StageDeferred(w)
    BY <2>2, StageDeferredEffect DEF DeferredGivenUp, DeferredStaged
  <2> QED BY <1>7, <2>1, <2>2
<1>8. ASSUME NEW w \in Proc, WriteDrained(w) PROVE Goal
  BY <1>8 DEF WriteDrained, FencedSave, Goto, outbox
<1>9. ASSUME NEW w \in Proc, StopStep(w) PROVE Goal
  BY <1>9
     DEF StopStep, ListRows, CountRemaining, DeleteMeta, MarkCleanup, SaveMark, FencedSave,
         FencedDelete, store, outbox, ghost
<1>10. ASSUME NEW w \in Proc, Begin(w) PROVE Goal
  BY <1>10
     DEF Begin, BeginRequest, PickStale, LockRow, BeginDrain, BeginStop, Enter, Acquire, Goto,
         store, outbox, ghost
<1>11. ASSUME NEW w \in Proc, Exit(w) \/ Fail(w) \/ Crash(w) PROVE Goal
  BY <1>11 DEF Exit, Fail, Crash, store, outbox, ghost
<1>11c. ASSUME NEW w \in Proc, Caught(w) PROVE Goal
  BY <1>11c, CaughtEffect DEF RowSkipped, StagingStopped, FlipSkipped, StagedTo, AfterDrain, Goto
<1>12. CASE LeaseExpires \/ MetaExpires \/ UNCHANGED vars
  BY <1>12 DEF LeaseExpires, MetaExpires, vars, store, outbox, ghost
<1> QED BY <1>11c, <1>1, <1>2, <1>3, <1>4, <1>5, <1>6, <1>7, <1>8, <1>9, <1>10, <1>11, <1>12
  DEF Next, Step, Fault, RequestStep, ResolveStep, DrainStep

\* A process's attempts in progress: those it had, or fresh ones.
ItemsFrom ==
  \A w \in Proc : Staging(w)' =>
     \/ Staging(w) /\ items'[w] = items[w]
     \/ items'[w] = {}
     \/ /\ \A u \in Proc : u # w => items'[u] = items[u] /\ pc'[u] = pc[u]
        /\ \A t \in items'[w] : (Staging(w) /\ t \in items[w]) \/ t[2] = attempts + 1
        /\ UNCHANGED landed

\* How a process comes to abort, to refresh the lock and to drop a row.
ResolveFrom ==
  \A w \in Proc :
     /\ pc'[w] = "abort" => pc[w] = "abort" \/ (lock # w /\ UNCHANGED lock)
     /\ pc'[w] = "prove" =>
          /\ target'[w] = target[w]
          /\ \/ pc[w] = "prove"
             \/ /\ pc[w] = "reread" /\ snap[w] # NoMeta /\ target[w] \notin snap[w].tokens
                /\ IsStaged(rows, target[w]) /\ UNCHANGED <<landed, lock>>
     /\ pc'[w] = "drop" =>
          /\ target'[w] = target[w]
          /\ \/ pc[w] = "drop"
             \/ pc[w] = "prove" /\ lock = w /\ UNCHANGED <<landed, lock>>

\* How a process comes to delete the record.
DeleteFrom ==
  \A w \in Proc :
     /\ pc'[w] = "purge" =>
          \/ pc[w] = "purge"
          \/ /\ pc[w] = "clean" /\ snap[w] # NoMeta /\ snap[w].unstaged = << >>
             /\ StagedTokens(rows) = {} /\ UNCHANGED <<rows, landed, history, givenUp, lock>>
     /\ pc'[w] = "delete" =>
          \/ pc[w] = "delete"
          \/ /\ pc[w] = "remaining" /\ ~unresolved[w] /\ (meta = NoMeta \/ meta.unstaged = << >>)
             /\ UNCHANGED <<rows, landed, history, givenUp, lock>>

\* How Stop works through its list of staged rows.
StopFrom ==
  \A w \in Proc : StopResolving(w)' =>
     \/ /\ pc[w] = "list" /\ rows' = rows
        /\ \A k \in Facts : rows[k].status = "staged" => TokenOf(rows, k) \in items'[w]
     \/ /\ StopResolving(w)
        /\ \A k \in Facts :
             (Covers(w, TokenOf(rows, k)) /\ rows'[k].status = "staged" /\ rows'[k] = rows[k])
                => Covers(w, TokenOf(rows, k))'

LEMMA ItemsStep == TypeOK /\ HasSnap /\ Control /\ [Next]_vars => ItemsFrom /\ ResolveFrom
<1> SUFFICES ASSUME TypeOK, HasSnap, Control, [Next]_vars PROVE ItemsFrom /\ ResolveFrom
  OBVIOUS
<1> DEFINE Goal == ItemsFrom /\ ResolveFrom
<1>0. /\ pc \in [Proc -> PC] /\ items \in [Proc -> SUBSET Token]
      /\ target \in [Proc -> Token \cup {NoTarget}]
  BY DEF TypeOK
<1> USE <1>0 DEF ItemsFrom, ResolveFrom, Staging
<1>1. ASSUME NEW w \in Proc, LoadRequest(w) \/ PruneProof(w) PROVE Goal
  <2>1. CASE LoadRequest(w)
    BY <2>1, LoadRequestEffect DEF Control, NoItemsYet
  <2>2. CASE PruneProof(w)
    BY <2>2 DEF PruneProof, Goto
  <2> QED BY <1>1, <2>1, <2>2
<1>2. ASSUME NEW w \in Proc, StageRequest(w) PROVE Goal
  BY <1>2, StageRequestEffect DEF RequestStaged
<1>3. ASSUME NEW w \in Proc, SaveRequest(w) \/ CommitRequest(w) \/ AbortRequest(w) PROVE Goal
  BY <1>3 DEF SaveRequest, CommitRequest, AbortRequest, Goto
<1>4. ASSUME NEW w \in Proc, LoadSession(w) \/ KeepAlive(w) PROVE Goal
  BY <1>4 DEF LoadSession, KeepAlive, FencedSave, Raise, Goto, ghost
<1>5. ASSUME NEW w \in Proc, Reread(w) PROVE Goal
  BY <1>5 DEF Reread, NextRow, RowAfter, Goto, store, ghost
<1>6. ASSUME NEW w \in Proc, FlipRow(w) \/ Discard(w) \/ CheckCleanup(w) \/ PurgeMeta(w)
      PROVE Goal
  BY <1>6 DEF FlipRow, Discard, CheckCleanup, PurgeMeta, NextRow, RowAfter, Raise, Goto
<1>7. ASSUME NEW w \in Proc, LoadHeld(w) \/ KeepHeld(w) \/ ReadDeferred(w) \/ Reload(w)
      PROVE Goal
  BY <1>7 DEF LoadHeld, KeepHeld, ReadDeferred, Reload, FencedSave, Raise, AfterDrain, Goto,
              Control, NoItemsYet
<1>8. ASSUME NEW w \in Proc, StageDeferred(w) PROVE Goal
  <2>1. CASE (AfterDrain(w) \/ Goto(w, "write")) /\ UNCHANGED items
    BY <1>8, <2>1, StageDeferredEffect DEF AfterDrain, Goto
  <2>2. ASSUME NEW k \in Facts, NEW mine \in SUBSET Token, NEW m \in Meta,
               DeferredTaken(w, k, mine, m), DeferredGivenUp(k, mine) \/ DeferredStaged(k, mine)
        PROVE  Goal
    <3>1. pc[w] = "stageOne" /\ UNCHANGED <<target, landed>>
      BY <1>8, StageDeferredEffect
    <3>2. \A t \in mine : t[2] = attempts + 1
      BY <2>2 DEF DeferredGivenUp, DeferredStaged
    <3> QED BY <2>2, <3>1, <3>2 DEF DeferredTaken
  <2> QED BY <1>8, StageDeferredEffect, <2>1, <2>2, Zenon
<1>9. ASSUME NEW w \in Proc, AllDeferredStaged(w) \/ WriteDrained(w) \/ FlipDrained(w)
      PROVE Goal
  BY <1>9 DEF AllDeferredStaged, WriteDrained, FlipDrained, FencedSave, Raise, AfterDrain, Goto
<1>10. ASSUME NEW w \in Proc, StopStep(w) PROVE Goal
  BY <1>10
     DEF StopStep, ListRows, CountRemaining, DeleteMeta, MarkCleanup, SaveMark, FencedSave,
         FencedDelete, Raise, Goto
<1>11. ASSUME NEW w \in Proc, Begin(w) PROVE Goal
  BY <1>11 DEF Begin, BeginRequest, PickStale, LockRow, BeginDrain, BeginStop, Enter, Goto
<1>12. ASSUME NEW w \in Proc, Exit(w) \/ Fail(w) \/ Crash(w) PROVE Goal
  BY <1>12 DEF Exit, Fail, Crash, Raise, Forget, Goto
<1>12c. ASSUME NEW w \in Proc, Caught(w) PROVE Goal
  BY <1>12c, CaughtEffect DEF RowSkipped, StagingStopped, FlipSkipped, StagedTo, AfterDrain, Goto
<1>13. CASE LeaseExpires \/ MetaExpires \/ UNCHANGED vars
  BY <1>13 DEF LeaseExpires, MetaExpires, vars, local
<1> QED BY <1>12c, <1>1, <1>2, <1>3, <1>4, <1>5, <1>6, <1>7, <1>8, <1>9, <1>10, <1>11, <1>12, <1>13
  DEF Next, Step, Fault, RequestStep, ResolveStep, DrainStep

\* A copy in use: unchanged, read from the record (with the facts of an
\* emergency request added), pruned, or extended by a staging call.
CopyFrom ==
  \A w \in Proc : (pc'[w] \in Working /\ snap'[w] # NoMeta) =>
     \/ /\ pc[w] \in Working /\ snap'[w] = snap[w]
        /\ pc'[w] = "save" => pc[w] = "save" /\ queue'[w] = queue[w]
     \/ /\ meta # NoMeta /\ snap'[w].tokens = meta.tokens
        /\ Elems(meta.unstaged) \subseteq Elems(snap'[w].unstaged)
        /\ pc'[w] = "save" => Elems(queue'[w]) \subseteq Elems(snap'[w].unstaged)
        /\ UNCHANGED <<rows, landed, history, givenUp>>
     \/ /\ pc[w] \in Working /\ snap[w] \in Meta /\ pc'[w] # "save"
        /\ snap'[w].tokens = {t \in snap[w].tokens : IsStaged(rows, t)}
        /\ snap'[w].unstaged = snap[w].unstaged /\ UNCHANGED <<rows, landed, history, givenUp>>
     \/ /\ pc[w] = "stage" /\ snap[w] \in Meta
        /\ \E mine \in SUBSET Token, m \in Meta : RequestStaged(w, mine, m)
        /\ UNCHANGED <<queue, landed, history, givenUp>>
     \/ /\ pc[w] = "stageOne" /\ snap[w] \in Meta /\ pc'[w] # "save" /\ UNCHANGED <<landed, history>>
        /\ \E k \in Facts, mine \in SUBSET Token, m \in Meta :
             /\ DeferredTaken(w, k, mine, m)
             /\ DeferredGivenUp(k, mine) \/ DeferredStaged(k, mine)

LEMMA CopyStep == TypeOK /\ HasSnap /\ [Next]_vars => CopyFrom
<1> SUFFICES ASSUME TypeOK, HasSnap, [Next]_vars PROVE CopyFrom
  OBVIOUS
<1>0. /\ pc \in [Proc -> PC] /\ snap \in [Proc -> Meta \cup {NoMeta}] /\ meta \in Meta \cup {NoMeta}
      /\ queue \in [Proc -> Seq(Facts)]
  BY DEF TypeOK
<1> USE <1>0 DEF CopyFrom, Working
<1>1. ASSUME NEW w \in Proc, LoadRequest(w) PROVE CopyFrom
  BY <1>1, LoadRequestEffect
<1>2. ASSUME NEW w \in Proc, PruneProof(w) PROVE CopyFrom
  <2>1. snap[w] \in Meta
    BY <1>2 DEF PruneProof, HasSnap
  <2>2. /\ Pruned(snap[w]).tokens = {t \in snap[w].tokens : IsStaged(rows, t)}
        /\ Pruned(snap[w]).unstaged = snap[w].unstaged
    BY <2>1, MetaFields
  <2>3. /\ pc' = [pc EXCEPT ![w] = "stage"] /\ pc[w] = "prune"
        /\ snap' = [snap EXCEPT ![w] = Pruned(snap[w])]
        /\ UNCHANGED <<queue, rows, landed, history, givenUp>>
    BY <1>2 DEF PruneProof, Goto, outbox, ghost
  <2> QED BY <2>1, <2>2, <2>3
<1>3. ASSUME NEW w \in Proc, StageRequest(w) PROVE CopyFrom
  <2>1. CASE pc' = [pc EXCEPT ![w] = "exit"] /\ UNCHANGED snap
    BY <1>3, <2>1, StageRequestEffect
  <2>2. ASSUME NEW mine \in SUBSET Token, NEW m \in Meta, RequestStaged(w, mine, m)
        PROVE  CopyFrom
    <3>1. \A u \in Proc : u # w => pc'[u] = pc[u] /\ snap'[u] = snap[u] /\ queue'[u] = queue[u]
      BY <1>3, <2>2, StageRequestEffect DEF RequestStaged
    <3>2. pc[w] = "stage" /\ snap[w] \in Meta /\ UNCHANGED <<queue, landed, history, givenUp>>
      BY <1>3, StageRequestEffect
    <3> QED BY <2>2, <3>1, <3>2
  <2> QED BY <1>3, StageRequestEffect, <2>1, <2>2, Zenon
<1>4. ASSUME NEW w \in Proc, SaveRequest(w) \/ CommitRequest(w) \/ AbortRequest(w) PROVE CopyFrom
  BY <1>4 DEF SaveRequest, CommitRequest, AbortRequest, Goto
<1>5. ASSUME NEW w \in Proc, LoadSession(w) \/ KeepAlive(w) \/ Reread(w) PROVE CopyFrom
  BY <1>5 DEF LoadSession, KeepAlive, Reread, NextRow, RowAfter, FencedSave, Raise, Load, Goto, outbox, ghost
<1>6. ASSUME NEW w \in Proc, FlipRow(w) \/ Discard(w) \/ CheckCleanup(w) \/ PurgeMeta(w)
      PROVE CopyFrom
  BY <1>6 DEF FlipRow, Discard, CheckCleanup, PurgeMeta, NextRow, RowAfter, Raise, Goto
<1>7. ASSUME NEW w \in Proc, LoadHeld(w) \/ KeepHeld(w) \/ ReadDeferred(w) \/ Reload(w)
      PROVE CopyFrom
  BY <1>7 DEF LoadHeld, KeepHeld, ReadDeferred, Reload, FencedSave, Raise, AfterDrain, Load, Goto,
              outbox, ghost
<1>8. ASSUME NEW w \in Proc, StageDeferred(w) PROVE CopyFrom
  <2>1. CASE (AfterDrain(w) \/ Goto(w, "write")) /\ UNCHANGED <<snap, queue>>
    BY <1>8, <2>1, StageDeferredEffect DEF AfterDrain, Goto
  <2>2. ASSUME NEW k \in Facts, NEW mine \in SUBSET Token, NEW m \in Meta,
               DeferredTaken(w, k, mine, m), DeferredGivenUp(k, mine) \/ DeferredStaged(k, mine)
        PROVE  CopyFrom
    <3>1. /\ \A u \in Proc : u # w => pc'[u] = pc[u] /\ snap'[u] = snap[u] /\ queue'[u] = queue[u]
          /\ pc'[w] = "stageOne"
      BY <1>8, <2>2, StageDeferredEffect DEF DeferredTaken
    <3>2. pc[w] = "stageOne" /\ snap[w] \in Meta /\ UNCHANGED <<landed, history>>
      BY <1>8, StageDeferredEffect
    <3> QED BY <2>2, <3>1, <3>2
  <2> QED BY <1>8, StageDeferredEffect, <2>1, <2>2, Zenon
<1>9. ASSUME NEW w \in Proc, AllDeferredStaged(w) \/ WriteDrained(w) \/ FlipDrained(w)
      PROVE CopyFrom
  BY <1>9 DEF AllDeferredStaged, WriteDrained, FlipDrained, FencedSave, Raise, AfterDrain, Goto
<1>10. ASSUME NEW w \in Proc, StopStep(w) PROVE CopyFrom
  <2>1. CASE MarkCleanup(w)
    <3> DEFINE m == [meta EXCEPT !.cleanup = TRUE]
    <3>1. meta # NoMeta => m.tokens = meta.tokens /\ m.unstaged = meta.unstaged
      BY MetaFields
    <3> HIDE DEF m
    <3>2. /\ pc[w] = "mark" /\ UNCHANGED <<queue, rows, landed, history, givenUp>>
          /\ \/ pc' = [pc EXCEPT ![w] = "exit"] /\ snap' = snap
             \/ /\ meta # NoMeta /\ pc' = [pc EXCEPT ![w] = "saveMark"]
                /\ snap' = [snap EXCEPT ![w] = m]
      BY <2>1, Zenon DEF MarkCleanup, Goto, outbox, ghost, m
    <3> QED BY <3>1, <3>2
  <2>2. CASE ListRows(w) \/ CountRemaining(w) \/ DeleteMeta(w) \/ SaveMark(w)
    BY <2>2 DEF ListRows, CountRemaining, DeleteMeta, SaveMark, FencedSave, FencedDelete, Raise, Goto
  <2> QED BY <1>10, <2>1, <2>2 DEF StopStep
<1>11. ASSUME NEW w \in Proc, Begin(w) PROVE CopyFrom
  BY <1>11 DEF Begin, BeginRequest, PickStale, LockRow, BeginDrain, BeginStop, Enter, Goto
<1>12. ASSUME NEW w \in Proc, Exit(w) \/ Fail(w) \/ Crash(w) PROVE CopyFrom
  BY <1>12 DEF Exit, Fail, Crash, Raise, Forget, Goto
<1>12c. ASSUME NEW w \in Proc, Caught(w) PROVE CopyFrom
  BY <1>12c, CaughtEffect DEF RowSkipped, StagingStopped, FlipSkipped, StagedTo, AfterDrain, Goto
<1>13. CASE LeaseExpires \/ MetaExpires \/ UNCHANGED vars
  BY <1>13 DEF LeaseExpires, MetaExpires, vars, local
<1> QED BY <1>12c, <1>1, <1>2, <1>3, <1>4, <1>5, <1>6, <1>7, <1>8, <1>9, <1>10, <1>11, <1>12, <1>13
  DEF Next, Step, Fault, RequestStep, ResolveStep, DrainStep

LEMMA DeleteStep == TypeOK /\ [Next]_vars => DeleteFrom
<1> SUFFICES ASSUME TypeOK, [Next]_vars PROVE DeleteFrom
  OBVIOUS
<1>0. pc \in [Proc -> PC]
  BY DEF TypeOK
<1> USE <1>0 DEF DeleteFrom
<1>1. ASSUME NEW w \in Proc, RequestStep(w) PROVE DeleteFrom
  BY <1>1
     DEF RequestStep, LoadRequest, PruneProof, StageRequest, SaveRequest, CommitRequest,
         AbortRequest, Goto
<1>2. ASSUME NEW w \in Proc, LoadSession(w) \/ KeepAlive(w) \/ Reread(w) \/ FlipRow(w) \/ Discard(w)
      PROVE DeleteFrom
  BY <1>2 DEF LoadSession, KeepAlive, Reread, FlipRow, Discard, FencedSave, Raise, NextRow, RowAfter, Goto
<1>3. ASSUME NEW w \in Proc, CheckCleanup(w) \/ PurgeMeta(w) PROVE DeleteFrom
  BY <1>3 DEF CheckCleanup, PurgeMeta, Raise, NextRow, RowAfter, Goto, store, outbox, ghost
<1>4. ASSUME NEW w \in Proc, DrainStep(w) PROVE DeleteFrom
  BY <1>4
     DEF DrainStep, LoadHeld, KeepHeld, ReadDeferred, StageDeferred, StopStaging,
         AllDeferredStaged, WriteDrained, FlipDrained, Reload, TakeHead, FencedSave, Raise, AfterDrain, Goto
<1>5. ASSUME NEW w \in Proc, StopStep(w) PROVE DeleteFrom
  BY <1>5
     DEF StopStep, ListRows, CountRemaining, DeleteMeta, MarkCleanup, SaveMark, FencedSave,
         FencedDelete, Raise, Goto, store, outbox, ghost
<1>6. ASSUME NEW w \in Proc, Begin(w) PROVE DeleteFrom
  BY <1>6 DEF Begin, BeginRequest, PickStale, LockRow, BeginDrain, BeginStop, Enter, Goto
<1>7. ASSUME NEW w \in Proc, Exit(w) \/ Fail(w) \/ Crash(w) PROVE DeleteFrom
  BY <1>7 DEF Exit, Fail, Crash, Raise, Forget, Goto
<1>7c. ASSUME NEW w \in Proc, Caught(w) PROVE DeleteFrom
  BY <1>7c
     DEF Caught, SessionUnreadable, StageDeferredFails, FlipDrainedFails, StopStaging, RowAfter,
         AfterDrain, Goto
<1>8. CASE LeaseExpires \/ MetaExpires \/ UNCHANGED vars
  BY <1>8 DEF LeaseExpires, MetaExpires, vars, local
<1> QED BY <1>7c, <1>1, <1>2, <1>3, <1>4, <1>5, <1>6, <1>7, <1>8 DEF Next, Step, Fault, ResolveStep

LEMMA StopFromStep == TypeOK /\ HasSnap /\ Control /\ [Next]_vars => StopFrom
<1> SUFFICES ASSUME TypeOK, HasSnap, Control, [Next]_vars PROVE StopFrom
  OBVIOUS
<1>0. /\ pc \in [Proc -> PC] /\ job \in [Proc -> Jobs] /\ items \in [Proc -> SUBSET Token]
      /\ target \in [Proc -> Token \cup {NoTarget}] /\ unresolved \in [Proc -> BOOLEAN]
      /\ rows \in [Facts -> Row] /\ last \in Nat
  BY DEF TypeOK
<1> USE <1>0 DEF StopFrom, StopResolving, Covers
<1>1. ASSUME NEW w \in Proc, RequestStep(w) PROVE StopFrom
  <2>1. /\ UNCHANGED <<job, target, unresolved>>
        /\ \A u \in Proc : u # w => pc'[u] = pc[u] /\ items'[u] = items[u]
        /\ pc'[w] \in {"exit", "prune", "stage", "save", "commit", "abort"}
    BY <1>1 DEF RequestStep, LoadRequest, PruneProof, StageRequest, SaveRequest, CommitRequest,
                AbortRequest, Goto
  <2> QED BY <2>1 DEF TokenOf
<1>2. ASSUME NEW w \in Proc, LoadSession(w) PROVE StopFrom
  BY <1>2 DEF LoadSession, Goto, TokenOf
<1>3. ASSUME NEW w \in Proc, KeepAlive(w) PROVE StopFrom
  BY <1>3 DEF KeepAlive, FencedSave, Raise, Goto, TokenOf
<1>4. ASSUME NEW w \in Proc, Reread(w) PROVE StopFrom
  BY <1>4 DEF Reread, NextRow, RowAfter, IsStaged, Goto, TokenOf
<1>5. ASSUME NEW w \in Proc, FlipRow(w) PROVE StopFrom
  <2>1. /\ UNCHANGED <<job, items, target>> /\ pc[w] = "flip"
        /\ \A u \in Proc : u # w => pc'[u] = pc[u] /\ unresolved'[u] = unresolved[u]
        /\ \/ pc'[w] = "clean" /\ last' > last /\ unresolved'[w] = unresolved[w]
           \/ unresolved'[w] = TRUE
    BY <1>5 DEF FlipRow, NextRow, RowAfter, Goto
  <2>2. last' > last => \E k \in Facts : TokenOf(rows, k) = target[w] /\ rows'[k].status = "ready"
    <3>1. /\ rows' = MarkReady(rows, {target[w]}, last)
          /\ last' = LastAfter(rows, {target[w]}, last)
      BY <1>5 DEF FlipRow
    <3>2. last' > last => last' # last
      OBVIOUS
    <3>3. last' # last => \E k \in Facts : /\ TokenOf(rows, k) \in {target[w]}
                                          /\ rows'[k].status = "ready"
      BY <3>1, FlipFacts, Zenon
    <3> QED BY <3>2, <3>3
  <2> QED BY <2>1, <2>2 DEF TokenOf
<1>6. ASSUME NEW w \in Proc, Discard(w) PROVE StopFrom
  <2>1. /\ UNCHANGED <<job, items, target, unresolved>> /\ pc[w] = "drop" /\ pc'[w] = "clean"
        /\ \A u \in Proc : u # w => pc'[u] = pc[u]
    BY <1>6 DEF Discard, Goto
  <2>2. \A k \in Facts : rows[k].status = "staged" /\ TokenOf(rows, k) = target[w]
                           => rows'[k].status # "staged"
    BY <1>6, FlipEffect DEF ReleasedTo
  <2> QED BY <2>1, <2>2 DEF TokenOf
<1>7. ASSUME NEW w \in Proc, CheckCleanup(w) \/ PurgeMeta(w) PROVE StopFrom
  BY <1>7 DEF CheckCleanup, PurgeMeta, NextRow, RowAfter, Raise, Goto, TokenOf
<1>8. ASSUME NEW w \in Proc, DrainStep(w) PROVE StopFrom
  <2>1. CASE Reload(w)
    <3>1. pc[w] = "reload"
      BY <2>1 DEF Reload
    <3> QED BY <2>1, <3>1 DEF Reload, Goto, TokenOf, Control, StopOnly
  <2>2. CASE StageDeferred(w)
    BY <2>2 DEF StageDeferred, StopStaging, TakeHead, AfterDrain, Goto, TokenOf
  <2>3. CASE LoadHeld(w) \/ KeepHeld(w) \/ ReadDeferred(w) \/ AllDeferredStaged(w)
    BY <2>3 DEF LoadHeld, KeepHeld, ReadDeferred, AllDeferredStaged, FencedSave, Raise, AfterDrain,
                Goto, TokenOf
  <2>4. CASE WriteDrained(w) \/ FlipDrained(w)
    BY <2>4 DEF WriteDrained, FlipDrained, FencedSave, Raise, AfterDrain, Goto, TokenOf
  <2> QED BY <1>8, <2>1, <2>2, <2>3, <2>4 DEF DrainStep
<1>9. ASSUME NEW w \in Proc, ListRows(w) PROVE StopFrom
  BY <1>9 DEF ListRows, StagedTokens, Goto, TokenOf, outbox
<1>10. ASSUME NEW w \in Proc, CountRemaining(w) \/ DeleteMeta(w) \/ MarkCleanup(w) \/ SaveMark(w)
       PROVE StopFrom
  BY <1>10 DEF CountRemaining, DeleteMeta, MarkCleanup, SaveMark, FencedSave, FencedDelete, Raise,
               Goto, TokenOf
<1>11. ASSUME NEW w \in Proc, Begin(w) PROVE StopFrom
  BY <1>11 DEF Begin, BeginRequest, PickStale, LockRow, BeginDrain, BeginStop, Enter, Goto, TokenOf,
               Control, StopOnly
<1>12. ASSUME NEW w \in Proc, Exit(w) \/ Fail(w) \/ Crash(w) PROVE StopFrom
  BY <1>12 DEF Exit, Fail, Crash, Raise, Forget, Goto, TokenOf
<1>12c. ASSUME NEW w \in Proc, Caught(w) PROVE StopFrom
  <2>1. /\ UNCHANGED <<lock, meta, last, job, queue, snap, target, history, landed, givenUp>>
        /\ RowSkipped(w) \/ StagingStopped(w) \/ FlipSkipped(w)
    BY <1>12c, CaughtEffect
  <2>2. CASE RowSkipped(w)
    BY <2>1, <2>2 DEF RowSkipped, TokenOf
  <2>3. CASE StagingStopped(w)
    BY <2>1, <2>3 DEF StagingStopped, AfterDrain, Goto, StagedTo, TokenOf
  <2>4. CASE FlipSkipped(w)
    BY <2>1, <2>4 DEF FlipSkipped, AfterDrain, Goto, TokenOf
  <2> QED BY <2>1, <2>2, <2>3, <2>4
<1>13. CASE LeaseExpires \/ MetaExpires \/ UNCHANGED vars
  BY <1>13 DEF LeaseExpires, MetaExpires, vars, local, TokenOf
<1> QED BY <1>12c, <1>1, <1>2, <1>3, <1>4, <1>5, <1>6, <1>7, <1>8, <1>9, <1>10, <1>11, <1>12, <1>13
  DEF Next, Step, Fault, ResolveStep, StopStep

(***************************************************************************)
(* An attempt about to be released was not and will not be committed.      *)
(***************************************************************************)
Frames ==
  /\ RowsFrom /\ LockFrom /\ LandedFrom /\ MetaFrom /\ ItemsFrom /\ ResolveFrom /\ CopyFrom
  /\ DeleteFrom /\ StopFrom

LEMMA FramesStep == TypeOK /\ HasSnap /\ Control /\ [Next]_vars => Frames
BY RowsStep, StoreStep, ItemsStep, CopyStep, DeleteStep, StopFromStep DEF Frames

LEMMA UnlandedStep ==
  ASSUME TypeOK, Frames, HasTarget, KnownTokens, ProofComplete, Unlanded
  PROVE  Unlanded'
<1>0. /\ items \in [Proc -> SUBSET Token] /\ attempts \in Nat /\ landed \subseteq Token
      /\ Nobody \notin Proc
  BY ConstantsAssumption DEF TypeOK
<1>1. \A w \in Proc : \A t \in items[w] \cup {target[w]} : t[2] # attempts + 1
  BY <1>0 DEF KnownTokens, Token, TypeOK, NoTarget
<1>2. \A t \in landed : t[2] # attempts + 1
  BY <1>0 DEF KnownTokens, Token
<1>3. \A w \in Proc : Staging(w)' => items'[w] \cap landed' = {}
  <2> SUFFICES ASSUME NEW w \in Proc, Staging(w)', NEW t \in items'[w], t \in landed'
               PROVE  FALSE
    OBVIOUS
  <2>1. CASE t \in landed
    BY <1>2, <2>1 DEF Frames, ItemsFrom, Unlanded
  <2>2. CASE t \notin landed
    <3>1. PICK v \in Proc : /\ lock = v /\ t \in items[v] /\ items' = items /\ Staging(v)
                            /\ ~Staging(v)' /\ \A u \in Proc : u # v => pc'[u] = pc[u]
      BY <2>2 DEF Frames, LandedFrom, Staging
    <3>2. w # v /\ Staging(w)
      BY <3>1 DEF Staging
    <3> QED BY <3>1, <3>2 DEF Unlanded
  <2> QED BY <2>1, <2>2
<1>4. \A u, w \in Proc : u # w /\ Staging(u)' /\ Staging(w)' => items'[u] \cap items'[w] = {}
  <2> SUFFICES ASSUME NEW u \in Proc, NEW w \in Proc, u # w, Staging(u)', Staging(w)',
                      NEW t \in items'[u], t \in items'[w]
               PROVE  FALSE
    OBVIOUS
  <2>1. CASE Staging(u) /\ t \in items[u] /\ Staging(w) /\ t \in items[w]
    BY <2>1 DEF Unlanded
  <2>2. (Staging(u) /\ t \in items[u]) \/ (t[2] = attempts + 1 /\ items'[w] = items[w])
    BY DEF Frames, ItemsFrom
  <2>3. (Staging(w) /\ t \in items[w]) \/ (t[2] = attempts + 1 /\ items'[u] = items[u])
    BY DEF Frames, ItemsFrom
  <2> QED BY <1>1, <2>1, <2>2, <2>3
<1>5. \A w \in Proc : pc'[w] = "abort" => lock' # w
  BY <1>0 DEF Frames, LockFrom, ResolveFrom, Unlanded
<1>6. \A w \in Proc : pc'[w] = "prove" /\ lock' = w => target'[w] \notin landed'
  <2> SUFFICES ASSUME NEW w \in Proc, pc'[w] = "prove", lock' = w PROVE target'[w] \notin landed'
    OBVIOUS
  <2>1. lock = w /\ target'[w] = target[w]
    BY DEF Frames, LockFrom, ResolveFrom
  <2>2. CASE pc[w] = "prove"
    <3>1. target[w] \notin landed
      BY <2>1, <2>2 DEF Unlanded
    <3>2. landed' = landed
      BY <2>1, <2>2 DEF Frames, LandedFrom
    <3> QED BY <2>1, <3>1, <3>2
  <2>3. CASE /\ pc[w] = "reread" /\ snap[w] # NoMeta /\ target[w] \notin snap[w].tokens
             /\ IsStaged(rows, target[w]) /\ UNCHANGED <<landed, lock>>
    <3>1. target[w] \in Token
      BY <2>3 DEF HasTarget
    <3>2. target[w][1] \in Facts /\ target[w] = TokenOf(rows, target[w][1])
          /\ rows[target[w][1]].status = "staged"
      BY <2>3, <3>1 DEF Token, TokenOf, IsStaged
    <3>3. ~Owed(target[w][1])
      BY <2>1, <2>3, <3>2 DEF ProofComplete, Working
    <3> QED BY <2>1, <2>3, <3>2, <3>3 DEF Owed
  <2> QED BY <2>2, <2>3 DEF Frames, ResolveFrom
<1>7. ASSUME NEW w \in Proc, pc'[w] = "drop"
      PROVE  /\ target'[w] \notin landed'
             /\ \A u \in Proc : Staging(u)' /\ target'[w] \in items'[u] => lock' # u
  <2>1. target'[w] = target[w]
    BY <1>7 DEF Frames, ResolveFrom
  <2>2. target[w] \notin landed
    BY <1>7 DEF Frames, ResolveFrom, Unlanded
  <2>3. target[w] \notin landed'
    <3> SUFFICES ASSUME target[w] \in landed' PROVE FALSE
      OBVIOUS
    <3>1. PICK v \in Proc : /\ lock = v /\ target[w] \in items[v] /\ pc[v] \in {"save", "write"}
                            /\ landed' # landed
      BY <2>2 DEF Frames, LandedFrom
    <3>2. pc[w] = "drop"
      BY <1>7, <3>1 DEF Frames, ResolveFrom
    <3> QED BY <3>1, <3>2 DEF Unlanded, Staging
  <2>4. ASSUME NEW u \in Proc, Staging(u)', target'[w] \in items'[u] PROVE lock' # u
    <3>1. Staging(u) /\ target[w] \in items[u]
      BY <1>1, <2>1, <2>4 DEF Frames, ItemsFrom
    <3>2. lock # u
      BY <1>7, <3>1 DEF Frames, ResolveFrom, Unlanded, Staging
    <3>3. pc'[u] \notin {"load", "held", "deferred", "session"}
      BY <2>4 DEF Staging
    <3> QED BY <3>2, <3>3 DEF Frames, LockFrom
  <2> QED BY <2>1, <2>3, <2>4
<1> QED BY <1>3, <1>4, <1>5, <1>6, <1>7 DEF Unlanded

LEMMA OwnRowsStep ==
  ASSUME TypeOK, Frames, KnownTokens, Unlanded, OwnRowsStand
  PROVE  OwnRowsStand'
<1>1. \A w \in Proc : \A t \in items[w] \cup {target[w]} : t[2] # attempts + 1
  BY DEF KnownTokens, Token, TypeOK, NoTarget
<1>2. \A k \in Facts : rows[k].token # attempts + 1
  BY DEF KnownTokens, TypeOK, Row
<1> SUFFICES ASSUME NEW w \in Proc, lock' = w, Staging(w)',
                    NEW k \in Facts, TokenOf(rows, k)' \in items'[w], rows'[k].status = "discarded"
             PROVE  FALSE
  BY DEF OwnRowsStand
<1>3. lock = w
  BY DEF Frames, LockFrom, Staging
<1>4. rows'[k].token = rows[k].token
  BY DEF Frames, RowsFrom
<1>5. TokenOf(rows, k)' = TokenOf(rows, k)
  BY <1>4 DEF TokenOf
<1>6. Staging(w) /\ TokenOf(rows, k) \in items[w]
  BY <1>2, <1>5 DEF Frames, ItemsFrom, TokenOf
<1>7. rows[k].status # "discarded"
  BY <1>3, <1>6 DEF OwnRowsStand
<1>8. PICK u \in Proc : \/ pc[u] = "abort" /\ TokenOf(rows, k) \in items[u]
                        \/ pc[u] = "drop" /\ TokenOf(rows, k) = target[u]
  BY <1>7 DEF Frames, RowsFrom
<1> QED BY <1>3, <1>6, <1>8 DEF Unlanded, Staging

LEMMA DiscardedStep ==
  ASSUME TypeOK, Frames, KnownTokens, Unlanded, OwnRowsStand, CommittedNotDiscarded
  PROVE  CommittedNotDiscarded'
<1> SUFFICES ASSUME NEW k \in Facts, rows'[k].status = "discarded", TokenOf(rows, k)' \in landed'
             PROVE  FALSE
  BY DEF CommittedNotDiscarded
<1>1. rows'[k].token = rows[k].token
  BY DEF Frames, RowsFrom
<1>2. TokenOf(rows, k)' = TokenOf(rows, k)
  BY <1>1 DEF TokenOf
<1>3. CASE TokenOf(rows, k) \in landed
  <2>1. rows[k].status # "discarded"
    BY <1>3 DEF CommittedNotDiscarded
  <2>2. PICK u \in Proc : \/ pc[u] = "abort" /\ TokenOf(rows, k) \in items[u]
                          \/ pc[u] = "drop" /\ TokenOf(rows, k) = target[u]
    BY <2>1 DEF Frames, RowsFrom
  <2> QED BY <1>3, <2>2 DEF Unlanded, Staging
<1>4. CASE TokenOf(rows, k) \notin landed
  <2>1. PICK v \in Proc : /\ lock = v /\ TokenOf(rows, k) \in items[v] /\ Staging(v)
                          /\ rows'[k] = rows[k]
    BY <1>2, <1>4 DEF Frames, LandedFrom, Staging
  <2> QED BY <2>1 DEF OwnRowsStand
<1> QED BY <1>3, <1>4

(***************************************************************************)
(* The record and the copies prove every owed row.                         *)
(***************************************************************************)
LEMMA OwedStep ==
  ASSUME TypeOK, Frames, KnownTokens, NEW k \in Facts, Owed(k)'
  PROVE  /\ rows'[k] = rows[k] /\ TokenOf(rows, k)' = TokenOf(rows, k)
         /\ \/ Owed(k)
            \/ \E v \in Proc :
                 /\ lock = v /\ meta' = snap[v] /\ TokenOf(rows, k) \in items[v]
                 /\ pc[v] \in {"save", "write"} /\ pc'[v] \in {"commit", "flipAll"}
<1>1. \A t \in landed : t[2] # attempts + 1
  BY DEF KnownTokens, Token, TypeOK
<1>2. \A v \in Proc : \A t \in items[v] : t[2] # attempts + 1
  BY DEF KnownTokens, Token, TypeOK
<1>3. \A t \in landed' : t \in landed \/
        \E v \in Proc : /\ lock = v /\ meta' = snap[v] /\ t \in items[v]
                        /\ pc[v] \in {"save", "write"} /\ pc'[v] \in {"commit", "flipAll"}
  BY DEF Frames, LandedFrom
<1>4. rows'[k].token # attempts + 1
  BY <1>1, <1>2, <1>3 DEF Owed, TokenOf
<1>5. rows'[k] = rows[k]
  BY <1>4 DEF Frames, RowsFrom, Owed
<1> QED BY <1>3, <1>5 DEF Owed, TokenOf

LEMMA ProofCompleteStep ==
  ASSUME TypeOK, HasSnap, Frames, KnownTokens, ProofLanded, ProofComplete, NothingOwed
  PROVE  ProofComplete'
<1>1. ASSUME NEW k \in Facts, Owed(k)'
      PROVE  meta' # NoMeta /\ TokenOf(rows, k)' \in meta'.tokens
  <2>1. TokenOf(rows, k)' = TokenOf(rows, k)
    BY <1>1, OwedStep
  <2>2. CASE \E v \in Proc : /\ lock = v /\ meta' = snap[v] /\ TokenOf(rows, k) \in items[v]
                             /\ pc[v] \in {"save", "write"}
    BY <2>1, <2>2, NoMetaAssumption DEF HasSnap, Working, ProofLanded
  <2>3. CASE Owed(k)
    <3>1. meta # NoMeta /\ TokenOf(rows, k) \in meta.tokens
      BY <2>3 DEF ProofComplete
    <3>2. ~(meta # NoMeta /\ ~HoldsEvidence(meta))
      BY <3>1 DEF HoldsEvidence
    <3>3. ASSUME NEW w \in Proc, lock = w PROVE pc[w] \notin {"purge", "delete"}
      BY <2>3, <3>3 DEF NothingOwed
    <3>4. ASSUME NEW w \in Proc, lock = w, pc[w] \in Working, snap[w] \in Meta
          PROVE  TokenOf(rows, k) \in snap[w].tokens
      BY <2>3, <3>4, NoMetaAssumption DEF ProofComplete
    <3> QED BY <2>1, <3>1, <3>2, <3>3, <3>4, NoMetaAssumption DEF Frames, MetaFrom
  <2> QED BY <1>1, <2>2, <2>3, OwedStep
<1>2. ASSUME NEW w \in Proc, lock' = w, pc'[w] \in Working, snap'[w] # NoMeta,
             NEW k \in Facts, Owed(k)'
      PROVE  TokenOf(rows, k)' \in snap'[w].tokens
  <2>1. lock = w
    BY <1>2 DEF Frames, LockFrom, Working
  <2>2. /\ TokenOf(rows, k)' = TokenOf(rows, k) /\ Owed(k)
        /\ rows'[k] = rows[k] /\ rows[k].status = "staged"
    BY <1>2, <2>1, OwedStep DEF Working, Owed
  <2>3. (pc[w] \in Working /\ snap[w] # NoMeta) => TokenOf(rows, k) \in snap[w].tokens
    BY <2>1, <2>2 DEF ProofComplete
  <2>4. meta # NoMeta /\ TokenOf(rows, k) \in meta.tokens
    BY <2>2 DEF ProofComplete
  <2>5. IsStaged(rows, TokenOf(rows, k))
    BY <2>2 DEF IsStaged, TokenOf
  <2>6. snap[w] \in Meta => snap[w] # NoMeta
    BY NoMetaAssumption
  <2>7. CASE \E mine \in SUBSET Token, m \in Meta : RequestStaged(w, mine, m) /\ pc[w] = "stage" /\ snap[w] \in Meta
    BY <2>2, <2>3, <2>6, <2>7 DEF RequestStaged, Working, TypeOK
  <2>8. CASE \E j \in Facts, mine \in SUBSET Token, m \in Meta :
               DeferredTaken(w, j, mine, m) /\ pc[w] = "stageOne" /\ snap[w] \in Meta
    BY <2>2, <2>3, <2>6, <2>8 DEF DeferredTaken, Working, TypeOK
  <2> QED BY <1>2, <2>2, <2>3, <2>4, <2>5, <2>6, <2>7, <2>8 DEF Frames, CopyFrom
<1> QED BY <1>1, <1>2 DEF ProofComplete

(***************************************************************************)
(* No committed fact is lost.                                              *)
(***************************************************************************)
LEMMA CommittedFrom ==
  ASSUME TypeOK, NEW w \in Proc, history' = Append(history, Elems(queue[w]))
  PROVE  Committed' = Committed \cup Elems(queue[w])
<1>1. history \in Seq(SUBSET Facts) /\ Elems(queue[w]) \in SUBSET Facts
  BY ElemsType DEF TypeOK
<1>2. UNION Elems(Append(history, Elems(queue[w]))) = (UNION Elems(history)) \cup Elems(queue[w])
  BY <1>1, ElemsFacts, Zenon
<1> QED BY <1>2, Zenon DEF Committed

\* A row that a proof of committed attempts lists is not released.
LEMMA ProvedRowStays ==
  ASSUME Frames, Unlanded, NEW k \in Facts, rows[k].status = "staged",
         \/ TokenOf(rows, k) \in landed
         \/ \E w \in Proc : lock = w /\ Staging(w) /\ TokenOf(rows, k) \in items[w]
  PROVE  rows'[k] = rows[k] \/ rows'[k].status = "ready"
<1> SUFFICES ASSUME rows'[k] # rows[k], rows'[k].status # "ready" PROVE FALSE
  OBVIOUS
<1>1. PICK u \in Proc : \/ pc[u] = "abort" /\ TokenOf(rows, k) \in items[u]
                        \/ pc[u] = "drop" /\ TokenOf(rows, k) = target[u]
  BY DEF Frames, RowsFrom
<1> QED BY <1>1 DEF Unlanded, Staging

LEMMA ReadyStays ==
  ASSUME Frames, NEW k \in Facts, rows[k].status = "ready" PROVE rows'[k].status = "ready"
BY DEF Frames, RowsFrom

LEMMA KeepsAllStep ==
  ASSUME TypeOK, TypeOK', Frames, ProofLanded, Unlanded, NothingLost, KeepsAll
  PROVE  KeepsAll'
<1>1. SUFFICES ASSUME NEW w \in Proc, lock' = w, pc'[w] \in Working, snap'[w] # NoMeta,
                      NEW k \in Facts, k \notin givenUp',
                      k \in Committed' \/ (pc'[w] = "save" /\ k \in Elems(queue'[w]))
               PROVE  Safe(k, snap[w])'
  <2>1. history' \in Seq(SUBSET Facts) /\ \A w \in Proc : queue'[w] \in Seq(Facts)
    BY DEF TypeOK
  <2>2. Committed' \subseteq Facts
    BY <2>1, UnionType, Zenon DEF Committed
  <2>3. \A w \in Proc : Elems(queue'[w]) \subseteq Facts
    BY <2>1, ElemsType
  <2> QED BY <2>2, <2>3 DEF KeepsAll
<1>2. lock = w
  BY <1>1 DEF Frames, LockFrom, Working
<1>3. UNCHANGED <<landed, history>> /\ givenUp \subseteq givenUp'
  BY <1>1, <1>2 DEF Frames, LandedFrom, Working
<1>4. Committed' = Committed /\ k \notin givenUp
  BY <1>1, <1>3 DEF Committed
<1>5. ASSUME Safe(k, snap[w]), pc[w] \in Working, snap[w] # NoMeta, snap'[w] = snap[w]
      PROVE  Safe(k, snap[w])'
  <2>1. CASE rows[k].status = "ready"
    BY <2>1, ReadyStays DEF Safe
  <2>2. CASE rows[k].status = "staged" /\ TokenOf(rows, k) \in snap[w].tokens
    <3>1. \/ TokenOf(rows, k) \in landed
          \/ Staging(w) /\ TokenOf(rows, k) \in items[w]
      BY <1>5, <2>2 DEF ProofLanded
    <3>2. rows'[k] = rows[k] \/ rows'[k].status = "ready"
      BY <1>2, <2>2, <3>1, ProvedRowStays
    <3> QED BY <1>5, <2>2, <3>2 DEF Safe, TokenOf
  <2>3. CASE k \in Elems(snap[w].unstaged)
    BY <1>5, <2>3 DEF Safe
  <2> QED BY <1>5, <2>1, <2>2, <2>3 DEF Safe
<1>6. k \in Committed => Safe(k, meta)
  BY <1>4 DEF NothingLost, Safe
<1>7. (k \in Committed /\ pc[w] \in Working /\ snap[w] # NoMeta) => Safe(k, snap[w])
  BY <1>2, <1>4 DEF KeepsAll
<1>8. CASE /\ pc[w] \in Working /\ snap'[w] = snap[w]
           /\ pc'[w] = "save" => pc[w] = "save" /\ queue'[w] = queue[w]
  <2>1. Safe(k, snap[w])
    BY <1>1, <1>2, <1>4, <1>8 DEF KeepsAll
  <2> QED BY <1>1, <1>5, <1>8, <2>1
<1>9. CASE /\ meta # NoMeta /\ snap'[w].tokens = meta.tokens
           /\ Elems(meta.unstaged) \subseteq Elems(snap'[w].unstaged)
           /\ pc'[w] = "save" => Elems(queue'[w]) \subseteq Elems(snap'[w].unstaged)
           /\ UNCHANGED <<rows, landed, history, givenUp>>
  BY <1>1, <1>4, <1>6, <1>9 DEF Safe, TokenOf
<1>10. CASE /\ pc[w] \in Working /\ snap[w] \in Meta /\ pc'[w] # "save"
            /\ snap'[w].tokens = {t \in snap[w].tokens : IsStaged(rows, t)}
            /\ snap'[w].unstaged = snap[w].unstaged /\ UNCHANGED <<rows, landed, history, givenUp>>
  BY <1>1, <1>4, <1>7, <1>10, NoMetaAssumption DEF Safe, TokenOf, IsStaged
<1>11. ASSUME NEW mine \in SUBSET Token, NEW m \in Meta, RequestStaged(w, mine, m),
              pc[w] = "stage", snap[w] \in Meta, queue' = queue
       PROVE  Safe(k, snap[w])'
  <2>1. snap'[w] = m /\ m.tokens = snap[w].tokens \cup mine /\ m.unstaged = snap[w].unstaged
    BY <1>11 DEF RequestStaged, TypeOK
  <2>2. CASE k \in Elems(queue[w]) /\ rows[k].status \in {"none", "discarded"}
    <3>1. /\ <<k, attempts + 1>> \in mine /\ rows'[k].status = "staged"
          /\ rows'[k].token = attempts + 1
      BY <1>11, <2>2 DEF RequestStaged, StagedTo
    <3> QED BY <1>1, <2>1, <3>1 DEF Safe, TokenOf
  <2>3. CASE ~(k \in Elems(queue[w]) /\ rows[k].status \in {"none", "discarded"})
    <3>1. rows'[k] = rows[k]
      BY <1>11, <2>3 DEF RequestStaged, StagedTo
    <3>2. CASE k \in Elems(queue[w])
      <4>1. rows[k].status = "ready"
        BY <1>11, <2>3, <3>2 DEF RequestStaged, TypeOK, Row, Status
      <4> QED BY <3>1, <4>1 DEF Safe
    <3>3. CASE k \in Committed
      BY <1>1, <1>7, <1>11, <2>1, <3>1, <3>3, NoMetaAssumption DEF Safe, TokenOf, Working
    <3> QED BY <1>1, <1>4, <1>11, <3>2, <3>3
  <2> QED BY <2>2, <2>3
<1>12. ASSUME NEW j \in Facts, NEW mine \in SUBSET Token, NEW m \in Meta,
              DeferredTaken(w, j, mine, m), DeferredGivenUp(j, mine) \/ DeferredStaged(j, mine),
              pc[w] = "stageOne", snap[w] \in Meta, pc'[w] # "save"
       PROVE  Safe(k, snap[w])'
  <2>1. /\ snap'[w] = m /\ m.tokens = snap[w].tokens \cup mine
        /\ Elems(snap[w].unstaged) \subseteq {j} \cup Elems(m.unstaged)
    BY <1>12 DEF DeferredTaken, TypeOK
  <2>2. Safe(k, snap[w])
    BY <1>1, <1>4, <1>7, <1>12, NoMetaAssumption DEF Working
  <2>3. CASE DeferredGivenUp(j, mine)
    BY <1>1, <2>1, <2>2, <2>3 DEF DeferredGivenUp, Safe, TokenOf
  <2>4. CASE DeferredStaged(j, mine)
    <3>1. CASE k = j /\ rows[k].status \in {"none", "discarded"}
      <4>1. /\ <<k, attempts + 1>> \in mine /\ rows'[k].status = "staged"
            /\ rows'[k].token = attempts + 1
        BY <2>4, <3>1 DEF DeferredStaged, StagedTo
      <4> QED BY <1>1, <2>1, <4>1 DEF Safe, TokenOf
    <3>2. CASE ~(k = j /\ rows[k].status \in {"none", "discarded"})
      <4>1. rows'[k] = rows[k]
        BY <2>4, <3>2 DEF DeferredStaged, StagedTo
      <4>2. k = j => rows[k].status = "ready"
        BY <2>4, <3>2 DEF DeferredStaged, TypeOK, Row, Status
      <4> QED BY <1>1, <2>1, <2>2, <4>1, <4>2 DEF Safe, TokenOf
    <3> QED BY <3>1, <3>2
  <2> QED BY <1>12, <2>3, <2>4
<1> QED BY <1>1, <1>8, <1>9, <1>10, <1>11, <1>12 DEF Frames, CopyFrom

LEMMA NothingLostStep ==
  ASSUME TypeOK, TypeOK', HasSnap, Frames, ProofLanded, Unlanded, NothingLost, KeepsAll, NothingOwed
  PROVE  NothingLost'
<1>1. SUFFICES ASSUME NEW k \in Facts, k \in Committed', k \notin givenUp' PROVE Safe(k, meta)'
  <2>1. history' \in Seq(SUBSET Facts)
    BY DEF TypeOK
  <2>2. Committed' \subseteq Facts
    BY <2>1, UnionType, Zenon DEF Committed
  <2> QED BY <2>2 DEF NothingLost, Safe
<1>2. k \notin givenUp
  BY <1>1 DEF Frames, LandedFrom
<1>3. ASSUME NEW w \in Proc, lock = w, pc[w] \in Working, snap[w] \in Meta, meta' = snap[w],
             rows' = rows, Committed' = Committed \/ (pc[w] = "save" /\ Committed' = Committed \cup Elems(queue[w]))
      PROVE  Safe(k, meta)'
  <2>1. Safe(k, snap[w])
    BY <1>1, <1>2, <1>3, NoMetaAssumption DEF KeepsAll
  <2> QED BY <1>3, <2>1 DEF Safe, TokenOf
<1>4. ASSUME k \in Committed PROVE Safe(k, meta)
  BY <1>2, <1>4 DEF NothingLost, Safe
<1>5. CASE meta' = meta /\ UNCHANGED history
  <2>1. Safe(k, meta)
    BY <1>1, <1>4, <1>5 DEF Committed
  <2>2. CASE rows[k].status = "ready"
    BY <2>2, ReadyStays DEF Safe
  <2>3. CASE rows[k].status = "staged" /\ meta # NoMeta /\ TokenOf(rows, k) \in meta.tokens
    <3>1. rows'[k] = rows[k] \/ rows'[k].status = "ready"
      BY <2>3, ProvedRowStays DEF ProofLanded
    <3> QED BY <1>5, <2>3, <3>1 DEF Safe, TokenOf
  <2>4. CASE meta # NoMeta /\ k \in Elems(meta.unstaged)
    BY <1>5, <2>4 DEF Safe
  <2> QED BY <2>1, <2>2, <2>3, <2>4 DEF Safe
<1>6. CASE meta # NoMeta /\ ~HoldsEvidence(meta) /\ meta' = NoMeta /\ UNCHANGED <<rows, history>>
  BY <1>1, <1>4, <1>6, ElemsFacts DEF Committed, Safe, HoldsEvidence
<1>7. ASSUME NEW w \in Proc, lock = w, rows' = rows, pc[w] \in {"purge", "delete"}, UNCHANGED history
      PROVE  Safe(k, meta)'
  <2>1. rows[k].status = "ready"
    BY <1>1, <1>2, <1>7 DEF NothingOwed, Committed
  <2> QED BY <1>7, <2>1 DEF Safe
<1>8. ASSUME NEW w \in Proc, lock = w, pc[w] \in {"save", "write"}, meta' = snap[w],
             rows' = rows,
             \/ pc[w] = "save" /\ history' = Append(history, Elems(queue[w]))
             \/ pc[w] = "write" /\ UNCHANGED history
      PROVE  Safe(k, meta)'
  <2>1. snap[w] \in Meta /\ pc[w] \in Working
    BY <1>8 DEF HasSnap, Working
  <2>2. Committed' = Committed \/ (pc[w] = "save" /\ Committed' = Committed \cup Elems(queue[w]))
    BY <1>8, CommittedFrom DEF Committed
  <2> QED BY <1>3, <1>8, <2>1, <2>2
<1>9. ASSUME NEW w \in Proc, lock = w, pc[w] \in Working, meta' = snap[w], snap[w] \in Meta,
             rows' = rows,
             \/ UNCHANGED history
             \/ pc[w] = "save" /\ history' = Append(history, Elems(queue[w]))
      PROVE  Safe(k, meta)'
  <2>1. Committed' = Committed \/ (pc[w] = "save" /\ Committed' = Committed \cup Elems(queue[w]))
    BY <1>9, CommittedFrom DEF Committed
  <2> QED BY <1>3, <1>9, <2>1
<1>10. ASSUME NEW w \in Proc, lock = w, meta' = snap[w], \A j \in Facts : rows'[j] = rows[j],
              \/ pc[w] = "save" /\ history' = Append(history, Elems(queue[w]))
              \/ pc[w] = "write" /\ UNCHANGED history
       PROVE  Safe(k, meta)'
  <2>1. rows' = rows
    BY <1>10 DEF TypeOK
  <2> QED BY <1>8, <1>10, <2>1
<1>11. CASE UNCHANGED history
  <2>1. CASE \E w \in Proc : lock = w /\ rows' = rows /\ pc[w] \in Working /\ meta' = snap[w] /\ snap[w] \in Meta
    BY <1>9, <1>11, <2>1
  <2>2. CASE \E w \in Proc : lock = w /\ rows' = rows /\ pc[w] \in {"purge", "delete"}
    BY <1>7, <1>11, <2>2
  <2> QED BY <1>5, <1>6, <1>11, <2>1, <2>2 DEF Frames, MetaFrom
<1> QED BY <1>10, <1>11 DEF Frames, LandedFrom

(***************************************************************************)
(* The record is deleted, and Stop leaves its list, only when nothing is   *)
(* owed any more.                                                          *)
(***************************************************************************)
LEMMA NothingOwedStep ==
  ASSUME TypeOK, TypeOK', Frames, Control, KnownTokens, ProofLanded, StopCovers, KeepsAll,
         NothingLost, NothingOwed
  PROVE  NothingOwed'
<1> SUFFICES ASSUME NEW w \in Proc, lock' = w, pc'[w] \in {"purge", "delete"}
             PROVE  /\ \A k \in Facts : ~Owed(k)'
                    /\ \A k \in Committed' \ givenUp' : rows'[k].status = "ready"
  BY DEF NothingOwed
<1>1. lock = w
  BY DEF Frames, LockFrom
<1>2. Committed \subseteq Facts
  <2>1. history \in Seq(SUBSET Facts)
    BY DEF TypeOK
  <2> QED BY <2>1, UnionType, Zenon DEF Committed
<1>3. CASE pc[w] \in {"purge", "delete"}
  <2>1. UNCHANGED <<landed, history>> /\ givenUp \subseteq givenUp'
    BY <1>1, <1>3 DEF Frames, LandedFrom
  <2>2. \A k \in Facts : ~Owed(k)'
    BY <1>1, <1>3, OwedStep DEF NothingOwed
  <2>3. \A k \in Committed \ givenUp : rows[k].status = "ready"
    BY <1>1, <1>3 DEF NothingOwed
  <2>4. Committed' = Committed
    BY <2>1 DEF Committed
  <2> QED BY <1>2, <2>1, <2>2, <2>3, <2>4, ReadyStays
<1>4. CASE pc[w] \notin {"purge", "delete"}
  <2>1. UNCHANGED <<rows, landed, history, givenUp, lock>>
    BY <1>4 DEF Frames, DeleteFrom
  <2>2. Committed' = Committed /\ \A k \in Facts : Owed(k)' <=> Owed(k)
    BY <2>1 DEF Committed, Owed, TokenOf
  <2>3. CASE pc[w] = "clean" /\ snap[w] # NoMeta /\ snap[w].unstaged = << >> /\ StagedTokens(rows) = {}
    <3>1. \A k \in Facts : rows[k].status # "staged"
      BY <2>3 DEF StagedTokens
    <3>2. \A k \in Committed \ givenUp : rows[k].status = "ready"
      <4>1. \A k \in Committed \ givenUp : Safe(k, snap[w])
        BY <1>1, <2>3 DEF KeepsAll, Working
      <4>2. Elems(snap[w].unstaged) = {}
        BY <2>3 DEF Elems
      <4> QED BY <1>2, <3>1, <4>1, <4>2 DEF Safe
    <3> QED BY <2>1, <2>2, <3>1, <3>2 DEF Owed
  <2>4. CASE pc[w] = "remaining" /\ ~unresolved[w] /\ (meta = NoMeta \/ meta.unstaged = << >>)
    <3>1. StopResolving(w) /\ items[w] = {}
      BY <2>4 DEF Control, StopOnly, NoItemsYet, StopResolving
    <3>2. \A k \in Facts : ~Owed(k)
      BY <1>1, <2>4, <3>1 DEF StopCovers, Covers
    <3>3. \A k \in Committed \ givenUp : rows[k].status = "ready"
      <4>1. ASSUME NEW k \in Committed \ givenUp, rows[k].status # "ready" PROVE FALSE
        <5>1. meta # NoMeta
          BY <4>1 DEF NothingLost
        <5>2. Elems(meta.unstaged) = {}
          BY <2>4, <5>1 DEF Elems
        <5>3. rows[k].status = "staged" /\ TokenOf(rows, k) \in meta.tokens
          BY <4>1, <5>2 DEF NothingLost
        <5> QED BY <1>2, <3>2, <4>1, <5>1, <5>3 DEF ProofLanded, Owed
      <4> QED BY <4>1
    <3> QED BY <2>1, <2>2, <3>2, <3>3
  <2> QED BY <1>4, <2>3, <2>4 DEF Frames, DeleteFrom
<1> QED BY <1>3, <1>4

LEMMA StopCoversStep ==
  ASSUME TypeOK, Frames, Control, KnownTokens, StopCovers
  PROVE  StopCovers'
<1> SUFFICES ASSUME NEW w \in Proc, lock' = w, StopResolving(w)', NEW k \in Facts, Owed(k)'
             PROVE  Covers(w, TokenOf(rows, k))'
  BY DEF StopCovers
<1>1. rows'[k] = rows[k] /\ TokenOf(rows, k)' = TokenOf(rows, k) /\ rows'[k].status = "staged"
  BY OwedStep DEF Owed
<1>2. CASE pc[w] = "list" /\ \A j \in Facts : rows[j].status = "staged" => TokenOf(rows, j) \in items'[w]
  BY <1>1, <1>2 DEF Covers
<1>3. CASE /\ StopResolving(w)
           /\ \A j \in Facts :
                (Covers(w, TokenOf(rows, j)) /\ rows'[j].status = "staged" /\ rows'[j] = rows[j])
                   => Covers(w, TokenOf(rows, j))'
  <2>1. lock = w
    BY <1>3 DEF Frames, LockFrom, StopResolving, Control, StopOnly
  <2>2. Owed(k)
    BY <1>3, <2>1, OwedStep DEF StopResolving
  <2>3. Covers(w, TokenOf(rows, k))
    BY <1>3, <2>1, <2>2 DEF StopCovers
  <2> QED BY <1>1, <1>3, <2>3
<1> QED BY <1>2, <1>3 DEF Frames, StopFrom

(***************************************************************************)
(* The invariant, and what follows from it.                                *)
(***************************************************************************)
\* The invariant holds of the empty outbox and the new session record.
THEOREM InvInit == Init => IInv
<1> SUFFICES ASSUME Init PROVE IInv
  OBVIOUS
<1>1. TypeOK /\ HasSnap
  BY TypeInit
<1>2. /\ lock = Nobody /\ Nobody \notin Proc /\ landed = {} /\ attempts = 0 /\ meta = NewMeta
      /\ \A k \in Facts : rows[k] = NoRow
      /\ \A w \in Proc : pc[w] = "idle" /\ items[w] = {} /\ target[w] = NoTarget
  BY ConstantsAssumption DEF Init
<1>3. \A k \in Facts : rows[k].status = "none" /\ rows[k].token = 0
  BY <1>2 DEF NoRow
<1>4. Committed = {}
  BY DEF Init, Committed, Elems
<1>5. NoItemsYet /\ StopOnly /\ HasTarget /\ ~(\E w \in Proc : Staging(w) \/ pc[w] \in Working)
  BY <1>2 DEF NoItemsYet, StopOnly, HasTarget, Staging, Working
<1>6. KnownTokens
  BY <1>2, <1>3 DEF KnownTokens, NoTarget
<1>7. ProofLanded
  <2>1. meta.tokens = {}
    BY <1>2 DEF NewMeta
  <2> QED BY <1>2, <1>5, <2>1 DEF ProofLanded
<1>8. ProofComplete /\ OwnRowsStand /\ KeepsAll /\ StopCovers /\ NothingOwed
  BY <1>2, <1>3 DEF ProofComplete, OwnRowsStand, KeepsAll, StopCovers, NothingOwed, Owed
<1>9. Unlanded
  BY <1>2, <1>5 DEF Unlanded
<1>10. ReportedWasCommitted /\ CommittedNotDiscarded /\ NothingLost
  BY <1>3, <1>4 DEF ReportedWasCommitted, CommittedNotDiscarded, NothingLost
<1> QED BY <1>1, <1>5, <1>6, <1>7, <1>8, <1>9, <1>10 DEF IInv

\* Every step, and every stuttering step, preserves it.
THEOREM InvStep == IInv /\ [Next]_vars => IInv'
<1> SUFFICES ASSUME IInv, [Next]_vars PROVE IInv'
  OBVIOUS
<1>1. TypeOK /\ HasSnap /\ Control
  BY DEF IInv, Control
<1>2. TypeOK'
  BY <1>1, TypeStep
<1>3. HasSnap' /\ Control'
  BY <1>1, <1>2, SnapStep, ControlStep
<1>4. KnownTokens'
  BY <1>1, KnownStep DEF IInv
<1>5. ProofLanded' /\ ReportedWasCommitted'
  BY <1>1, <1>2, LandingStep DEF IInv, Landing
<1>6. Frames
  BY <1>1, FramesStep
<1>7. Unlanded' /\ OwnRowsStand' /\ CommittedNotDiscarded'
  BY <1>6, UnlandedStep, OwnRowsStep, DiscardedStep DEF IInv
<1>8. ProofComplete'
  BY <1>6, ProofCompleteStep DEF IInv
<1>9. KeepsAll' /\ NothingLost'
  BY <1>2, <1>6, KeepsAllStep, NothingLostStep DEF IInv
<1>10. NothingOwed' /\ StopCovers'
  BY <1>1, <1>2, <1>6, NothingOwedStep, StopCoversStep DEF IInv
<1> QED BY <1>2, <1>3, <1>4, <1>5, <1>7, <1>8, <1>9, <1>10 DEF IInv, Control

\* Every reachable state satisfies the invariant.
THEOREM Invariance == Spec => []IInv
BY InvInit, InvStep, PTL DEF Spec

\* Every variable keeps its type, in every behaviour of every instance.
THEOREM TypeCorrect == Spec => []TypeOK
<1>1. IInv => TypeOK
  BY DEF IInv
<1> QED BY <1>1, Invariance, PTL

\* Only attempts whose session save landed are numbered for delivery.
THEOREM OnlyCommittedReported == Spec => []ReportedWasCommitted
<1>1. IInv => ReportedWasCommitted
  BY DEF IInv
<1> QED BY <1>1, Invariance, PTL

\* The sweeper and the abort path never discard a committed attempt.
THEOREM CommittedNeverDiscarded == Spec => []CommittedNotDiscarded
<1>1. IInv => CommittedNotDiscarded
  BY DEF IInv
<1> QED BY <1>1, Invariance, PTL

\* No crash, lease loss, drain or Stop loses a committed fact: its row is
\* numbered, or the record still holds its proof or the fact itself.
THEOREM NothingEverLost == Spec => []NothingLost
<1>1. IInv => NothingLost
  BY DEF IInv
<1> QED BY <1>1, Invariance, PTL
=============================================================================
