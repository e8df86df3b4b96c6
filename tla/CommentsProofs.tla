---------------------------- MODULE CommentsProofs ----------------------------
(***************************************************************************)
(* Proofs about Comments, for any sets of events, requests and stops, any  *)
(* size of the queue and any number of copies, attachments and mishaps.    *)
(*                                                                         *)
(* The argument: while the session is attached the ledger's entries are the *)
(* copies in the queue that were not consumed, because a comment is only   *)
(* routed into a free slot and so evicts a consumed one at most; while it  *)
(* is not, they are what the one stop that tore it down has still to walk, *)
(* because no delivery is newer than the counter the stop was given.  An   *)
(* event that was consumed gets no entry again, so the reducer, which while *)
(* attached is told of entries only and starts empty, is told of it once.  *)
(***************************************************************************)
EXTENDS Comments, FiniteSetTheorems, TLAPS

\* Whatever is routed, queued or told was counted.
Counted ==
  /\ seq <= copies
  /\ queue \subseteq 1..copies /\ Told \subseteq 1..copies
  /\ \A h \in Handlers : request[h].at = "persist" => request[h].copy \in 1..copies

\* An entry is of its own event, which was not consumed before.
Named == \A e \in Events : inFlight[e] # NoEntry =>
  /\ inFlight[e].copy \in 1..copies /\ eventOf[inFlight[e].copy] = e
  /\ outcome[e] # "consumed"

Standing == IF attached THEN mode ELSE queue = {}

\* A batch whose state is still there waits in it.
BatchWaits == run.live => run.batch \subseteq pending

\* No entry is newer than the counter a stop would be given.
Fenced == attached /\ ~overlapped =>
  \A e \in Events : inFlight[e] # NoEntry => inFlight[e].seq <= seq

\* The one stop that reconciles has all of the ledger before it.
Walks == ~overlapped =>
  \A s \in Stops : stop[s].at = "reconcile" =>
    /\ ~attached /\ stop[s].left = inFlight
    /\ \A u \in Stops : stop[u].at = "reconcile" => u = s

IInv ==
  /\ TypeOK /\ Counted /\ Named /\ Standing /\ BatchWaits /\ Fenced /\ Walks
  /\ FedOnce /\ RoutedIsRecorded

(***************************************************************************)
(* Facts about the data.                                                   *)
(***************************************************************************)
\* Sets of copies can be counted.
LEMMA Counting ==
  ASSUME NEW S \in SUBSET Copies
  PROVE  IsFiniteSet(S) /\ Cardinality(S) \in Nat
<1>1. IsFiniteSet(Copies)
  BY ConstantsAssumption, FS_Interval DEF Copies
<1>2. QED
  BY <1>1, FS_Subset, FS_CardinalityType

\* An idle handler, a finished stop and no entry are what they should be.
LEMMA Blanks ==
  /\ Idle \in [at : {"idle", "route", "persist"}, event : Events, copy : 0..MaxCopies]
  /\ Idle.at = "idle"
  /\ Done \in [at : {"idle", "reconcile", "delete"}, left : [Events -> Entry \cup {NoEntry}]]
  /\ Done.at = "idle" /\ \A e \in Events : Done.left[e] = NoEntry
  /\ NoEntry \notin Entry
<1>1. (CHOOSE e \in Events : TRUE) \in Events
  BY ConstantsAssumption
<1>2. NoEntry \notin Entry
  BY ConstantsAssumption DEF Entry, Copies
<1>3. QED
  BY <1>1, <1>2, ConstantsAssumption DEF Idle, Done

\* A session that is dropped leaves an empty count of failures and a batch without a state.
LEMMA DropTypes ==
  ASSUME TypeOK, Drop
  PROVE  run' \in [batch : SUBSET Copies, live : BOOLEAN] /\ itemFails' \in [Copies -> 0..3]
<1>1. run \in [batch : SUBSET Copies, live : BOOLEAN]
  BY DEF TypeOK
<1>2. run' \in [batch : SUBSET Copies, live : BOOLEAN]
  BY <1>1 DEF Drop
<1>3. itemFails' \in [Copies -> 0..3]
  BY DEF Drop
<1>4. QED
  BY <1>2, <1>3

\* A queue with a free slot evicts nothing but consumed comments.
LEMMA EvictedWasConsumed ==
  ASSUME TypeOK, FreeSlots > 0
  PROVE  Evicted \subseteq consumed
<1>1. CASE queue \cap consumed = {}
  <2>1. queue \ consumed = queue
    BY <1>1
  <2>2. Cardinality(queue) \in Nat
    BY Counting DEF TypeOK
  <2>3. Cardinality(queue) < Size
    BY <2>1, <2>2, ConstantsAssumption DEF FreeSlots
  <2>4. QED
    BY <2>3 DEF Evicted
<1>2. CASE queue \cap consumed # {}
  BY <1>2 DEF Evicted
<1>3. QED
  BY <1>1, <1>2

(***************************************************************************)
(* What a step leaves alone.                                               *)
(***************************************************************************)
\* A step that touches neither the coordinator's comments nor the ledger, and leaves
\* the stops that reconcile where they are, keeps what is known of the ledger.
LEMMA LedgerKept ==
  ASSUME IInv, UNCHANGED <<attached, mode, queue, consumed, seq, routed, ledger, overlapped>>,
         \A s \in Stops : /\ stop'[s].at = "reconcile" <=> stop[s].at = "reconcile"
                          /\ stop[s].at = "reconcile" => stop'[s].left = stop[s].left
  PROVE  Named' /\ Standing' /\ Fenced' /\ Walks' /\ RoutedIsRecorded'
<1> USE DEF IInv, routed, ledger
<1>1. Named' /\ Standing' /\ Fenced'
  BY DEF Named, Standing, Fenced
<1>2. Walks'
  BY DEF Walks
<1>3. RoutedIsRecorded'
  BY DEF RoutedIsRecorded
<1>4. QED
  BY <1>1, <1>2, <1>3

\* A step that tells the reducer nothing, and of no event anything else, feeds it nothing.
LEMMA NothingFed ==
  ASSUME IInv, Told' = Told, UNCHANGED <<attached, overlapped, outcome, routed>>
  PROVE  FedOnce'
  BY DEF IInv, FedOnce, routed

\* A step of the reducer alone keeps what was counted.
LEMMA CountedKept ==
  ASSUME IInv, Told' = Told, UNCHANGED <<seq, copies, queue>>,
         \A h \in Handlers : request'[h].at = "persist" =>
           request[h].at = "persist" /\ request'[h].copy = request[h].copy
  PROVE  Counted'
  BY DEF IInv, Counted

LEMMA InvInit == Init => IInv
<1> SUFFICES ASSUME Init PROVE IInv
  OBVIOUS
<1> USE DEF Init
<1>1. TypeOK
  <2>1. /\ queue \subseteq Copies /\ consumed \subseteq queue /\ seq \in 0..MaxCopies
        /\ copies \in 0..MaxCopies /\ eventOf \in [Copies -> Events]
        /\ attach \in [open : BOOLEAN, had : BOOLEAN] /\ run \in [batch : SUBSET Copies, live : BOOLEAN]
    BY Blanks, ConstantsAssumption DEF NoRun
  <2>2. /\ limit \in Nat /\ failures \in 0..2 /\ itemFails \in [Copies -> 0..3]
        /\ pending \subseteq Copies /\ members \subseteq Copies /\ dropped \subseteq Copies
        /\ attaches \in Nat /\ mishaps \in Nat
    OBVIOUS
  <2>3. /\ inFlight \in [Events -> Entry \cup {NoEntry}]
        /\ outcome \in [Events -> {"none", "consumed", "non_deliverable"}]
        /\ stop \in [Stops -> [at : {"idle", "reconcile", "delete"},
                                left : [Events -> Entry \cup {NoEntry}]]]
        /\ request \in [Handlers -> [at : {"idle", "route", "persist"}, event : Events,
                                     copy : 0..MaxCopies]]
    BY Blanks
  <2>4. QED
    BY <2>1, <2>2, <2>3 DEF TypeOK
<1>2. Counted
  BY Blanks DEF Counted, Told
<1>3. Named /\ Standing /\ BatchWaits /\ Fenced
  BY DEF Named, Standing, BatchWaits, Fenced, NoRun
<1>4. Walks
  BY Blanks DEF Walks
<1>5. FedOnce /\ RoutedIsRecorded
  BY DEF FedOnce, RoutedIsRecorded
<1>6. QED
  BY <1>1, <1>2, <1>3, <1>4, <1>5 DEF IInv

(***************************************************************************)
(* Delivering an event.                                                    *)
(***************************************************************************)
LEMMA DeliverInv ==
  ASSUME IInv, NEW h \in Handlers, NEW e \in Events, Deliver(h, e)
  PROVE  IInv'
<1> USE DEF IInv, Deliver, record, coordinator, routed, ledger, reducer, bounds
<1>1. TypeOK'
  BY ConstantsAssumption DEF TypeOK
<1>2. Counted' /\ FedOnce' /\ BatchWaits'
  BY CountedKept, NothingFed DEF Told, BatchWaits, TypeOK
<1>3. Named' /\ Standing' /\ Fenced' /\ Walks' /\ RoutedIsRecorded'
  BY LedgerKept
<1>4. QED
  BY <1>1, <1>2, <1>3

LEMMA RefuseInv ==
  ASSUME IInv, NEW h \in Handlers, Refuse(h)
  PROVE  IInv'
<1> USE DEF IInv, Refuse, Unlock, record, coordinator, routed, ledger, reducer, bounds
<1>1. TypeOK'
  BY Blanks DEF TypeOK
<1>2. Counted' /\ FedOnce' /\ BatchWaits'
  BY Blanks, CountedKept, NothingFed DEF Told, BatchWaits, TypeOK
<1>3. Named' /\ Standing' /\ Fenced' /\ Walks' /\ RoutedIsRecorded'
  BY LedgerKept
<1>4. QED
  BY <1>1, <1>2, <1>3

LEMMA NotReadyInv ==
  ASSUME IInv, NEW h \in Handlers, NotReady(h)
  PROVE  IInv'
<1> USE DEF IInv, NotReady, Unlock, record, coordinator, routed, ledger, reducer, bounds
<1>1. TypeOK'
  BY Blanks DEF TypeOK
<1>2. Counted' /\ FedOnce' /\ BatchWaits'
  BY Blanks, CountedKept, NothingFed DEF Told, BatchWaits, TypeOK
<1>3. Named' /\ Standing' /\ Fenced' /\ Walks' /\ RoutedIsRecorded'
  BY LedgerKept
<1>4. QED
  BY <1>1, <1>2, <1>3

\* A new copy goes into the queue, with an entry unless its event has one or was consumed.
LEMMA RouteInv ==
  ASSUME IInv, NEW h \in Handlers, Route(h)
  PROVE  IInv'
<1> DEFINE e == request[h].event
           c == copies + 1
<1> USE DEF IInv
<1>1. /\ e \in Events /\ c \in Copies /\ seq + 1 \in Copies /\ copies \in Nat
      /\ copies' = c /\ eventOf' = [eventOf EXCEPT ![c] = e] /\ attached /\ attached'
      /\ queue' = (queue \ Evicted) \cup {c} /\ consumed' = consumed \ Evicted
      /\ seq' = seq + 1 /\ inFlight' = Tracked(e, c)
      /\ request' = [request EXCEPT ![h] = [at |-> "persist", event |-> e, copy |-> c]]
      /\ UNCHANGED <<lock, activated, mode, outcome, old, attach, stop, run, overlapped, stored,
                     seen, glitched, attaches, mishaps, known, pending, members, dropped, limit,
                     failures, itemFails>>
  BY ConstantsAssumption DEF Route, TypeOK, Counted, Copies, record, reducer, bounds
<1>2. Evicted \subseteq consumed
  BY EvictedWasConsumed DEF Route
<1>3. /\ \A f \in Events : f # e => inFlight'[f] = inFlight[f]
      /\ inFlight'[e] = IF inFlight[e] # NoEntry \/ outcome[e] = "consumed" THEN inFlight[e]
                        ELSE [copy |-> c, seq |-> seq + 1]
      /\ inFlight' \in [Events -> Entry \cup {NoEntry}]
  BY <1>1 DEF Tracked, TypeOK, Entry
<1>4. /\ \A d \in 1..copies : eventOf'[d] = eventOf[d] /\ d # c /\ d \in 1..c
      /\ eventOf'[c] = e /\ eventOf' \in [Copies -> Events]
  BY <1>1 DEF TypeOK, Copies
<1>5. TypeOK'
  <2>1. /\ queue' \subseteq Copies /\ consumed' \subseteq queue'
    BY <1>1 DEF TypeOK
  <2>2. /\ c \in 0..MaxCopies /\ seq' \in 0..MaxCopies
    BY <1>1, ConstantsAssumption DEF Copies
  <2>3. request' \in [Handlers -> [at : {"idle", "route", "persist"}, event : Events,
                                  copy : 0..MaxCopies]]
    BY <2>2, <1>1 DEF TypeOK
  <2>4. QED
    BY <1>1, <1>3, <1>4, <2>1, <2>2, <2>3 DEF TypeOK
<1>6. Counted'
  <2>1. seq' <= copies'
    BY <1>1 DEF Counted, TypeOK
  <2>2. c \in 1..c
    BY <1>1
  <2>3. queue' \subseteq 1..copies' /\ Told' \subseteq 1..copies'
    BY <1>1, <1>4, <2>2 DEF Counted, Told
  <2>4. \A i \in Handlers : request'[i].at = "persist" => request'[i].copy \in 1..copies'
    BY <1>1, <1>4, <2>2 DEF Counted, TypeOK
  <2>5. QED
    BY <2>1, <2>3, <2>4 DEF Counted
<1>7. Named'
  BY <1>1, <1>3, <1>4 DEF Named
<1>8. Standing' /\ BatchWaits' /\ Walks'
  BY <1>1 DEF Standing, BatchWaits, Walks
<1>9. Fenced'
  BY <1>1, <1>3 DEF Fenced, TypeOK, Entry, Copies
<1>10. FedOnce'
  BY <1>1, <1>4 DEF FedOnce, Told, Counted
<1>11. RoutedIsRecorded'
  <2> SUFFICES ASSUME ~overlapped
               PROVE  /\ \A f \in Events : inFlight'[f] # NoEntry =>
                           inFlight'[f].copy \in queue' \ consumed'
                      /\ \A d \in queue' : inFlight'[eventOf'[d]] # NoEntry
                                           \/ outcome[eventOf'[d]] = "consumed"
    BY <1>1 DEF RoutedIsRecorded
  <2>1. \A f \in Events : inFlight[f] # NoEntry => inFlight[f].copy \in queue' \ consumed'
    BY <1>1, <1>2 DEF RoutedIsRecorded
  <2>2. c \in queue' \ consumed'
    BY <1>1, <1>4 DEF TypeOK, Counted
  <2>3. \A f \in Events : inFlight'[f] # NoEntry => inFlight'[f].copy \in queue' \ consumed'
    BY <2>1, <2>2, <1>3
  <2>4. \A d \in queue' : d # c => d \in 1..copies /\ d \in queue
    BY <1>1 DEF Counted
  <2>5. \A d \in queue' : inFlight'[eventOf'[d]] # NoEntry \/ outcome[eventOf'[d]] = "consumed"
    BY <2>4, <1>1, <1>3, <1>4, Blanks DEF RoutedIsRecorded, TypeOK, Entry
  <2>6. QED
    BY <2>3, <2>5
<1>12. QED
  BY <1>5, <1>6, <1>7, <1>8, <1>9, <1>10, <1>11

\* In reducer mode, and so in an attached session, the reducer is not told here.
LEMMA AcceptInv ==
  ASSUME IInv, NEW h \in Handlers, Accept(h)
  PROVE  IInv'
<1>0. request[h].copy \in 1..copies /\ 1..copies \subseteq Copies
  <2>1. request[h].copy \in 1..copies
    BY DEF IInv, Accept, Counted
  <2>2. copies \in Nat /\ copies <= MaxCopies
    BY ConstantsAssumption DEF IInv, TypeOK
  <2>3. 1..copies \subseteq 1..MaxCopies
    BY <2>2, ConstantsAssumption
  <2>4. QED
    BY <2>1, <2>3 DEF Copies
<1> USE DEF IInv, Accept, Unlock, Notify, ToldAtOnce, Mishap, record, coordinator, routed, ledger,
            reducer, bounds
<1>2. TypeOK'
  BY <1>0, Blanks DEF TypeOK
<1>3. Counted'
  BY <1>0, Blanks DEF Counted, Told, TypeOK
<1>4. BatchWaits'
  BY DEF BatchWaits
<1>5. FedOnce'
  <2>1. CASE attached
    BY <2>1, NothingFed DEF Standing, Told
  <2>2. CASE ~attached
    BY <2>2 DEF FedOnce
  <2>3. QED
    BY <2>1, <2>2
<1>6. Named' /\ Standing' /\ Fenced' /\ Walks' /\ RoutedIsRecorded'
  BY LedgerKept
<1>7. QED
  BY <1>2, <1>3, <1>4, <1>5, <1>6

(***************************************************************************)
(* The lock, the records and the clock.                                    *)
(***************************************************************************)
LEMMA EnvironmentInv ==
  ASSUME IInv, LoseLock \/ Activate \/ (\E e \in Events : Age(e) \/ Forget(e)) \/ BeginAttach
  PROVE  IInv'
<1> USE DEF IInv, Mishap, record, coordinator, routed, ledger, reducer, bounds
<1>1. CASE LoseLock
  <2> USE <1>1 DEF LoseLock
  <2>1. TypeOK'
    BY DEF TypeOK
  <2>2. Counted' /\ FedOnce' /\ BatchWaits'
    BY CountedKept, NothingFed DEF Told, BatchWaits
  <2>3. QED
    BY <2>1, <2>2, LedgerKept
<1>2. CASE Activate
  <2> USE <1>2 DEF Activate
  <2>1. TypeOK'
    BY DEF TypeOK
  <2>2. Counted' /\ FedOnce' /\ BatchWaits'
    BY CountedKept, NothingFed DEF Told, BatchWaits
  <2>3. QED
    BY <2>1, <2>2, LedgerKept
<1>3. ASSUME NEW e \in Events, Age(e) PROVE IInv'
  <2> USE <1>3 DEF Age
  <2>1. TypeOK'
    BY DEF TypeOK
  <2>2. Counted' /\ FedOnce' /\ BatchWaits'
    BY CountedKept, NothingFed DEF Told, BatchWaits
  <2>3. QED
    BY <2>1, <2>2, LedgerKept
<1>4. ASSUME NEW e \in Events, Forget(e) PROVE IInv'
  <2> USE <1>4 DEF Forget
  <2>1. TypeOK'
    BY DEF TypeOK
  <2>2. Counted' /\ FedOnce' /\ BatchWaits'
    BY CountedKept, NothingFed DEF Told, BatchWaits
  <2>3. QED
    BY <2>1, <2>2, LedgerKept
<1>5. CASE BeginAttach
  <2> USE <1>5 DEF BeginAttach
  <2>1. TypeOK'
    BY DEF TypeOK
  <2>2. Counted' /\ FedOnce' /\ BatchWaits'
    BY CountedKept, NothingFed DEF Told, BatchWaits
  <2>3. QED
    BY <2>1, <2>2, LedgerKept
<1>6. QED
  BY <1>1, <1>2, <1>3, <1>4, <1>5

(***************************************************************************)
(* The coordinator.                                                        *)
(***************************************************************************)
\* A new attachment finds the ledger empty, unless a stop is still at it, and its
\* reducer knows of nothing.
LEMMA StartInv ==
  ASSUME IInv, Start
  PROVE  IInv'
<1> USE DEF IInv, Drop, record, coordinator, routed, ledger, reducer, bounds
<1>1. UNCHANGED <<stored, seen, lock, seq, copies, eventOf, inFlight, outcome, old, request, stop,
                  glitched, attaches, mishaps>>
  BY DEF Start
<1>2. CASE /\ attach.had \/ attached
           /\ mode' = TRUE /\ known' = TRUE
           /\ UNCHANGED <<attached, activated, queue, consumed, pending, members, dropped, limit,
                          failures, itemFails, run, overlapped>>
  <2>1. TypeOK'
    BY <1>1, <1>2 DEF TypeOK, Start
  <2>2. Counted' /\ FedOnce' /\ BatchWaits'
    BY <1>1, <1>2, CountedKept, NothingFed DEF Told, BatchWaits
  <2>3. Named' /\ Standing' /\ Fenced' /\ Walks' /\ RoutedIsRecorded'
    BY <1>1, <1>2 DEF Named, Standing, Fenced, Walks, RoutedIsRecorded
  <2>4. QED
    BY <2>1, <2>2, <2>3
<1>3. CASE attach.had /\ ~attached /\ UNCHANGED <<coordinator, reducer, run, overlapped>>
  <2>1. TypeOK'
    BY <1>1, <1>3 DEF TypeOK, Start
  <2>2. Counted' /\ FedOnce' /\ BatchWaits'
    BY <1>1, <1>3, CountedKept, NothingFed DEF Told, BatchWaits
  <2>3. QED
    BY <1>1, <1>3, <2>1, <2>2, LedgerKept
<1>4. CASE /\ ~attach.had /\ ~attached
           /\ attached' = TRUE /\ activated' = FALSE /\ mode' = TRUE
           /\ queue' = {} /\ consumed' = {} /\ known' = TRUE /\ Drop
           /\ overlapped' = (overlapped \/ \E s \in Stops : stop[s].at = "reconcile")
  <2>1. TypeOK'
    <3>1. run' \in [batch : SUBSET Copies, live : BOOLEAN] /\ itemFails' \in [Copies -> 0..3]
      BY <1>4, DropTypes
    <3>2. attach' \in [open : BOOLEAN, had : BOOLEAN] /\ overlapped' \in BOOLEAN
      BY <1>4 DEF Start, TypeOK
    <3>3. limit' \in Nat /\ failures' \in 0..2
      BY <1>4
    <3>4. QED
      BY <1>1, <1>4, <3>1, <3>2, <3>3 DEF TypeOK
  <2>2. Told' = {}
    BY <1>4 DEF Told
  <2>3. Counted' /\ FedOnce'
    BY <1>1, <1>4, <2>2 DEF Counted, FedOnce
  <2>4. Named' /\ Standing'
    BY <1>1, <1>4 DEF Named, Standing
  <2>5. BatchWaits'
    BY <1>4 DEF BatchWaits, TypeOK
  <2>6. ~overlapped' => ~overlapped /\ \A s \in Stops : stop[s].at # "reconcile"
    BY <1>4
  <2>7. ~overlapped' => \A e \in Events : inFlight[e] = NoEntry
    BY <1>4, <2>6 DEF RoutedIsRecorded
  <2>8. Fenced' /\ Walks' /\ RoutedIsRecorded'
    BY <1>1, <1>4, <2>6, <2>7 DEF Fenced, Walks, RoutedIsRecorded
  <2>9. QED
    BY <2>1, <2>3, <2>4, <2>5, <2>8
<1>5. QED
  BY <1>2, <1>3, <1>4 DEF Start

\* The reducer is told of entries, each of an event that was not consumed before.
LEMMA TickInv ==
  ASSUME IInv, Tick
  PROVE  IInv'
<1> DEFINE eaten == {e \in Events : inFlight[e] # NoEntry /\ inFlight[e].copy \in Fresh}
           fed == {inFlight[e].copy : e \in eaten}
<1> USE DEF IInv
<1>1. /\ attached /\ attached' /\ consumed' = consumed \cup Fresh /\ Fresh \subseteq queue \ consumed
      /\ known' \in BOOLEAN /\ pending' = pending \cup fed
      /\ outcome' = [e \in Events |-> IF e \in eaten THEN "consumed" ELSE outcome[e]]
      /\ inFlight' = [e \in Events |-> IF e \in eaten THEN NoEntry ELSE inFlight[e]]
      /\ UNCHANGED <<stored, seen, lock, activated, mode, queue, seq, copies, eventOf, old, request,
                     attach, stop, run, overlapped, glitched, attaches, mishaps, members, dropped,
                     limit, failures, itemFails>>
  BY DEF Tick, Notify, Fresh, TypeOK, record, routed, bounds
<1>2. fed \subseteq 1..copies /\ fed \subseteq Copies
  BY DEF Named, TypeOK, Entry
<1>3. TypeOK'
  BY <1>1, <1>2 DEF TypeOK
<1>4. Counted'
  BY <1>1, <1>2 DEF Counted, Told
<1>5. Named' /\ Standing' /\ BatchWaits' /\ Fenced'
  BY <1>1 DEF Named, Standing, BatchWaits, Fenced
<1>6. Walks'
  BY <1>1 DEF Walks
<1>7. RoutedIsRecorded'
  BY <1>1 DEF RoutedIsRecorded, TypeOK
<1>8. FedOnce'
  <2> SUFFICES ASSUME ~overlapped
               PROVE  \A c \in Told' : /\ outcome'[eventOf[c]] = "consumed"
                                       /\ \A d \in Told' : eventOf[c] = eventOf[d] => c = d
    BY <1>1 DEF FedOnce
  <2>1. Told' = Told \cup fed
    BY <1>1 DEF Told
  <2>2. \A c \in fed : /\ eventOf[c] \in eaten /\ inFlight[eventOf[c]].copy = c
                       /\ outcome[eventOf[c]] # "consumed"
    BY DEF Named
  <2>3. \A c \in Told : /\ eventOf[c] \in Events /\ outcome[eventOf[c]] = "consumed"
                        /\ \A d \in Told : eventOf[c] = eventOf[d] => c = d
    BY <1>1 DEF FedOnce, TypeOK, Told
  <2>4. QED
    BY <1>1, <2>1, <2>2, <2>3
<1>9. QED
  BY <1>3, <1>4, <1>5, <1>6, <1>7, <1>8

(***************************************************************************)
(* The stop.                                                               *)
(***************************************************************************)
\* Whatever an entry's reconciliation does to a walk that has all of the ledger left.
LEMMA Reconciling ==
  ASSUME IInv, NEW s \in Stops, NEW left, NEW e \in Events,
         left \in [Events -> Entry \cup {NoEntry}], First(left, e), Reconcile(s, left, e)
  PROVE  /\ inFlight' \in [Events -> Entry \cup {NoEntry}]
         /\ outcome' \in [Events -> {"none", "consumed", "non_deliverable"}]
         /\ stop' \in [Stops -> [at : {"idle", "reconcile", "delete"},
                                 left : [Events -> Entry \cup {NoEntry}]]]
         /\ \A f \in Events : inFlight'[f] # NoEntry =>
              inFlight'[f] = inFlight[f] /\ outcome'[f] = outcome[f]
         /\ \A u \in Stops : u # s => stop'[u] = stop[u]
         /\ left = inFlight => stop'[s].at = "reconcile" /\ stop'[s].left = inFlight'
<1> USE DEF IInv, TypeOK
<1>1. left[e] # NoEntry
  BY DEF First
<1>2. /\ inFlight' = [inFlight EXCEPT ![e] = NoEntry]
      /\ outcome' = [outcome EXCEPT ![e] = "non_deliverable"]
  BY DEF Reconcile
<1>3. [at |-> "reconcile", left |-> [left EXCEPT ![e] = NoEntry]]
        \in [at : {"idle", "reconcile", "delete"}, left : [Events -> Entry \cup {NoEntry}]]
  OBVIOUS
<1>4. stop' = [stop EXCEPT ![s] = IF inFlight[e] = NoEntry THEN Done
                 ELSE [at |-> "reconcile", left |-> [left EXCEPT ![e] = NoEntry]]]
  BY DEF Reconcile
<1>5. stop' \in [Stops -> [at : {"idle", "reconcile", "delete"},
                          left : [Events -> Entry \cup {NoEntry}]]]
  BY <1>3, <1>4, Blanks
<1>6. left = inFlight => stop'[s].at = "reconcile" /\ stop'[s].left = inFlight'
  BY <1>1, <1>2, <1>4
<1>7. QED
  BY <1>2, <1>4, <1>5, <1>6

\* The stop that tears the session down takes all of the ledger with it.
LEMMA BeginStopInv ==
  ASSUME IInv, NEW s \in Stops, BeginStop(s)
  PROVE  IInv'
<1> USE DEF IInv
<1>1. /\ attached /\ attached' = FALSE /\ activated' = FALSE /\ mode' = FALSE
      /\ queue' = {} /\ consumed' = {} /\ seq' = 0 /\ known' = FALSE
      /\ pending' = {} /\ members' = {} /\ dropped' = {}
      /\ limit' = 0 /\ failures' = 0 /\ itemFails' = [c \in Copies |-> 0]
      /\ run' = [run EXCEPT !.live = FALSE]
      /\ UNCHANGED <<stored, seen, lock, copies, eventOf, old, request, attach, overlapped, glitched,
                     attaches, mishaps>>
  BY DEF BeginStop, TearDown, Drop, record, routed, bounds
<1>2. Left \in [Events -> Entry \cup {NoEntry}]
  BY DEF Left, TypeOK
<1>3. ~overlapped => Left = inFlight /\ \A u \in Stops : stop[u].at # "reconcile"
  <2>1. ASSUME ~overlapped PROVE Left = [e \in Events |-> inFlight[e]]
    BY <2>1, <1>1 DEF Left, Fenced
  <2>2. inFlight = [e \in Events |-> inFlight[e]]
    BY DEF TypeOK
  <2>3. QED
    BY <2>1, <2>2, <1>1 DEF Walks
<1>4. /\ inFlight' \in [Events -> Entry \cup {NoEntry}]
      /\ outcome' \in [Events -> {"none", "consumed", "non_deliverable"}]
      /\ stop' \in [Stops -> [at : {"idle", "reconcile", "delete"},
                              left : [Events -> Entry \cup {NoEntry}]]]
      /\ \A f \in Events : inFlight'[f] # NoEntry =>
           inFlight'[f] = inFlight[f] /\ outcome'[f] = outcome[f]
      /\ \A u \in Stops : u # s => stop'[u] = stop[u]
      /\ ~overlapped => \/ stop'[s].at = "reconcile" /\ stop'[s].left = inFlight'
                        \/ stop'[s].at = "delete" /\ \A f \in Events : inFlight'[f] = NoEntry
  <2>1. CASE \E e \in Events : First(Left, e) /\ Reconcile(s, Left, e)
    BY <2>1, <1>2, <1>3, Reconciling
  <2>2. CASE /\ Left = Done.left /\ UNCHANGED ledger
             /\ stop' = [stop EXCEPT ![s] = [at |-> "delete", left |-> Left]]
    <3>1. ~overlapped => \A f \in Events : inFlight[f] = NoEntry
      BY <2>2, <1>3, Blanks
    <3>2. QED
      BY <2>2, <1>2, <3>1 DEF ledger, TypeOK
  <2>3. QED
    BY <2>1, <2>2 DEF BeginStop
<1>5. TypeOK'
  <2>1. run' \in [batch : SUBSET Copies, live : BOOLEAN] /\ itemFails' \in [Copies -> 0..3]
    BY DropTypes DEF BeginStop
  <2>2. limit' \in Nat /\ failures' \in 0..2 /\ seq' \in 0..MaxCopies
    BY <1>1, ConstantsAssumption
  <2>3. QED
    BY <1>1, <1>4, <2>1, <2>2 DEF TypeOK
<1>6. Counted'
  BY <1>1, ConstantsAssumption DEF Counted, Told, TypeOK
<1>7. Named' /\ Standing' /\ Fenced' /\ FedOnce'
  BY <1>1, <1>4 DEF Named, Standing, Fenced, FedOnce
<1>8. BatchWaits'
  BY <1>1 DEF BatchWaits, TypeOK
<1>9. Walks'
  BY <1>1, <1>3, <1>4 DEF Walks
<1>10. RoutedIsRecorded'
  BY <1>1, <1>4 DEF RoutedIsRecorded
<1>11. QED
  BY <1>5, <1>6, <1>7, <1>8, <1>9, <1>10

LEMMA ReconcileNextInv ==
  ASSUME IInv, NEW s \in Stops, ReconcileNext(s)
  PROVE  IInv'
<1> USE DEF IInv
<1>1. /\ stop[s].at = "reconcile"
      /\ UNCHANGED <<stored, seen, lock, attached, activated, mode, queue, consumed, seq, copies,
                     eventOf, old, request, attach, known, pending, members, dropped, limit,
                     failures, itemFails, run, overlapped, glitched, attaches, mishaps>>
  BY DEF ReconcileNext, record, coordinator, routed, reducer, bounds
<1>2. stop[s].left \in [Events -> Entry \cup {NoEntry}]
  BY DEF TypeOK
<1>3. ~overlapped => /\ ~attached /\ ~attached' /\ stop[s].left = inFlight /\ queue' = {}
                     /\ \A u \in Stops : u # s => stop[u].at # "reconcile"
  BY <1>1 DEF Walks, Standing
<1>4. /\ inFlight' \in [Events -> Entry \cup {NoEntry}]
      /\ outcome' \in [Events -> {"none", "consumed", "non_deliverable"}]
      /\ stop' \in [Stops -> [at : {"idle", "reconcile", "delete"},
                              left : [Events -> Entry \cup {NoEntry}]]]
      /\ \A f \in Events : inFlight'[f] # NoEntry =>
           inFlight'[f] = inFlight[f] /\ outcome'[f] = outcome[f]
      /\ \A u \in Stops : u # s => stop'[u] = stop[u]
      /\ ~overlapped => \/ stop'[s].at = "reconcile" /\ stop'[s].left = inFlight'
                        \/ stop'[s].at = "delete" /\ \A f \in Events : inFlight'[f] = NoEntry
  <2>1. CASE \E e \in Events : First(stop[s].left, e) /\ Reconcile(s, stop[s].left, e)
    BY <2>1, <1>2, <1>3, Reconciling
  <2>2. CASE /\ stop[s].left = Done.left /\ UNCHANGED ledger
             /\ stop' = [stop EXCEPT ![s].at = "delete"]
    <3>1. ~overlapped => \A f \in Events : inFlight[f] = NoEntry
      BY <2>2, <1>3, Blanks
    <3>2. QED
      BY <2>2, <1>2, <3>1 DEF ledger, TypeOK
  <2>3. QED
    BY <2>1, <2>2 DEF ReconcileNext
<1>5. TypeOK'
  BY <1>1, <1>4 DEF TypeOK
<1>6. Counted'
  BY <1>1, CountedKept DEF Told
<1>7. Named' /\ Standing' /\ BatchWaits'
  BY <1>1, <1>4 DEF Named, Standing, BatchWaits
<1>8. Fenced' /\ FedOnce'
  BY <1>1, <1>3 DEF Fenced, FedOnce
<1>9. Walks'
  BY <1>1, <1>3, <1>4 DEF Walks
<1>10. RoutedIsRecorded'
  BY <1>1, <1>3, <1>4 DEF RoutedIsRecorded
<1>11. QED
  BY <1>5, <1>6, <1>7, <1>8, <1>9, <1>10

LEMMA DeletionInv ==
  ASSUME IInv, NEW s \in Stops, BareStop(s) \/ Delete(s)
  PROVE  IInv'
<1> USE DEF IInv, record, coordinator, routed, ledger, reducer, bounds
<1>1. CASE BareStop(s)
  <2> USE <1>1 DEF BareStop
  <2>1. TypeOK'
    BY DEF TypeOK
  <2>2. Counted' /\ FedOnce' /\ BatchWaits'
    BY CountedKept, NothingFed DEF Told, BatchWaits
  <2>3. \A u \in Stops : /\ stop'[u].at = "reconcile" <=> stop[u].at = "reconcile"
                         /\ stop[u].at = "reconcile" => stop'[u].left = stop[u].left
    BY DEF TypeOK
  <2>4. QED
    BY <2>1, <2>2, <2>3, LedgerKept
<1>2. CASE Delete(s)
  <2> USE <1>2 DEF Delete
  <2>1. TypeOK'
    <3>1. stored' \in BOOLEAN /\ seen' \subseteq Events
      BY DEF TypeOK
    <3>2. stop' \in [Stops -> [at : {"idle", "reconcile", "delete"},
                              left : [Events -> Entry \cup {NoEntry}]]]
      BY Blanks DEF TypeOK
    <3>3. QED
      BY <3>1, <3>2 DEF TypeOK
  <2>2. Counted' /\ FedOnce' /\ BatchWaits'
    BY CountedKept, NothingFed DEF Told, BatchWaits
  <2>3. \A u \in Stops : /\ stop'[u].at = "reconcile" <=> stop[u].at = "reconcile"
                         /\ stop[u].at = "reconcile" => stop'[u].left = stop[u].left
    BY Blanks DEF TypeOK
  <2>4. QED
    BY <2>1, <2>2, <2>3, LedgerKept
<1>3. QED
  BY <1>1, <1>2

(***************************************************************************)
(* The reducer.                                                            *)
(***************************************************************************)
\* A batch moves from the waiting to the embedded or the given up, and only while its
\* state is there: what the reducer was told stays the same.
LEMMA ReduceInv ==
  ASSUME IInv, Reduce
  PROVE  IInv'
<1> USE DEF IInv, record, coordinator, routed, ledger, bounds
<1>1. UNCHANGED <<stored, seen, lock, attached, activated, mode, queue, consumed, seq, copies, eventOf,
                  inFlight, outcome, old, request, attach, stop, known, overlapped, attaches>>
  BY DEF Reduce, BeginRun, Embedded, EmbeddingFails, reducer
<1>2. glitched' \in BOOLEAN /\ mishaps' \in Nat
  <2>1. \/ UNCHANGED <<glitched, mishaps>>
        \/ glitched' = TRUE /\ mishaps' = mishaps + 1
    BY DEF Reduce, BeginRun, Embedded, EmbeddingFails, Mishap
  <2>2. glitched \in BOOLEAN /\ mishaps \in Nat
    BY DEF TypeOK
  <2>3. mishaps' \in Nat
    BY <2>1, <2>2
  <2>4. glitched' \in BOOLEAN
    BY <2>1, <2>2, Zenon
  <2>5. QED
    BY <2>3, <2>4
<1>3. /\ pending' \subseteq Copies /\ members' \subseteq Copies /\ dropped' \subseteq Copies
      /\ limit' \in Nat /\ failures' \in 0..2 /\ itemFails' \in [Copies -> 0..3]
      /\ run' \in [batch : SUBSET Copies, live : BOOLEAN] /\ Told' = Told /\ BatchWaits'
  <2>1. CASE BeginRun
    BY <2>1 DEF BeginRun, Front, reducer, TypeOK, Told, BatchWaits
  <2>2. CASE Embedded
    <3>1. run' = NoRun /\ NoRun \in [batch : SUBSET Copies, live : BOOLEAN] /\ BatchWaits'
      BY <2>2 DEF Embedded, NoRun, BatchWaits
    <3>2. CASE /\ run.live /\ members' = members \cup run.batch /\ pending' = pending \ run.batch
               /\ limit' = 0 /\ failures' = 0
               /\ itemFails' = [c \in Copies |-> IF c \in run.batch THEN 0 ELSE itemFails[c]]
      <4>1. run.batch \subseteq pending /\ dropped' = dropped
        BY <2>2, <3>2 DEF BatchWaits, Embedded
      <4>2. itemFails' \in [Copies -> 0..3]
        BY <3>2 DEF TypeOK
      <4>3. Told' = Told
        BY <3>2, <4>1 DEF Told
      <4>4. QED
        BY <3>1, <3>2, <4>1, <4>2, <4>3 DEF TypeOK
    <3>3. CASE ~run.live /\ UNCHANGED <<members, pending, limit, failures, itemFails>>
      BY <2>2, <3>1, <3>3 DEF Embedded, Told, TypeOK
    <3>4. QED
      BY <2>2, <3>2, <3>3 DEF Embedded
  <2>3. CASE EmbeddingFails
    <3>1. /\ run' = NoRun /\ NoRun \in [batch : SUBSET Copies, live : BOOLEAN] /\ BatchWaits'
          /\ members' = members
      BY <2>3 DEF EmbeddingFails, NoRun, BatchWaits
    <3>2. ASSUME NEW batch \in SUBSET Copies, batch \subseteq pending, NoteFailure(batch)
          PROVE  /\ pending' \subseteq Copies /\ dropped' \subseteq Copies
                 /\ limit' \in Nat /\ failures' \in 0..2 /\ itemFails' \in [Copies -> 0..3]
                 /\ pending' \cup dropped' = pending \cup dropped
      <4> DEFINE fails == [c \in Copies |->
                   IF c \in batch /\ itemFails[c] < 3 THEN itemFails[c] + 1 ELSE itemFails[c]]
                 hopeless == {c \in batch : batch = {c} /\ fails[c] = 3}
                 again == IF failures = 0 THEN 1 ELSE 2
      <4>1. /\ pending' = pending \ hopeless /\ dropped' = dropped \cup hopeless
            /\ itemFails' = [c \in Copies |-> IF c \in hopeless THEN 0 ELSE fails[c]]
            /\ failures' = IF hopeless # {} THEN 0 ELSE again
            /\ limit' = IF hopeless # {} THEN 0 ELSE Halved(batch, again)
        BY <3>2 DEF NoteFailure
      <4>2. Cardinality(batch) \in Nat
        BY Counting
      <4>3. Halved(batch, again) \in Nat
        BY <4>2 DEF Halved, TypeOK
      <4>4. fails \in [Copies -> 0..3] /\ hopeless \subseteq batch
        BY DEF TypeOK
      <4> HIDE DEF fails, hopeless, again
      <4>5. itemFails' \in [Copies -> 0..3]
        BY <4>1, <4>4
      <4>6. failures' \in 0..2 /\ limit' \in Nat
        BY <4>1, <4>3 DEF again
      <4>7. QED
        BY <3>2, <4>1, <4>4, <4>5, <4>6 DEF TypeOK
    <3>3. LET batch == IF run.live THEN run.batch ELSE {}
          IN  batch \in SUBSET Copies /\ batch \subseteq pending
      BY DEF BatchWaits, TypeOK
    <3>4. CASE known /\ NoteFailure(IF run.live THEN run.batch ELSE {})
      <4>1. pending' \cup dropped' = pending \cup dropped
        BY <3>2, <3>3, <3>4
      <4>2. Told' = Told
        BY <3>1, <4>1 DEF Told
      <4>3. QED
        BY <3>1, <3>2, <3>3, <3>4, <4>2 DEF TypeOK
    <3>5. CASE ~known /\ UNCHANGED <<pending, dropped, itemFails, failures, limit>>
      BY <3>1, <3>5 DEF Told, TypeOK
    <3>6. QED
      BY <2>3, <3>4, <3>5 DEF EmbeddingFails
  <2>4. QED
    BY <2>1, <2>2, <2>3 DEF Reduce
<1>4. TypeOK'
  BY <1>1, <1>2, <1>3 DEF TypeOK
<1>5. Counted' /\ FedOnce'
  BY <1>1, <1>3, CountedKept, NothingFed
<1>6. QED
  BY <1>1, <1>3, <1>4, <1>5, LedgerKept

(***************************************************************************)
(* The theorems.                                                           *)
(***************************************************************************)
LEMMA InvStep == IInv /\ [Next]_vars => IInv'
<1> SUFFICES ASSUME IInv, [Next]_vars PROVE IInv'
  OBVIOUS
<1>1. ASSUME NEW h \in Handlers, Handle(h) PROVE IInv'
  BY <1>1, RefuseInv, RouteInv, NotReadyInv, AcceptInv DEF Handle
<1>2. ASSUME NEW h \in Handlers, NEW e \in Events, Deliver(h, e) PROVE IInv'
  BY <1>2, DeliverInv
<1>3. ASSUME NEW s \in Stops, BeginStop(s) \/ BareStop(s) \/ ReconcileNext(s) \/ Delete(s)
      PROVE  IInv'
  BY <1>3, BeginStopInv, ReconcileNextInv, DeletionInv
<1>4. CASE (\E e \in Events : Age(e) \/ Forget(e)) \/ BeginAttach \/ Activate \/ LoseLock
  BY <1>4, EnvironmentInv
<1>5. CASE Start \/ Tick \/ Reduce
  BY <1>5, StartInv, TickInv, ReduceInv
<1>6. CASE UNCHANGED vars
  <2> USE <1>6 DEF vars, IInv, record, coordinator, routed, ledger, reducer, bounds
  <2>1. TypeOK'
    BY DEF TypeOK
  <2>2. Counted' /\ FedOnce' /\ BatchWaits'
    BY CountedKept, NothingFed DEF Told, BatchWaits
  <2>3. QED
    BY <2>1, <2>2, LedgerKept
<1>7. QED
  BY <1>1, <1>2, <1>3, <1>4, <1>5, <1>6 DEF Next, Attach

\* The ledger, the queue, the stops and the reducer always stand in these relations.
THEOREM Invariance == Spec => []IInv
<1>1. Init => IInv
  BY InvInit
<1>2. IInv /\ [Next]_vars => IInv'
  BY InvStep
<1>3. QED
  BY <1>1, <1>2, PTL DEF Spec

\* Every variable keeps its type.
THEOREM TypeCorrect == Spec => []TypeOK
<1>1. IInv => TypeOK
  BY DEF IInv
<1>2. QED
  BY <1>1, Invariance, PTL

\* The reducer of an attached session is told of consumed events only, and of each once.
THEOREM EventsAreFedOnce == Spec => []FedOnce
<1>1. IInv => FedOnce
  BY DEF IInv
<1>2. QED
  BY <1>1, Invariance, PTL

\* The ledger answers for every comment that was routed.
THEOREM CommentsAreRecorded == Spec => []RoutedIsRecorded
<1>1. IInv => RoutedIsRecorded
  BY DEF IInv
<1>2. QED
  BY <1>1, Invariance, PTL
===============================================================================
