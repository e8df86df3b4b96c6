------------------------------- MODULE Comments -------------------------------
(***************************************************************************)
(* The way of viewers' comments into one approved session:                 *)
(* PlatformEventIngestionService routes an event into the coordinator's    *)
(* ChatQueue and keeps a ledger of what is in flight; the tick consumes the *)
(* queue and feeds the FastReducer, which embeds in the background; a stop *)
(* drops the queue and reconciles the ledger, one audit after the other.   *)
(* Requests opt in to delivery outcomes.  Several copies of an event may be *)
(* routed: the API retries, and the deduplication record is written last.  *)
(* Copies are numbered in the order of their routing.                      *)
(***************************************************************************)
EXTENDS Integers, FiniteSets

CONSTANTS
  Events,         \* canonical comment events
  Poison,         \* those whose text cannot be embedded
  Handlers,       \* requests that deliver events
  Stops,          \* requests that stop the session
  Free,           \* nobody has the session lock
  NoEntry,        \* no ledger entry
  Size,           \* ChatQueue.max_size
  MaxCopies,      \* bound: copies routed
  MaxAttaches,    \* bound: attach requests
  MaxMishaps      \* bound: lock leases that run out, deduplication records whose
                  \* write fails or that are forgotten, embeddings that fail for once

ASSUME ConstantsAssumption ==
  /\ IsFiniteSet(Events) /\ Events # {} /\ Poison \subseteq Events /\ Free \notin Handlers
  /\ NoEntry \notin [copy : Nat, seq : Nat]
  /\ Size \in Nat \ {0} /\ MaxCopies \in Nat /\ MaxAttaches \in Nat
  /\ MaxMishaps \in Nat

VARIABLES
  stored,     \* the session's record exists
  seen,       \* its deduplication records
  lock,       \* holder of the session lock
  attached,   \* the coordinator has the session
  activated,  \* its tick runs
  mode,       \* reducer mode is on
  queue,      \* ChatQueue: copies
  consumed,   \* those of them that were consumed
  seq,        \* delivery counter of this attachment
  copies,     \* how many copies were routed
  eventOf,    \* the event of each
  inFlight,   \* ledger: routed and not yet consumed
  outcome,    \* ledger: terminal outcomes
  old,        \* events that left the selection window
  request,    \* handlers: where they are, and with which event
  attach,     \* the attach request
  stop,       \* stops: where they are, and the entries they still reconcile
  known,      \* reducer: the session has a state
  pending,    \* copies to be embedded
  members,    \* copies embedded and clustered
  dropped,    \* copies given up (quarantine)
  limit,      \* size to which a failing batch was cut; 0: all of it
  failures,   \* failures in a row (2: at least two)
  itemFails,  \* failures of each copy (3: at least three)
  run,        \* the batch being embedded, and whether its state is still there
  overlapped, \* history: an attachment began while a stop reconciled
  glitched,   \* history: an embedding failed for once
  attaches, mishaps

record == <<stored, seen>>
coordinator == <<attached, activated, mode, queue, consumed, seq>>
routed == <<copies, eventOf>>
ledger == <<inFlight, outcome>>
reducer == <<known, pending, members, dropped, limit, failures, itemFails>>
bounds == <<glitched, attaches, mishaps>>
vars == <<record, lock, coordinator, routed, ledger, old, request, attach, stop, reducer, run,
          overlapped, bounds>>

Copies == 1..MaxCopies
Entry == [copy : Copies, seq : Copies]
Idle == [at |-> "idle", event |-> CHOOSE e \in Events : TRUE, copy |-> 0]
NoRun == [batch |-> {}, live |-> FALSE]
Done == [at |-> "idle", left |-> [e \in Events |-> NoEntry]]

Init ==
  /\ stored = TRUE /\ seen = {} /\ lock = Free
  /\ attached = FALSE /\ activated = FALSE /\ mode = FALSE
  /\ queue = {} /\ consumed = {} /\ seq = 0
  /\ copies = 0 /\ eventOf = [c \in Copies |-> Idle.event]
  /\ inFlight = [e \in Events |-> NoEntry] /\ outcome = [e \in Events |-> "none"] /\ old = {}
  /\ request = [h \in Handlers |-> Idle]
  /\ attach = [open |-> FALSE, had |-> FALSE] /\ stop = [s \in Stops |-> Done]
  /\ known = FALSE /\ pending = {} /\ members = {} /\ dropped = {}
  /\ limit = 0 /\ failures = 0 /\ itemFails = [c \in Copies |-> 0] /\ run = NoRun
  /\ overlapped = FALSE /\ glitched = FALSE
  /\ attaches = 0 /\ mishaps = 0

(***************************************************************************)
(* The reducer's intake.                                                   *)
(***************************************************************************)
\* notify_new_events: the state is made if there is none.
Notify(S) ==
  /\ known' = (known \/ S # {}) /\ pending' = pending \cup S
  /\ UNCHANGED <<members, dropped, limit, failures, itemFails>>

\* drop_session; a batch being embedded is no longer its state's.
Drop ==
  /\ pending' = {} /\ members' = {} /\ dropped' = {}
  /\ limit' = 0 /\ failures' = 0 /\ itemFails' = [c \in Copies |-> 0]
  /\ run' = [run EXCEPT !.live = FALSE]

(***************************************************************************)
(* Delivering an event.                                                    *)
(***************************************************************************)
Mishap == mishaps < MaxMishaps /\ mishaps' = mishaps + 1

\* Only a handler that still has the lock gives it back.
Unlock(h) == lock' = IF lock = h THEN Free ELSE lock

\* ingest up to the fenced write of the safety decision.  A duplicate, a comment
\* turned down before, and one of a deleted session change nothing.
Deliver(h, e) ==
  /\ request[h].at = "idle" /\ lock = Free /\ stored /\ e \notin seen
  /\ copies < MaxCopies
  /\ lock' = h /\ request' = [request EXCEPT ![h] = [at |-> "route", event |-> e, copy |-> 0]]
  /\ UNCHANGED <<record, coordinator, routed, ledger, old, attach, stop, reducer, run, overlapped,
                 bounds>>

\* The safety gate refuses the comment: it counts as seen, but for a flood.
Refuse(h) ==
  /\ request[h].at = "route" /\ request' = [request EXCEPT ![h] = Idle] /\ Unlock(h)
  /\ \/ lock = h /\ seen' = seen \cup {request[h].event}
     \/ UNCHANGED seen
  /\ UNCHANGED <<stored, coordinator, routed, ledger, old, attach, stop, reducer, run, overlapped,
                 bounds>>

\* ChatQueue.free_slots.
FreeSlots == Size - Cardinality(queue \ consumed)

\* ChatQueue.put: beyond its size the oldest consumed comment goes, or else the oldest.
Evicted ==
  LET victims == IF queue \cap consumed = {} THEN queue ELSE queue \cap consumed
  IN IF Cardinality(queue) < Size THEN {}
     ELSE {v \in victims : \A w \in victims : v <= w}

\* Mutant: every outcome is final.
TrackedOnce(e, c) ==
  IF inFlight[e] # NoEntry \/ outcome[e] # "none" THEN inFlight
  ELSE [inFlight EXCEPT ![e] = [copy |-> c, seq |-> seq + 1]]

\* _track_routed: an entry stays, and a consumed event gets none.
Tracked(e, c) ==
  IF inFlight[e] # NoEntry \/ outcome[e] = "consumed" THEN inFlight
  ELSE [inFlight EXCEPT ![e] = [copy |-> c, seq |-> seq + 1]]

\* _route_comment and _track_routed, in one piece.
Route(h) ==
  /\ request[h].at = "route" /\ attached /\ FreeSlots > 0 /\ copies < MaxCopies
  /\ LET e == request[h].event
         c == copies + 1
     IN /\ copies' = c /\ eventOf' = [eventOf EXCEPT ![c] = e]
        /\ queue' = (queue \ Evicted) \cup {c} /\ consumed' = consumed \ Evicted
        /\ seq' = seq + 1 /\ inFlight' = Tracked(e, c)
        /\ request' = [request EXCEPT ![h] = [at |-> "persist", event |-> e, copy |-> c]]
  /\ UNCHANGED <<record, lock, attached, activated, mode, outcome, old, attach, stop, reducer, run,
                 overlapped, bounds>>

\* No coordinator, or a full queue: the answer is not_ready, the identity stays free.
NotReady(h) ==
  /\ request[h].at = "route" /\ (~attached \/ FreeSlots = 0)
  /\ request' = [request EXCEPT ![h] = Idle] /\ Unlock(h)
  /\ UNCHANGED <<record, coordinator, routed, ledger, old, attach, stop, reducer, run, overlapped,
                 bounds>>

\* Mutant: the reducer is told at once in either mode.
ToldAlways(h) == {request[h].copy}

\* _reducer_deferral_active: outside reducer mode the reducer is told at once.
ToldAtOnce(h) == IF mode THEN {} ELSE {request[h].copy}

\* After _persist_accepted; the deduplication record is written last, if the lock
\* is still held and nothing fails.
Accept(h) ==
  /\ request[h].at = "persist" /\ request' = [request EXCEPT ![h] = Idle] /\ Unlock(h)
  /\ Notify(ToldAtOnce(h))
  /\ \/ lock = h /\ seen' = seen \cup {request[h].event} /\ UNCHANGED mishaps
     \/ lock # h /\ UNCHANGED <<seen, mishaps>>
     \/ lock = h /\ Mishap /\ UNCHANGED seen
  /\ UNCHANGED <<stored, coordinator, routed, ledger, old, attach, stop, run, overlapped, glitched,
                 attaches>>

\* The lease of the lock runs out under its holder.
LoseLock ==
  /\ lock # Free /\ lock' = Free /\ Mishap
  /\ UNCHANGED <<record, coordinator, routed, ledger, old, request, attach, stop, reducer, run,
                 overlapped, glitched, attaches>>

\* A deduplication record is forgotten after an hour, or when a thousand came after it.
Forget(e) ==
  /\ e \in seen /\ seen' = seen \ {e} /\ Mishap
  /\ UNCHANGED <<stored, lock, coordinator, routed, ledger, old, request, attach, stop, reducer,
                 run, overlapped, glitched, attaches>>

(***************************************************************************)
(* The coordinator.                                                        *)
(***************************************************************************)
\* sessions_attach up to Director.attach.
BeginAttach ==
  /\ ~attach.open /\ stored /\ attaches < MaxAttaches /\ attaches' = attaches + 1
  /\ attach' = [open |-> TRUE, had |-> attached]
  /\ UNCHANGED <<record, lock, coordinator, routed, ledger, old, request, stop, reducer, run,
                 overlapped, glitched, mishaps>>

\* A coordinator seen before is only given the catalog; otherwise start makes one,
\* with an empty queue and an empty reducer.  Then reducer mode is set, unless the
\* coordinator seen before was stopped and its catalog is gone.
Start ==
  /\ attach.open /\ attach' = [open |-> FALSE, had |-> FALSE]
  /\ \/ /\ attach.had \/ attached
        /\ mode' = TRUE /\ known' = TRUE
        /\ UNCHANGED <<attached, activated, queue, consumed, pending, members, dropped, limit,
                       failures, itemFails, run, overlapped>>
     \/ attach.had /\ ~attached /\ UNCHANGED <<coordinator, reducer, run, overlapped>>
     \/ /\ ~attach.had /\ ~attached
        /\ attached' = TRUE /\ activated' = FALSE /\ mode' = TRUE
        /\ queue' = {} /\ consumed' = {} /\ known' = TRUE /\ Drop
        /\ overlapped' = (overlapped \/ \E s \in Stops : stop[s].at = "reconcile")
  /\ UNCHANGED <<record, lock, seq, routed, ledger, old, request, stop, bounds>>

\* The execution's start command.
Activate ==
  /\ attached /\ ~activated /\ activated' = TRUE
  /\ UNCHANGED <<record, lock, attached, mode, queue, consumed, seq, routed, ledger, old, request,
                 attach, stop, reducer, run, overlapped, bounds>>

\* Seventy-five seconds later.
Age(e) ==
  /\ e \notin old /\ old' = old \cup {e}
  /\ UNCHANGED <<record, lock, coordinator, routed, ledger, request, attach, stop, reducer, run,
                 overlapped, bounds>>

\* What a tick finds in the window and has not consumed.
Fresh == {c \in queue \ consumed : eventOf[c] \notin old}

\* _tick_once in reducer mode, with mark_consumed of the ledger.
Tick ==
  /\ attached /\ activated /\ Fresh # {}
  /\ consumed' = consumed \cup Fresh
  /\ LET eaten == {e \in Events : inFlight[e] # NoEntry /\ inFlight[e].copy \in Fresh}
     IN /\ Notify({inFlight[e].copy : e \in eaten})
        /\ outcome' = [e \in Events |-> IF e \in eaten THEN "consumed" ELSE outcome[e]]
        /\ inFlight' = [e \in Events |-> IF e \in eaten THEN NoEntry ELSE inFlight[e]]
  /\ UNCHANGED <<record, lock, attached, activated, mode, queue, seq, routed, old, request, attach,
                 stop, run, overlapped, bounds>>

(***************************************************************************)
(* The stop.                                                               *)
(***************************************************************************)
\* One entry becomes non_deliverable.  An entry somebody else took meanwhile ends
\* the stop with a KeyError.
Reconcile(s, left, e) ==
  /\ outcome' = [outcome EXCEPT ![e] = "non_deliverable"]
  /\ inFlight' = [inFlight EXCEPT ![e] = NoEntry]
  /\ stop' = [stop EXCEPT ![s] =
       IF inFlight[e] = NoEntry THEN Done
       ELSE [at |-> "reconcile", left |-> [left EXCEPT ![e] = NoEntry]]]

\* The oldest entry comes first.
First(left, e) ==
  left[e] # NoEntry /\ \A f \in Events : left[f] # NoEntry => left[e].copy <= left[f].copy

\* Mutant: the consumed marks stay.
TearDownUnmarked ==
  /\ attached' = FALSE /\ activated' = FALSE /\ mode' = FALSE
  /\ queue' = {} /\ consumed' = consumed /\ seq' = 0

\* coordinator.stop; the delivery counter goes with the queue.
TearDown ==
  /\ attached' = FALSE /\ activated' = FALSE /\ mode' = FALSE
  /\ queue' = {} /\ consumed' = {} /\ seq' = 0

\* Mutant: the last delivery counts as newer than the teardown.
LeftBelow == [e \in Events |->
  IF inFlight[e] # NoEntry /\ inFlight[e].seq < seq THEN inFlight[e] ELSE NoEntry]

\* The entries of reconcile_session's copy it will not skip.
Left == [e \in Events |->
  IF inFlight[e] # NoEntry /\ inFlight[e].seq <= seq THEN inFlight[e] ELSE NoEntry]

\* The teardown, with the first entry before the first await.
BeginStop(s) ==
  /\ stop[s].at = "idle" /\ attached /\ TearDown
  /\ known' = FALSE /\ Drop
  /\ \/ \E e \in Events : First(Left, e) /\ Reconcile(s, Left, e)
     \/ /\ Left = Done.left /\ UNCHANGED ledger
        /\ stop' = [stop EXCEPT ![s] = [at |-> "delete", left |-> Left]]
  /\ UNCHANGED <<record, lock, routed, old, request, attach, overlapped, bounds>>

\* A stop that finds no coordinator.
BareStop(s) ==
  /\ stop[s].at = "idle" /\ ~attached /\ stored
  /\ stop' = [stop EXCEPT ![s].at = "delete"]
  /\ UNCHANGED <<record, lock, coordinator, routed, ledger, old, request, attach, reducer, run,
                 overlapped, bounds>>

\* The next entry, after the audit of the one before.
ReconcileNext(s) ==
  /\ stop[s].at = "reconcile"
  /\ \/ \E e \in Events : First(stop[s].left, e) /\ Reconcile(s, stop[s].left, e)
     \/ /\ stop[s].left = Done.left /\ UNCHANGED ledger
        /\ stop' = [stop EXCEPT ![s].at = "delete"]
  /\ UNCHANGED <<record, lock, coordinator, routed, old, request, attach, reducer, run, overlapped,
                 bounds>>

\* The teardown under the lock; the record goes, or is kept for a later stop.
Delete(s) ==
  /\ stop[s].at = "delete" /\ lock = Free /\ stop' = [stop EXCEPT ![s] = Done]
  /\ \/ stored' = FALSE /\ seen' = {}
     \/ UNCHANGED record
  /\ UNCHANGED <<lock, coordinator, routed, ledger, old, request, attach, reducer, run, overlapped,
                 bounds>>

(***************************************************************************)
(* The reducer.                                                            *)
(***************************************************************************)
\* The first n copies.
Front(S, n) == {c \in S : Cardinality({d \in S : d < c}) < n}

\* run_once takes a batch and hands it to the embedder.
BeginRun ==
  /\ run.batch = {} /\ pending # {}
  /\ run' = [batch |-> IF limit = 0 THEN pending ELSE Front(pending, limit), live |-> TRUE]
  /\ UNCHANGED <<record, lock, coordinator, routed, ledger, old, request, attach, stop, reducer,
                 overlapped, bounds>>

Poisoned == \E c \in run.batch : eventOf[c] \in Poison

\* _process_batch after the embedding: nothing is kept for a state that is gone.
Embedded ==
  /\ run.batch # {} /\ ~Poisoned /\ run' = NoRun
  /\ \/ /\ run.live /\ members' = members \cup run.batch /\ pending' = pending \ run.batch
        /\ limit' = 0 /\ failures' = 0
        /\ itemFails' = [c \in Copies |-> IF c \in run.batch THEN 0 ELSE itemFails[c]]
     \/ ~run.live /\ UNCHANGED <<members, pending, limit, failures, itemFails>>
  /\ UNCHANGED <<record, lock, coordinator, routed, ledger, old, request, attach, stop, known,
                 dropped, overlapped, bounds>>

\* Mutant: a failing batch is tried again as it is.
NeverHalved(batch, n) == limit

\* The size of the next attempt after the n-th failure in a row of a batch.
Halved(batch, n) ==
  IF n = 2 /\ Cardinality(batch) > 1 THEN Cardinality(batch) \div 2 ELSE limit

\* _note_failure, on the state the session has now; of another's batch it knows nothing.
NoteFailure(batch) ==
  LET fails == [c \in Copies |->
        IF c \in batch /\ itemFails[c] < 3 THEN itemFails[c] + 1 ELSE itemFails[c]]
      hopeless == {c \in batch : batch = {c} /\ fails[c] = 3}
      again == IF failures = 0 THEN 1 ELSE 2
  IN /\ pending' = pending \ hopeless /\ dropped' = dropped \cup hopeless
     /\ itemFails' = [c \in Copies |-> IF c \in hopeless THEN 0 ELSE fails[c]]
     /\ failures' = IF hopeless # {} THEN 0 ELSE again
     /\ limit' = IF hopeless # {} THEN 0 ELSE Halved(batch, again)

\* The embedder raises: always for a comment it cannot read, or for once.
EmbeddingFails ==
  /\ run.batch # {} /\ run' = NoRun
  /\ \/ Poisoned /\ UNCHANGED <<glitched, mishaps>>
     \/ ~Poisoned /\ glitched' = TRUE /\ Mishap
  /\ \/ known /\ NoteFailure(IF run.live THEN run.batch ELSE {})
     \/ ~known /\ UNCHANGED <<pending, dropped, itemFails, failures, limit>>
  /\ UNCHANGED <<record, lock, coordinator, routed, ledger, old, request, attach, stop, known,
                 members, overlapped, attaches>>

(***************************************************************************)
(* The specification.                                                      *)
(***************************************************************************)
Handle(h) == Refuse(h) \/ Route(h) \/ NotReady(h) \/ Accept(h)
Reduce == BeginRun \/ Embedded \/ EmbeddingFails
Attach == BeginAttach \/ Start

Next ==
  \/ \E h \in Handlers : Handle(h) \/ \E e \in Events : Deliver(h, e)
  \/ \E s \in Stops : BeginStop(s) \/ BareStop(s) \/ ReconcileNext(s) \/ Delete(s)
  \/ \E e \in Events : Age(e) \/ Forget(e)
  \/ Attach \/ Activate \/ Tick \/ Reduce \/ LoseLock

Fairness ==
  /\ \A h \in Handlers : WF_vars(Handle(h))
  /\ \A s \in Stops : WF_vars(ReconcileNext(s))
  /\ WF_vars(Tick) /\ WF_vars(Reduce)

Spec == Init /\ [][Next]_vars /\ Fairness

(***************************************************************************)
(* What must hold.                                                         *)
(***************************************************************************)
\* Types of every variable.
TypeOK ==
  /\ stored \in BOOLEAN /\ seen \subseteq Events /\ lock \in Handlers \cup {Free}
  /\ attached \in BOOLEAN /\ activated \in BOOLEAN /\ mode \in BOOLEAN
  /\ queue \subseteq Copies /\ consumed \subseteq queue /\ seq \in 0..MaxCopies
  /\ copies \in 0..MaxCopies /\ eventOf \in [Copies -> Events]
  /\ inFlight \in [Events -> Entry \cup {NoEntry}]
  /\ outcome \in [Events -> {"none", "consumed", "non_deliverable"}] /\ old \subseteq Events
  /\ request \in [Handlers -> [at : {"idle", "route", "persist"}, event : Events,
                               copy : 0..MaxCopies]]
  /\ attach \in [open : BOOLEAN, had : BOOLEAN]
  /\ stop \in [Stops -> [at : {"idle", "reconcile", "delete"},
                         left : [Events -> Entry \cup {NoEntry}]]]
  /\ known \in BOOLEAN /\ pending \subseteq Copies /\ members \subseteq Copies
  /\ dropped \subseteq Copies /\ limit \in Nat /\ failures \in 0..2
  /\ itemFails \in [Copies -> 0..3] /\ run \in [batch : SUBSET Copies, live : BOOLEAN]
  /\ overlapped \in BOOLEAN /\ glitched \in BOOLEAN /\ attaches \in Nat
  /\ mishaps \in Nat

\* What the reducer has been told of and has not dropped with a session.
Told == pending \cup members \cup dropped

\* A reducer that is asked for demand was told of consumed events only, and of none
\* of them twice, however often an event was routed and its copies were queued.
FedOnce ==
  attached /\ ~overlapped =>
    \A c \in Told : /\ outcome[eventOf[c]] = "consumed"
                     /\ \A d \in Told : eventOf[c] = eventOf[d] => c = d

\* The ledger answers for every comment: one in flight is in the queue and not yet
\* consumed, or a teardown has still to declare it lost; one in the queue is in
\* flight, or its event was consumed before.
RoutedIsRecorded ==
  ~overlapped =>
    /\ \A e \in Events : inFlight[e] # NoEntry =>
         IF attached THEN inFlight[e].copy \in queue \ consumed
         ELSE \E s \in Stops : stop[s].at = "reconcile" /\ stop[s].left[e] = inFlight[e]
    /\ \A c \in queue : inFlight[eventOf[c]] # NoEntry \/ outcome[eventOf[c]] = "consumed"

\* A comment that was routed is consumed or declared lost in the end, unless the
\* stream is never started or the comment leaves the tick's window first.
RoutedSettles == \A e \in Events :
  inFlight[e] # NoEntry ~>
    (inFlight[e] = NoEntry \/ overlapped \/ (attached /\ (e \in old \/ ~activated)))

\* A comment the embedder can read is embedded in the end, or goes with its session:
\* one that cannot be read holds nobody up and takes nobody along.
HealthyGetThrough == \A c \in Copies :
  (c \in pending /\ eventOf[c] \notin Poison) ~>
    (c \notin pending /\ (c \notin dropped \/ glitched))
===============================================================================
