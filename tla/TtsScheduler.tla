---------------------------- MODULE TtsScheduler -----------------------------
(***************************************************************************)
(* The TTS service's dispatch runtime (tts/scheduler/runtime.py) with its  *)
(* admission accounting (admission.py) and its selection policy            *)
(* (TtsFairness).  One event loop runs the callers' submit() coroutines    *)
(* and one dispatcher task: code between two awaits is atomic, so callers  *)
(* act only while the dispatcher waits: for work ("idle") or for the       *)
(* provider ("call").                                                      *)
(***************************************************************************)
EXTENDS TtsFairness, FiniteSets

CONSTANTS
  KeyOf,         \* the provider's batch key of a caller's request
  MaxBatch,      \* min(service, provider) batch size; 1 without native batches
  Coalesce,      \* coalesce_window_ms > 0
  GlobalLimit,   \* global_pending_limit
  SessionLimit,  \* per_session_pending_limit
  LastAge,       \* bound: the oldest a request gets, in stages
  Brisk,         \* bound: a request passes at most one stage between two rounds
  MayDisconnect, \* callers that may go away
  MayFail,       \* the provider may fail a batch or a member
  MayClose       \* the service may shut down

\* The stages of a waiting request, in the order of the default thresholds:
\* aging (5 s), dispatch deadline (deadline - 3 s), deadline (30 s).
Fresh == 0
Aged == 1
Urgent == 2
Overdue == 3

ASSUME SchedulerAssumption ==
  /\ IsFiniteSet(Callers) /\ DOMAIN KeyOf = Callers /\ MayDisconnect \subseteq Callers
  /\ {MaxBatch, GlobalLimit, SessionLimit} \subseteq Nat \ {0} /\ LastAge \in Fresh..Overdue
  /\ {Coalesce, Brisk, MayFail, MayClose} \subseteq BOOLEAN

VARIABLES
  caller,          \* "away", "waiting" for its completion, "leaving" (cancelled)
  completion,      \* the future submit() awaits
  state,           \* PendingRequest.state
  cancelled,       \* PendingRequest.cancelled
  age,             \* how long it has waited
  ticked,          \* if Brisk: the requests that aged since the last round
  population,      \* pending requests, in admission order
  flight,          \* _in_flight
  accepted,        \* _request_ids
  globalPending,   \* _global_pending
  sessionPending,  \* _session_pending
  window,          \* _open_window_at: "closed" (None), "open" or "elapsed"
  wake,            \* _wake is set
  pc,              \* the dispatcher task
  groups,          \* batches of this round still to be dispatched
  batch            \* the batch the provider is working on

request == <<caller, completion, state, cancelled, age>>
clock == <<window, ticked>>
admission == <<accepted, globalPending, sessionPending>>
dispatcher == <<pc, groups, batch>>
vars == <<request, population, flight, admission, clock, wake, dispatcher>>

PendingState == {"none", "pending", "in_flight", "done", "cancelled", "failed"}

Init ==
  /\ caller = [c \in Callers |-> "away"] /\ completion = [c \in Callers |-> "none"]
  /\ state = [c \in Callers |-> "none"] /\ cancelled = [c \in Callers |-> FALSE]
  /\ age = [c \in Callers |-> Fresh] /\ ticked = {}
  /\ population = << >> /\ flight = {}
  /\ accepted = {} /\ globalPending = 0 /\ sessionPending = [s \in Sessions |-> 0]
  /\ window = "closed" /\ wake = FALSE /\ pc = "idle" /\ groups = << >> /\ batch = << >>

Waiting == ToSet(population)
InRound == UNION {ToSet(groups[i]) : i \in DOMAIN groups}

\* The event loop runs callers and timers while no dispatcher code is running.
LoopFree == pc \in {"idle", "call", "dead", "closed"}

(***************************************************************************)
(* Admission accounting.                                                   *)
(***************************************************************************)
\* Mutant: a request that holds no capacity any more returns it again.
ReleaseAgain(S) ==
  /\ accepted' = accepted \ S /\ globalPending' = globalPending - Cardinality(S)
  /\ sessionPending' =
       [s \in Sessions |-> sessionPending[s] - Cardinality({c \in S : SessionOf[c] = s})]

\* release, for each request of S: only one that still holds capacity returns it.
Release(S) ==
  LET held == S \cap accepted IN
  /\ accepted' = accepted \ held
  /\ globalPending' = globalPending - Cardinality(held)
  /\ sessionPending' =
       [s \in Sessions |-> sessionPending[s] - Cardinality({c \in held : SessionOf[c] = s})]

(***************************************************************************)
(* Callers.                                                                *)
(***************************************************************************)
\* Nothing of the caller's previous request is left (ids are fresh uuids).
Gone(c) == c \notin Waiting \cup flight \cup InRound \cup ToSet(batch)

\* A rejected request (429) changes nothing.
Admissible(c) ==
  /\ c \notin accepted /\ globalPending < GlobalLimit
  /\ sessionPending[SessionOf[c]] < SessionLimit

Submit(c) ==
  /\ LoopFree /\ caller[c] = "away" /\ Gone(c) /\ Admissible(c)
  /\ accepted' = accepted \cup {c} /\ globalPending' = globalPending + 1
  /\ sessionPending' = [sessionPending EXCEPT ![SessionOf[c]] = @ + 1]
  /\ caller' = [caller EXCEPT ![c] = "waiting"]
  /\ completion' = [completion EXCEPT ![c] = "open"]
  /\ state' = [state EXCEPT ![c] = "pending"] /\ cancelled' = [cancelled EXCEPT ![c] = FALSE]
  /\ age' = [age EXCEPT ![c] = Fresh]
  /\ population' = Append(population, c)
  /\ window' = IF window = "closed" /\ Coalesce THEN "open" ELSE window
  /\ wake' = TRUE
  /\ ticked' = ticked \ {c}
  /\ UNCHANGED <<flight, dispatcher>>

\* Age is kept only while a request waits.
NotWaiting(S) == [d \in Callers |-> IF d \in S THEN Fresh ELSE age[d]]

\* The request object is garbage.
Forget(c) ==
  /\ completion' = [completion EXCEPT ![c] = "none"] /\ state' = [state EXCEPT ![c] = "none"]
  /\ age' = NotWaiting({c})

\* The completion is resolved and the caller gets its result or its error.
Return(c) ==
  /\ LoopFree /\ caller[c] = "waiting" /\ completion[c] \in {"result", "error"}
  /\ caller' = [caller EXCEPT ![c] = "away"] /\ Forget(c)
  /\ UNCHANGED <<cancelled, population, flight, admission, clock, wake, dispatcher>>

\* The caller disconnects: its task is cancelled, and with it the future it awaits.
Disconnect(c) ==
  /\ LoopFree /\ c \in MayDisconnect /\ caller[c] = "waiting"
  /\ caller' = [caller EXCEPT ![c] = "leaving"]
  /\ completion' = [completion EXCEPT ![c] = IF @ = "open" THEN "dropped" ELSE @]
  /\ UNCHANGED <<state, cancelled, age, population, flight, admission, clock, wake, dispatcher>>

\* Mutant: a request cancelled while pending keeps its capacity.
CancelKeepingCapacity(c) ==
  /\ LoopFree /\ caller[c] = "leaving" /\ caller' = [caller EXCEPT ![c] = "away"]
  /\ \/ /\ c \notin flight \cup Waiting /\ Forget(c) /\ UNCHANGED <<cancelled, population, wake>>
     \/ /\ c \in flight \cup Waiting /\ cancelled' = [cancelled EXCEPT ![c] = TRUE]
        /\ \/ state[c] = "in_flight" /\ UNCHANGED <<state, age, population, wake>>
           \/ /\ state[c] # "in_flight" /\ state' = [state EXCEPT ![c] = "cancelled"]
              /\ age' = NotWaiting({c}) /\ population' = Without(population, {c}) /\ wake' = TRUE
        /\ UNCHANGED completion
  /\ UNCHANGED <<flight, admission, clock, dispatcher>>

\* submit()'s except branch: cancel() removes a pending request and marks one
\* in flight, whose result will be discarded.
Cancel(c) ==
  /\ LoopFree /\ caller[c] = "leaving" /\ caller' = [caller EXCEPT ![c] = "away"]
  /\ \/ /\ c \notin flight \cup Waiting /\ Forget(c)
        /\ UNCHANGED <<cancelled, population, admission, wake>>
     \/ /\ c \in flight \cup Waiting /\ cancelled' = [cancelled EXCEPT ![c] = TRUE]
        /\ \/ state[c] = "in_flight" /\ UNCHANGED <<state, age, population, admission, wake>>
           \/ /\ state[c] # "in_flight" /\ state' = [state EXCEPT ![c] = "cancelled"]
              /\ age' = NotWaiting({c}) /\ population' = Without(population, {c})
              /\ Release({c}) /\ wake' = TRUE
        /\ UNCHANGED completion
  /\ UNCHANGED <<flight, clock, dispatcher>>

(***************************************************************************)
(* Time.                                                                   *)
(***************************************************************************)
\* A request reaches its next threshold, after those admitted before it.
Elapse(c) ==
  /\ LoopFree /\ c \in Waiting /\ age[c] < LastAge /\ c \notin ticked
  /\ \A i, j \in DOMAIN population :
       i < j /\ population[j] = c => age[population[i]] > age[c]
  /\ age' = [age EXCEPT ![c] = @ + 1]
  /\ ticked' = IF Brisk THEN ticked \cup {c} ELSE ticked
  /\ UNCHANGED <<caller, completion, state, cancelled, population, flight, admission, window,
                 wake, dispatcher>>

WindowElapses ==
  /\ LoopFree /\ window = "open" /\ window' = "elapsed"
  /\ UNCHANGED <<request, population, flight, admission, ticked, wake, dispatcher>>

Time == WindowElapses \/ \E c \in Callers : Elapse(c)

(***************************************************************************)
(* The dispatcher.                                                         *)
(***************************************************************************)
\* _run_dispatcher: woken, or polling because a window is open.
Wake ==
  /\ pc = "idle" /\ (wake \/ window # "closed")
  /\ wake' = FALSE /\ pc' = "select"
  /\ UNCHANGED <<request, population, flight, admission, clock, groups, batch>>

Older(S, a) == {c \in S : age[c] >= a}

\* The groups of a round: urgent ones first, the others by size.
Grouped(candidates, urgent) ==
  LET keys == {KeyOf[c] : c \in ToSet(candidates)}
      group(k) == Only(candidates, {c \in Callers : KeyOf[c] = k})
      hurried(k) == \E c \in urgent : KeyOf[c] = k
      position(k) == SelectInSeq(candidates, LAMBDA c : KeyOf[c] = k)
      before(k, l) ==
        IF hurried(k) # hurried(l) THEN hurried(k)
        ELSE IF ~hurried(k) /\ Len(group(k)) # Len(group(l)) THEN Len(group(k)) > Len(group(l))
        ELSE position(k) < position(l)
      order == InOrder(keys, {p \in keys \X keys : before(p[1], p[2])})
  IN [i \in DOMAIN order |-> group(order[i])]

\* The first part of _dispatch_once: expire what is overdue, select, and
\* decide to dispatch now or to leave the window open (comparing a closed window
\* with the clock would raise).
SelectRound ==
  /\ pc = "select"
  /\ LET expired == Older(Waiting, Overdue)
         live == Without(population, expired)
         candidates == Only(Select(live, Older(ToSet(live), Aged), MaxBatch),
                            {c \in Callers : ~cancelled[c]})
         urgent == Older(ToSet(candidates), Urgent)
         hold == /\ Coalesce
                 /\ \/ window = "closed"
                    \/ urgent = {} /\ window # "elapsed" /\ Len(candidates) < MaxBatch
     IN /\ population' = live /\ Release(expired)
        /\ state' = [c \in Callers |-> IF c \in expired THEN "failed" ELSE state[c]]
        /\ completion' = [c \in Callers |->
             IF c \in expired /\ completion[c] = "open" THEN "error" ELSE completion[c]]
        /\ age' = NotWaiting(expired)
        /\ ticked' = IF candidates # << >> /\ hold THEN ticked \ expired ELSE {}
        /\ \/ /\ candidates = << >> /\ window' = "closed" /\ pc' = "idle"
              /\ UNCHANGED groups
           \/ /\ candidates # << >> /\ hold
              /\ pc' = IF window = "closed" THEN "dead" ELSE "idle"
              /\ UNCHANGED <<groups, window>>
           \/ /\ candidates # << >> /\ ~hold /\ pc' = "group" /\ UNCHANGED window
              /\ groups' = Grouped(candidates, urgent)
  /\ UNCHANGED <<caller, cancelled, flight, wake, batch>>

\* population.remove(m) fails: m is gone, but its queue has other requests.
RemoveFails(members, i) ==
  LET others == Waiting \ {members[j] : j \in 1..(i - 1)}
  IN members[i] \notin others /\ \E d \in others : SameQueue(d, members[i])

\* The first part of _dispatch_group.  If a removal raises, the dispatcher
\* task ends there; _start_dispatcher never starts another.
Dispatch ==
  /\ pc = "group" /\ groups # << >>
  /\ LET members == Head(groups)
         bad == {i \in DOMAIN members : RemoveFails(members, i)}
         upto(n) == {members[i] : i \in 1..n}
     IN \/ /\ bad = {} /\ pc' = "call" /\ batch' = members /\ groups' = Tail(groups)
           /\ state' = [c \in Callers |-> IF c \in ToSet(members) THEN "in_flight" ELSE state[c]]
           /\ flight' = flight \cup ToSet(members)
           /\ population' = Without(population, ToSet(members))
        \/ \E i \in bad :
             /\ \A j \in bad : i <= j
             /\ pc' = "dead" /\ groups' = << >> /\ UNCHANGED batch
             /\ state' = [c \in Callers |-> IF c \in upto(i) THEN "in_flight" ELSE state[c]]
             /\ flight' = flight \cup upto(i - 1)
             /\ population' = Without(population, upto(i - 1))
  /\ age' = NotWaiting(flight' \ flight)
  /\ UNCHANGED <<caller, completion, cancelled, admission, clock, wake>>

\* Mutant: the members the provider failed are not resolved.
ResolveServedOnly(failed) ==
  /\ pc = "call" /\ pc' = "group" /\ batch' = << >>
  /\ LET members == ToSet(batch) \ failed
     IN /\ flight' = flight \ members /\ Release(members)
        /\ state' = [c \in Callers |-> IF c \in members /\ ~cancelled[c] THEN "done" ELSE state[c]]
        /\ completion' = [c \in Callers |->
             IF c \in members /\ completion[c] = "open" THEN "result" ELSE completion[c]]
  /\ UNCHANGED <<caller, cancelled, age, population, clock, wake, groups>>

\* The provider answers (or fails the batch or some members), and every member
\* is resolved; nothing is routed to a caller that left.
Resolve(failed) ==
  /\ pc = "call" /\ pc' = "group" /\ batch' = << >>
  /\ LET members == ToSet(batch)
         served == {c \in members : ~cancelled[c]}
     IN /\ flight' = flight \ members /\ Release(members)
        /\ state' = [c \in Callers |->
             IF c \in failed \cap members THEN "failed"
             ELSE IF c \in served THEN "done" ELSE state[c]]
        /\ completion' = [c \in Callers |->
             IF c \notin served \/ completion[c] # "open" THEN completion[c]
             ELSE IF c \in failed THEN "error" ELSE "result"]
  /\ UNCHANGED <<caller, cancelled, age, population, clock, wake, groups>>

\* The end of _dispatch_once: a backlog keeps the slot hot.
EndRound ==
  /\ pc = "group" /\ groups = << >> /\ pc' = "select"
  /\ window' = IF \E c \in Waiting : ~cancelled[c] THEN "elapsed" ELSE "closed"
  /\ UNCHANGED <<request, population, flight, admission, ticked, wake, groups, batch>>

\* close(): the task is cancelled where it waits.
Close ==
  /\ MayClose /\ pc \in {"idle", "call"} /\ pc' = "closed"
  /\ UNCHANGED <<request, population, flight, admission, clock, wake, groups, batch>>

ProviderAnswers ==
  \/ Resolve({})
  \/ MayFail /\ \E failed \in SUBSET ToSet(batch) : Resolve(failed)

Dispatcher == Wake \/ SelectRound \/ Dispatch \/ ProviderAnswers \/ EndRound

Next ==
  \/ \E c \in Callers : Submit(c) \/ Return(c) \/ Disconnect(c) \/ Cancel(c)
  \/ Time \/ Dispatcher \/ Close

Spec == Init /\ [][Next]_vars

\* ENABLED Dispatcher written out (TLC evaluates Select too slowly inside ENABLED).
DispatcherReady ==
  \/ pc \in {"select", "group", "call"}
  \/ pc = "idle" /\ (wake \/ window # "closed")

\* The dispatcher task runs and the provider answers (weak fairness of Dispatcher);
\* the clock, which stands still while dispatcher code runs, goes on.  Nobody has
\* to submit or to leave.
Fairness ==
  /\ []<>~DispatcherReady \/ []<><<Dispatcher>>_vars
  /\ SF_vars(WindowElapses) /\ \A c \in Callers : SF_vars(Elapse(c))

FairSpec == Spec /\ Fairness

(***************************************************************************)
(* What must hold.                                                         *)
(***************************************************************************)
\* Types of every variable.
TypeOK ==
  /\ caller \in [Callers -> {"away", "waiting", "leaving"}]
  /\ completion \in [Callers -> {"none", "open", "result", "error", "dropped"}]
  /\ state \in [Callers -> PendingState] /\ cancelled \in [Callers -> BOOLEAN]
  /\ age \in [Callers -> Fresh..Overdue] /\ ticked \subseteq Callers
  /\ population \in Seq(Callers) /\ flight \subseteq Callers
  /\ accepted \subseteq Callers /\ globalPending \in Nat /\ sessionPending \in [Sessions -> Nat]
  /\ window \in {"closed", "open", "elapsed"} /\ wake \in BOOLEAN
  /\ pc \in {"idle", "select", "group", "call", "dead", "closed"}
  /\ groups \in Seq(Seq(Callers)) /\ batch \in Seq(Callers)

\* What a session holds of the capacity.
HeldBy(s) == {c \in accepted : SessionOf[c] = s}

\* The counters, which decide who is admitted, count what is held.
CountersAreExact ==
  /\ globalPending = Cardinality(accepted) /\ globalPending <= GlobalLimit
  /\ \A s \in Sessions :
       sessionPending[s] = Cardinality(HeldBy(s)) /\ sessionPending[s] <= SessionLimit

\* Capacity is taken once and returned once, whichever of expiry, cancel and
\* resolution a request meets and however they interleave.
CapacityIsExact ==
  /\ CountersAreExact
  /\ Waiting \cup {c \in flight : ~cancelled[c]} \subseteq accepted
  /\ accepted \subseteq Waiting \cup flight

\* A session's requests of one priority are dispatched in submission order: an
\* earlier one may only be left for a later batch of the same round, which a
\* dispatcher that dies in this step drops.
FifoPerSession ==
  [][\A i, j \in DOMAIN population :
       /\ i < j /\ SameQueue(population[i], population[j])
       /\ population[j] \in flight' \ flight /\ population[i] \in ToSet(population')
       => /\ KeyOf[population[i]] # KeyOf[population[j]]
          /\ population[i] \in InRound' \/ pc' = "dead"]_vars

\* The dispatcher task survives whatever callers do ("siblings are never disturbed").
DispatcherSurvives == pc # "dead"

\* Every caller that stays gets an answer: no request of a caller stays open for ever.
EveryCallerIsAnswered ==
  \A c \in Callers : []<>(completion[c] # "open" \/ pc = "closed")

\* Sustained HIGH traffic does not starve accepted NORMAL requests: while rounds are
\* brisk, none of them meets its deadline in the queue.
NormalMeetsDeadline ==
  pc # "closed" => \A c \in Waiting \ High : age[c] < Overdue
=============================================================================
