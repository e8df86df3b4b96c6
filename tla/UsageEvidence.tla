---------------------------- MODULE UsageEvidence ----------------------------
(***************************************************************************)
(* Usage evidence across two stores that share no transaction: the session *)
(* record in Redis (execution state, commit proof, deferred facts) and the *)
(* outbox rows in Postgres.  A fact is true once the session record that   *)
(* holds it is saved; its row is staged before that save and numbered      *)
(* after it, and a process may lose its lock lease, fail or die between    *)
(* any two of those steps.  The sweeper finishes what was left, using the  *)
(* stage tokens in the saved record as proof of what was committed.        *)
(*                                                                         *)
(* One runtime session is modelled, with any number of processes working   *)
(* on it: request handlers (api/v1/execution.py), the sweeper of each      *)
(* replica (usage_evidence/sender.py) and the stop path (api/v1/sessions). *)
(***************************************************************************)
EXTENDS UsageOutbox, Sequences

CONSTANTS
  Requesters,   \* request handlers
  Sweepers,     \* sweeper passes, one or more per replica
  Stoppers,     \* processes that may run POST /stop
  Requests,     \* what a handler may be asked: [safety, facts]
  Nobody,       \* no lock holder
  Dead,         \* the lock token of a process that died holding the lock
  NoMeta,       \* no session record
  MayGiveUp,    \* a fact deferred for 24 h may be given up
  MaxPending,   \* MAX_PENDING_TOKENS
  MaxAttempts,  \* bound: staging calls
  MaxFaults     \* bound: crashes, errors and lease losses of live holders

Proc == Requesters \cup Sweepers \cup Stoppers

ASSUME ConstantsAssumption ==
  /\ Nobody \notin Proc /\ Dead \notin Proc /\ Nobody # Dead
  /\ Requests \subseteq [safety : BOOLEAN, facts : Seq(Facts)]
  /\ MayGiveUp \in BOOLEAN
  /\ {MaxPending, MaxAttempts, MaxFaults} \subseteq Nat

Elems(s) == {s[i] : i \in DOMAIN s}

(***************************************************************************)
(* The session record.  applied: the facts of the execution state; version *)
(* and tokens: the commit proof; unstaged: the deferred facts, in order;   *)
(* cleanup: Stop kept the record only for its evidence.                    *)
(***************************************************************************)
Meta == [applied : SUBSET Facts, version : Nat, tokens : SUBSET Token,
         unstaged : Seq(Facts), cleanup : BOOLEAN]

ASSUME NoMetaAssumption == NoMeta \notin Meta

NewMeta == [applied |-> {}, version |-> 0, tokens |-> {},
            unstaged |-> << >>, cleanup |-> FALSE]

\* Mutant: deferred facts alone do not extend the record's TTL.
HoldsProofOnly(m) == m.cleanup \/ m.tokens # {}

HoldsEvidence(m) == m.unstaged # << >> \/ m.cleanup \/ m.tokens # {}

Applying(m, D) == [m EXCEPT !.applied = m.applied \cup D]

\* defer_entries: the facts join the end of the deferred list.
Deferring(m, q) == [m EXCEPT !.unstaged = m.unstaged \o q]

\* stamp: the proof carries this attempt's tokens, under the next version.
Stamped(m, mine) ==
  [m EXCEPT !.tokens = m.tokens \cup mine,
            !.version = IF mine = {} THEN m.version ELSE m.version + 1]

VARIABLES
  lock,        \* holder of the session lock: a fresh token per critical section
  meta,        \* the session record in Redis
  rows, last,  \* the outbox rows and the identity's number counter, in Postgres
  attempts,    \* staging calls so far (freshness of stage tokens)
  faults,      \* faults so far
  pc, job,     \* each process: where it is, and in which handler
  queue,       \* the facts of its request, or those its drain has taken
  snap,        \* its copy of the session record
  items,       \* the attempts it staged, or the rows it still has to resolve
  target,      \* the row it is resolving
  unresolved,  \* stop: some row could not be resolved
  history,     \* ghost: the facts of each save that committed some, in order
  landed,      \* ghost: the stage tokens such a save carried
  givenUp      \* ghost: deferred facts given up

store == <<lock, meta>>
outbox == <<rows, last, attempts>>
local == <<pc, job, queue, snap, items, target, unresolved>>
ghost == <<history, landed, givenUp>>
vars == <<store, outbox, faults, local, ghost>>

Jobs == {"none", "fact", "safety", "resolve", "drain", "stop"}

PC == {"idle", "load", "prune", "stage", "save", "commit", "abort",
       "lock", "session", "keep", "reread", "flip", "prove", "drop", "clean", "purge",
       "held", "keepHeld", "deferred", "stageOne", "write", "flipAll", "reload",
       "list", "remaining", "mark", "saveMark", "delete", "exit"}

NoTarget == <<0, 0>>

Init ==
  /\ lock = Nobody /\ meta = NewMeta
  /\ rows = [k \in Facts |-> NoRow] /\ last = 0 /\ attempts = 0 /\ faults = 0
  /\ pc = [w \in Proc |-> "idle"] /\ job = [w \in Proc |-> "none"]
  /\ queue = [w \in Proc |-> << >>] /\ snap = [w \in Proc |-> NoMeta]
  /\ items = [w \in Proc |-> {}] /\ target = [w \in Proc |-> NoTarget]
  /\ unresolved = [w \in Proc |-> FALSE]
  /\ history = << >> /\ landed = {} /\ givenUp = {}

(***************************************************************************)
(* Building blocks.                                                        *)
(***************************************************************************)
Goto(w, l) == pc' = [pc EXCEPT ![w] = l]

Acquire(w) == lock = Nobody /\ lock' = w

Enter(w, j, l) ==
  /\ pc[w] = "idle" /\ Acquire(w)
  /\ job' = [job EXCEPT ![w] = j] /\ Goto(w, l)
  /\ UNCHANGED <<meta, outbox, faults, snap, items, target, unresolved, ghost>>

\* store.get: a copy of the record, whoever holds the lock by now.
Load(w) == snap' = [snap EXCEPT ![w] = meta]

\* An exception: Stop catches one raised while it resolves rows, the others leave.
Raise(w) ==
  Goto(w, IF job[w] = "stop" /\ pc[w] \notin {"mark", "saveMark", "delete"} THEN "mark" ELSE "exit")

\* commit_if_owner: one Lua round trip, compare the lock token, then SET.
FencedSave(w, l) ==
  \/ lock = w /\ meta' = snap[w] /\ Goto(w, l)
  \/ lock # w /\ UNCHANGED meta /\ Raise(w)

\* delete_owned: DEL the record, under the same compare.
FencedDelete(w, l) ==
  \/ lock = w /\ meta' = NoMeta /\ Goto(w, l)
  \/ lock # w /\ UNCHANGED meta /\ Raise(w)

Forget(w) ==
  /\ Goto(w, "idle") /\ job' = [job EXCEPT ![w] = "none"]
  /\ queue' = [queue EXCEPT ![w] = << >>] /\ snap' = [snap EXCEPT ![w] = NoMeta]
  /\ items' = [items EXCEPT ![w] = {}] /\ target' = [target EXCEPT ![w] = NoTarget]
  /\ unresolved' = [unresolved EXCEPT ![w] = FALSE]

(***************************************************************************)
(* Leaving the critical section, and the faults.                           *)
(***************************************************************************)
Exit(w) ==
  /\ pc[w] = "exit" /\ Forget(w)
  /\ lock' = IF lock = w THEN Nobody ELSE lock
  /\ UNCHANGED <<meta, outbox, faults, ghost>>

\* A store or database error, a timeout, a lost reply or a cancellation: the
\* step in progress has happened or not, and the handler leaves.  A request
\* that fails at its save cannot tell, so it does not touch its rows.
Fail(w) ==
  /\ pc[w] \notin {"idle", "exit"} /\ faults < MaxFaults
  /\ faults' = faults + 1 /\ Raise(w)
  /\ UNCHANGED <<store, outbox, job, queue, snap, items, target, unresolved, ghost>>

\* The process dies: nothing releases its lock.
Crash(w) ==
  /\ pc[w] # "idle" /\ faults < MaxFaults
  /\ faults' = faults + 1 /\ Forget(w)
  /\ lock' = IF lock = w THEN Dead ELSE lock
  /\ UNCHANGED <<meta, outbox, ghost>>

\* Mutant: the lock is set without an expiry.
LeaseNeverExpires == FALSE

\* The lease runs out: the holder died, or is slower than its TTL.
LeaseExpires ==
  /\ lock # Nobody /\ lock' = Nobody
  /\ \/ lock = Dead /\ UNCHANGED faults
     \/ lock # Dead /\ faults < MaxFaults /\ faults' = faults + 1
  /\ UNCHANGED <<meta, outbox, local, ghost>>

\* The record's default TTL runs out.  One that holds evidence has a TTL of
\* days, refreshed by every sweep.
MetaExpires ==
  /\ meta # NoMeta /\ ~HoldsEvidence(meta) /\ meta' = NoMeta
  /\ UNCHANGED <<lock, outbox, faults, local, ghost>>

(***************************************************************************)
(* A request: record_execution_evidence and request_execution_command.     *)
(***************************************************************************)
BeginRequest(w, r) ==
  /\ w \in Requesters
  /\ Enter(w, IF r.safety THEN "safety" ELSE "fact", "load")
  /\ queue' = [queue EXCEPT ![w] = r.facts]

\* Refused: no session, a fact the state already has, or (an ordinary fact)
\* earlier facts still deferred.  Emergency End only records its facts.
LoadRequest(w) ==
  /\ pc[w] = "load"
  /\ LET D == Elems(queue[w])
         admitted == /\ meta # NoMeta /\ D \cap meta.applied = {}
                     /\ job[w] = "fact" => meta.unstaged = << >>
     IN \/ ~admitted /\ Goto(w, "exit") /\ UNCHANGED snap
        \/ admitted /\ job[w] = "fact" /\ Goto(w, "prune") /\ Load(w)
        \/ /\ admitted /\ job[w] = "safety" /\ Goto(w, "save")
           /\ snap' = [snap EXCEPT ![w] = Deferring(Applying(meta, D), queue[w])]
  /\ UNCHANGED <<store, outbox, faults, job, queue, items, target, unresolved, ghost>>

\* still_staged: the proof keeps only the attempts that are still unresolved.
Pruned(m) == [m EXCEPT !.tokens = {t \in m.tokens : IsStaged(rows, t)}]

PruneProof(w) ==
  /\ pc[w] = "prune" /\ Goto(w, "stage")
  /\ snap' = [snap EXCEPT ![w] = Pruned(snap[w])]
  /\ UNCHANGED <<store, outbox, faults, job, queue, items, target, unresolved, ghost>>

\* The staging transaction, and the proof the save will carry (stamp).
StageRequest(w) ==
  /\ pc[w] = "stage"
  /\ LET D == Elems(queue[w])
         mine == {<<k, attempts + 1>> : k \in Stageable(rows, D)}
         refused == \/ Cardinality(snap[w].tokens) + Len(queue[w]) > MaxPending
                    \/ StageBlocked(rows, D)
     IN \/ refused /\ Goto(w, "exit") /\ UNCHANGED <<rows, attempts, snap, items>>
        \/ /\ ~refused /\ attempts < MaxAttempts /\ Goto(w, "save")
           /\ rows' = Stage(rows, D, attempts + 1, snap[w].version + 1)
           /\ attempts' = attempts + 1
           /\ items' = [items EXCEPT ![w] = mine]
           /\ snap' = [snap EXCEPT ![w] = Stamped(Applying(snap[w], D), mine)]
  /\ UNCHANGED <<store, last, faults, job, queue, target, unresolved, ghost>>

\* Mutant: the answer of commit_if_owner is not looked at.
SaveIgnoringFence(w) ==
  /\ pc[w] = "save" /\ Goto(w, "commit")
  /\ \/ /\ lock = w /\ meta' = snap[w]
        /\ history' = Append(history, Elems(queue[w])) /\ landed' = landed \cup items[w]
     \/ lock # w /\ UNCHANGED <<meta, history, landed>>
  /\ UNCHANGED <<lock, outbox, faults, job, queue, snap, items, target, unresolved, givenUp>>

\* The atomic save of state, proof and deferred facts.  Refused by the fence:
\* it definitely did not land.
SaveRequest(w) ==
  /\ pc[w] = "save"
  /\ \/ /\ lock = w /\ meta' = snap[w] /\ Goto(w, "commit")
        /\ history' = Append(history, Elems(queue[w]))
        /\ landed' = landed \cup items[w]
     \/ lock # w /\ Goto(w, "abort") /\ UNCHANGED <<meta, history, landed>>
  /\ UNCHANGED <<lock, outbox, faults, job, queue, snap, items, target, unresolved, givenUp>>

CommitRequest(w) ==
  /\ pc[w] = "commit" /\ Goto(w, "exit")
  /\ rows' = MarkReady(rows, items[w], last) /\ last' = LastAfter(rows, items[w], last)
  /\ UNCHANGED <<store, attempts, faults, job, queue, snap, items, target, unresolved, ghost>>

AbortRequest(w) ==
  /\ pc[w] = "abort" /\ Goto(w, "exit")
  /\ rows' = Release(rows, items[w], TRUE)
  /\ UNCHANGED <<store, last, attempts, faults, job, queue, snap, items, target, unresolved, ghost>>

(***************************************************************************)
(* The sweeper resolves a stale staged row with proof of its attempt       *)
(* (_resolve and _resolve_one); Stop resolves every staged row so.         *)
(***************************************************************************)
RowAfter(w, left) ==
  IF left # {} THEN "session" ELSE IF job[w] = "stop" THEN "remaining" ELSE "exit"

NextRow(w) == Goto(w, RowAfter(w, items[w]))

\* stale_staged: one row, with the token it had then.
PickStale(w, k) ==
  /\ w \in Sweepers /\ pc[w] = "idle" /\ rows[k].status = "staged"
  /\ job' = [job EXCEPT ![w] = "resolve"] /\ Goto(w, "lock")
  /\ items' = [items EXCEPT ![w] = {TokenOf(rows, k)}]
  /\ UNCHANGED <<store, outbox, faults, queue, snap, target, unresolved, ghost>>

LockRow(w) ==
  /\ pc[w] = "lock" /\ Acquire(w) /\ Goto(w, "session")
  /\ UNCHANGED <<meta, outbox, faults, job, queue, snap, items, target, unresolved, ghost>>

\* Stop takes its rows in staged_version order; here any order.
LoadSession(w) ==
  /\ pc[w] = "session" /\ Load(w)
  /\ \E t \in items[w] : /\ target' = [target EXCEPT ![w] = t]
                         /\ items' = [items EXCEPT ![w] = @ \ {t}]
  /\ Goto(w, IF meta = NoMeta THEN "reread" ELSE "keep")
  /\ UNCHANGED <<store, outbox, faults, job, queue, unresolved, ghost>>

\* The session read fails: the row is left for another turn.
SessionUnreadable(w) ==
  /\ pc[w] = "session" /\ faults < MaxFaults /\ faults' = faults + 1
  /\ \E t \in items[w] : /\ Goto(w, RowAfter(w, items[w] \ {t}))
                         /\ items' = [items EXCEPT ![w] = @ \ {t}]
  /\ unresolved' = [unresolved EXCEPT ![w] = TRUE]
  /\ UNCHANGED <<store, outbox, job, queue, snap, target, ghost>>

\* Mutant: goes on although the lock is lost.
KeepAliveUnfenced(w) ==
  /\ \/ pc[w] = "keep" /\ Goto(w, "reread")
     \/ pc[w] = "prove" /\ Goto(w, "drop")
  /\ UNCHANGED <<store, outbox, faults, job, queue, snap, items, target, unresolved, ghost>>

\* _keep_alive: refresh the record's TTL, which also proves the lock is ours.
KeepAlive(w) ==
  /\ \/ pc[w] = "keep" /\ FencedSave(w, "reread")
     \/ pc[w] = "prove" /\ FencedSave(w, "drop")
  /\ UNCHANGED <<lock, outbox, faults, job, queue, snap, items, target, unresolved, ghost>>

\* get_staged, then the verdict: replaced meanwhile, no readable proof
\* (parked for an operator), committed, or never committed.
Reread(w) ==
  /\ pc[w] = "reread"
  /\ \/ ~IsStaged(rows, target[w]) /\ NextRow(w) /\ UNCHANGED unresolved
     \/ /\ IsStaged(rows, target[w]) /\ snap[w] = NoMeta
        /\ unresolved' = [unresolved EXCEPT ![w] = TRUE] /\ NextRow(w)
     \/ /\ IsStaged(rows, target[w]) /\ snap[w] # NoMeta /\ UNCHANGED unresolved
        /\ Goto(w, IF target[w] \in snap[w].tokens THEN "flip" ELSE "prove")
  /\ UNCHANGED <<store, outbox, faults, job, queue, snap, items, target, ghost>>

\* A committed row that must wait for an earlier unresolved one stays staged.
FlipRow(w) ==
  /\ pc[w] = "flip"
  /\ rows' = MarkReady(rows, {target[w]}, last) /\ last' = LastAfter(rows, {target[w]}, last)
  /\ \/ last' > last /\ Goto(w, "clean") /\ UNCHANGED unresolved
     \/ last' = last /\ NextRow(w) /\ unresolved' = [unresolved EXCEPT ![w] = TRUE]
  /\ UNCHANGED <<store, attempts, faults, job, queue, snap, items, target, ghost>>

Discard(w) ==
  /\ pc[w] = "drop" /\ Goto(w, "clean")
  /\ rows' = Release(rows, {target[w]}, FALSE)
  /\ UNCHANGED <<store, last, attempts, faults, job, queue, snap, items, target, unresolved, ghost>>

\* _cleanup_if_done: a record Stop kept is deleted once nothing is owed.
CheckCleanup(w) ==
  /\ pc[w] = "clean"
  /\ LET done == /\ snap[w] # NoMeta /\ snap[w].cleanup /\ snap[w].unstaged = << >>
                 /\ StagedTokens(rows) = {}
     IN IF done THEN Goto(w, "purge") ELSE NextRow(w)
  /\ UNCHANGED <<store, outbox, faults, job, queue, snap, items, target, unresolved, ghost>>

PurgeMeta(w) ==
  /\ pc[w] = "purge"
  /\ \/ lock = w /\ meta' = NoMeta /\ NextRow(w)
     \/ lock # w /\ UNCHANGED meta /\ Raise(w)
  /\ UNCHANGED <<lock, outbox, faults, job, queue, snap, items, target, unresolved, ghost>>

(***************************************************************************)
(* The drain of deferred facts: drain_session, and _drain_one inside Stop. *)
(***************************************************************************)
AfterDrain(w) == Goto(w, IF job[w] = "stop" THEN "list" ELSE "reload")

\* Mutant: only deferred facts are looked for, not the cleanup marker.
BeginDrainOfFacts(w) ==
  /\ w \in Sweepers /\ meta # NoMeta /\ meta.unstaged # << >>
  /\ Enter(w, "drain", "held") /\ UNCHANGED queue

BeginDrain(w) ==
  /\ w \in Sweepers /\ meta # NoMeta /\ HoldsEvidence(meta)
  /\ Enter(w, "drain", "held") /\ UNCHANGED queue

LoadHeld(w) ==
  /\ pc[w] = "held" /\ Load(w)
  /\ Goto(w, IF meta # NoMeta /\ HoldsEvidence(meta) THEN "keepHeld" ELSE "deferred")
  /\ UNCHANGED <<store, outbox, faults, job, queue, items, target, unresolved, ghost>>

KeepHeld(w) ==
  /\ pc[w] = "keepHeld" /\ FencedSave(w, "deferred")
  /\ UNCHANGED <<lock, outbox, faults, job, queue, snap, items, target, unresolved, ghost>>

ReadDeferred(w) ==
  /\ pc[w] = "deferred" /\ Load(w)
  /\ IF meta # NoMeta /\ meta.unstaged # << >> THEN Goto(w, "stageOne") ELSE AfterDrain(w)
  /\ UNCHANGED <<store, outbox, faults, job, queue, items, target, unresolved, ghost>>

\* The head of the deferred facts leaves the record's copy: staged by this
\* attempt (its token joins the proof), already final, or given up.
WithoutHead(m) == [m EXCEPT !.unstaged = Tail(m.unstaged)]

TakeHead(w, mine) ==
  /\ queue' = [queue EXCEPT ![w] = Append(@, Head(snap[w].unstaged))]
  /\ items' = [items EXCEPT ![w] = @ \cup mine]
  /\ snap' = [snap EXCEPT ![w] = Stamped(WithoutHead(snap[w]), mine)]
  /\ Goto(w, "stageOne")

\* The head keeps its place, and so does everything behind it.
StopStaging(w) == IF queue[w] = << >> THEN AfterDrain(w) ELSE Goto(w, "write")

StageDeferred(w) ==
  /\ pc[w] = "stageOne" /\ snap[w].unstaged # << >>
  /\ LET k == Head(snap[w].unstaged)
         mine == {<<k, attempts + 1>> : j \in Stageable(rows, {k})}
     IN \/ /\ StageBlocked(rows, {k}) /\ StopStaging(w)
           /\ UNCHANGED <<rows, attempts, queue, items, snap, givenUp>>
        \/ /\ StageBlocked(rows, {k}) /\ MayGiveUp /\ TakeHead(w, {})
           /\ givenUp' = givenUp \cup {k} /\ UNCHANGED <<rows, attempts>>
        \/ /\ ~StageBlocked(rows, {k}) /\ attempts < MaxAttempts /\ TakeHead(w, mine)
           /\ rows' = Stage(rows, {k}, attempts + 1, snap[w].version + 1)
           /\ attempts' = attempts + 1 /\ UNCHANGED givenUp
  /\ UNCHANGED <<store, last, faults, job, target, unresolved, history, landed>>

\* A database error while staging: what was staged before it is still written.
\* If only the reply was lost, the row is left with a token no proof will hold.
StageDeferredFails(w) ==
  /\ pc[w] = "stageOne" /\ snap[w].unstaged # << >> /\ StopStaging(w)
  /\ faults < MaxFaults /\ faults' = faults + 1
  /\ LET k == Head(snap[w].unstaged)
     IN \/ UNCHANGED <<rows, attempts>>
        \/ /\ ~StageBlocked(rows, {k}) /\ attempts < MaxAttempts
           /\ rows' = Stage(rows, {k}, attempts + 1, snap[w].version + 1)
           /\ attempts' = attempts + 1
  /\ UNCHANGED <<store, last, job, queue, snap, items, target, unresolved, ghost>>

AllDeferredStaged(w) ==
  /\ pc[w] = "stageOne" /\ snap[w].unstaged = << >> /\ Goto(w, "write")
  /\ UNCHANGED <<store, outbox, faults, job, queue, snap, items, target, unresolved, ghost>>

\* One save moves the facts from the deferred list to the commit proof.
WriteDrained(w) ==
  /\ pc[w] = "write" /\ FencedSave(w, "flipAll")
  /\ landed' = IF lock = w THEN landed \cup items[w] ELSE landed
  /\ UNCHANGED <<lock, outbox, faults, job, queue, snap, items, target, unresolved, history, givenUp>>

FlipDrained(w) ==
  /\ pc[w] = "flipAll" /\ AfterDrain(w)
  /\ rows' = MarkReady(rows, items[w], last) /\ last' = LastAfter(rows, items[w], last)
  /\ items' = [items EXCEPT ![w] = {}]
  /\ UNCHANGED <<store, attempts, faults, job, queue, snap, target, unresolved, ghost>>

\* The flip fails: the tokens are in the proof, the sweeper converges.
FlipDrainedFails(w) ==
  /\ pc[w] = "flipAll" /\ AfterDrain(w) /\ items' = [items EXCEPT ![w] = {}]
  /\ faults < MaxFaults /\ faults' = faults + 1
  /\ UNCHANGED <<store, outbox, job, queue, snap, target, unresolved, ghost>>

Reload(w) ==
  /\ pc[w] = "reload" /\ Load(w) /\ Goto(w, "clean") /\ items' = [items EXCEPT ![w] = {}]
  /\ UNCHANGED <<store, outbox, faults, job, queue, target, unresolved, ghost>>

(***************************************************************************)
(* Stop: delete_session_meta resolves everything before it deletes the     *)
(* record, or keeps the record and marks it for cleanup.                   *)
(***************************************************************************)
BeginStop(w) == w \in Stoppers /\ Enter(w, "stop", "deferred") /\ UNCHANGED queue

ListRows(w) ==
  /\ pc[w] = "list" /\ items' = [items EXCEPT ![w] = StagedTokens(rows)]
  /\ Goto(w, IF StagedTokens(rows) = {} THEN "remaining" ELSE "session")
  /\ UNCHANGED <<store, outbox, faults, job, queue, snap, target, unresolved, ghost>>

CountRemaining(w) ==
  /\ pc[w] = "remaining"
  /\ Goto(w, IF unresolved[w] \/ (meta # NoMeta /\ meta.unstaged # << >>)
             THEN "mark" ELSE "delete")
  /\ UNCHANGED <<store, outbox, faults, job, queue, snap, items, target, unresolved, ghost>>

DeleteMeta(w) ==
  /\ pc[w] = "delete" /\ FencedDelete(w, "exit")
  /\ UNCHANGED <<lock, outbox, faults, job, queue, snap, items, target, unresolved, ghost>>

MarkCleanup(w) ==
  /\ pc[w] = "mark"
  /\ \/ meta = NoMeta /\ Goto(w, "exit") /\ UNCHANGED snap
     \/ /\ meta # NoMeta /\ Goto(w, "saveMark")
        /\ snap' = [snap EXCEPT ![w] = [meta EXCEPT !.cleanup = TRUE]]
  /\ UNCHANGED <<store, outbox, faults, job, queue, items, target, unresolved, ghost>>

SaveMark(w) ==
  /\ pc[w] = "saveMark" /\ FencedSave(w, "exit")
  /\ UNCHANGED <<lock, outbox, faults, job, queue, snap, items, target, unresolved, ghost>>

(***************************************************************************)
(* The next-state relation.                                                *)
(***************************************************************************)
RequestStep(w) ==
  \/ LoadRequest(w) \/ PruneProof(w) \/ StageRequest(w) \/ SaveRequest(w)
  \/ CommitRequest(w) \/ AbortRequest(w)

ResolveStep(w) ==
  \/ LoadSession(w) \/ KeepAlive(w) \/ Reread(w) \/ FlipRow(w) \/ Discard(w)
  \/ CheckCleanup(w) \/ PurgeMeta(w)

DrainStep(w) ==
  \/ LoadHeld(w) \/ KeepHeld(w) \/ ReadDeferred(w) \/ StageDeferred(w)
  \/ AllDeferredStaged(w) \/ WriteDrained(w) \/ FlipDrained(w) \/ Reload(w)

StopStep(w) ==
  \/ ListRows(w) \/ CountRemaining(w) \/ DeleteMeta(w) \/ MarkCleanup(w) \/ SaveMark(w)

\* A process inside a critical section goes on to its end.
Step(w) == RequestStep(w) \/ ResolveStep(w) \/ DrainStep(w) \/ StopStep(w) \/ Exit(w)

Begin(w) ==
  \/ \E r \in Requests : BeginRequest(w, r)
  \/ \E k \in Facts : PickStale(w, k)
  \/ LockRow(w) \/ BeginDrain(w) \/ BeginStop(w)

\* Errors that are caught where they happen.
Caught(w) == SessionUnreadable(w) \/ StageDeferredFails(w) \/ FlipDrainedFails(w)

Fault(w) == Fail(w) \/ Crash(w) \/ Caught(w)

Next ==
  \/ \E w \in Proc : Begin(w) \/ Step(w) \/ Fault(w)
  \/ LeaseExpires \/ MetaExpires

Spec == Init /\ [][Next]_vars

\* The code's scheduling: a handler that is running goes on; a dead holder's
\* lease expires; every sweep offers each due row and each held session a turn
\* (stale_staged serves the least recently tried row first, and the lock is
\* retried on every sweep, so a turn that keeps coming up is taken).
Fairness ==
  /\ \A w \in Proc : WF_vars(Step(w))
  /\ WF_vars(lock = Dead /\ LeaseExpires)
  /\ \A w \in Sweepers :
       /\ SF_vars(LockRow(w)) /\ SF_vars(BeginDrain(w))
       /\ \A k \in Facts : SF_vars(PickStale(w, k))

FairSpec == Spec /\ Fairness

(***************************************************************************)
(* What must hold.                                                         *)
(***************************************************************************)
Committed == UNION Elems(history)

\* Types of every variable.
TypeOK ==
  /\ lock \in Proc \cup {Nobody, Dead} /\ meta \in Meta \cup {NoMeta}
  /\ rows \in [Facts -> Row] /\ last \in Nat /\ attempts \in Nat /\ faults \in Nat
  /\ pc \in [Proc -> PC] /\ job \in [Proc -> Jobs] /\ queue \in [Proc -> Seq(Facts)]
  /\ snap \in [Proc -> Meta \cup {NoMeta}] /\ items \in [Proc -> SUBSET Token]
  /\ target \in [Proc -> Token \cup {NoTarget}] /\ unresolved \in [Proc -> BOOLEAN]
  /\ history \in Seq(SUBSET Facts) /\ landed \subseteq Token /\ givenUp \subseteq Facts

\* Only a committed attempt is ever numbered for delivery: no interleaving of
\* lease losses, aborts and sweeps bills a fact whose save did not land.
ReportedWasCommitted ==
  \A k \in Facts : rows[k].status = "ready" => TokenOf(rows, k) \in landed

\* A committed fact is never lost: its row is numbered, or it is staged and
\* the session record still holds the proof, or the fact is still deferred.
NothingLost ==
  \A k \in Committed \ givenUp :
     \/ rows[k].status = "ready"
     \/ /\ meta # NoMeta
        /\ \/ rows[k].status = "staged" /\ TokenOf(rows, k) \in meta.tokens
           \/ k \in Elems(meta.unstaged)

\* A committed attempt is never discarded, so mark_ready never has to revive
\* a tombstone (the case outbox.py logs as an error).
CommittedNotDiscarded ==
  \A k \in Facts : rows[k].status = "discarded" => TokenOf(rows, k) \notin landed

\* The whole protocol implements the ledger: a fact becomes true once, it is
\* reported at most once, under gap-free numbers in the order of the saves,
\* and a reported fact keeps its number.
Ledger == INSTANCE UsageLedger WITH
  committed <- history, number <- [k \in Facts |-> rows[k].number], waived <- givenUp

ImplementsLedger == Ledger!Spec

\* Every fact that became true is reported in the end, or given up in the open,
\* whatever failed before.
EveryFactIsReported ==
  \A k \in Facts : k \in Committed ~> rows[k].status = "ready" \/ k \in givenUp

\* Evidence never keeps a stopped session's record for ever.
KeptRecordIsReleased ==
  meta # NoMeta /\ meta.cleanup ~> meta = NoMeta
=============================================================================
