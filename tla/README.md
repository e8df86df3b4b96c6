# A TLA+ model of the AI livestream commerce runtime

This directory holds a verification project for the code under `src/`: TLA+ modules
translated from the source, small instances of them for TLC, and proofs for TLAPS.
`PROJECT.json` is the machine-readable side: which definition stands for which lines, what
each run checks, which mutant of the code each property catches, and the hazards.

Tools: `tlc -workers 2 -config evidence.cfg MCUsageEvidence.tla` runs one instance,
`tlapm UsageEvidenceProofs.tla` checks a proof module.

## 1. The system

The repository is a backend that drives live shopping streams (FastAPI, Redis for hot
session state, Postgres for what must last), a batched TTS service, avatar and LLM
services, and platform tooling. Most of its core logic is in
`services/product/backend_service` and `services/product/tts_service`.

| component | state | operations | interacts with |
|---|---|---|---|
| usage evidence: staging and proof (`application/usage_evidence`, `api/v1/execution.py`, `api/v1/sessions.py`) | session record in Redis (execution state, commit proof, deferred facts), outbox rows in Postgres, the session lock | stage, stamp, fenced save, commit, abort, sweep, drain, Stop | execution commands, session lock, delivery |
| usage evidence: delivery (`sender.py`, `outbox.py`) | ready rows with number, lease, due time | claim, post, finish, purge | billing receiver over HTTP |
| cost and COGS meters (`cost.py`) | bounded buffer of samples | observe, drain, requeue, shut down | outbox |
| TTS dispatch runtime (`tts/scheduler`) | pending population, capacity counters, in-flight map, window, one dispatcher task | submit, cancel, expire, select, dispatch, resolve, close | HTTP callers, provider |
| execution contract and command API (`execution_contract.py`, `api/v1/execution.py`) | phase, sequence number, outcomes of commands, holds | rescue command, start, evidence report, closing task, fatal fault | session lock, speech, evidence |
| session store and lock (`redis_session_store.py`) | record with TTL, lock key with token and lease | get, commit_if_owner, delete_owned, lock, unlock | everything that writes a session |
| stop and media release (`api/v1/sessions.py`, `terminal_guard.py`) | record, media handles, receipts | stop, detach, release, delete or keep | director, avatar, evidence, terminal record |
| terminal outcomes and outbox (`terminal_outcomes.py`) | terminal records, cleanup markers | build, persist, mark cleaned, redeliver, shutdown sweep | execution, stop |
| budget lease (`budget_lease.py`) | lease per session, watcher task | push, renew, expire, settle | execution, terminal outcomes |
| runtime failures, avatar lifecycle | monitors, fault entries | observe, complete, retry | execution, media release |
| platform event ingestion (`platform_events/ingestion.py`) | deduplication records, delivery ledger | ingest, route, mark consumed, reconcile | chat queue, reducer, session lock |
| question reducer (`reducer/fast_reducer.py`) | pending comments, members, quarantine | ingest, embed a batch, bisect a failing one | ingestion, director |
| director coordinator (`director/coordinator.py`) | decision and speech queues, generation token, speech lock, script cursor | tick, fill, prepare, play, interrupt, hold, say | execution, reducer, clients |
| render queue, playback queue, script authoring, speech arbiter, live follow | queues, workflow records | enqueue, cancel, resume | director |

What is hard in them: one fact lives in two stores without a shared transaction; a lock
whose lease can run out under its holder; several replicas that sweep the same rows; an
unreliable network to the receiver; awaits in the middle of a decision (the TTS
dispatcher, the playback loop, the lease watcher, the ingestion); deadlines and timers that
race with answers; restarts between two writes; queues at their limit. `PROJECT.json` lists
these hazards at their lines.

What makes each component correct:

* evidence: a fact is reported if and only if the state change it reports was saved, once,
  and in the order of the saves; a stopped session does not leave its record behind;
* delivery: the receiver gets the facts of an execution in order, each row settles once;
* TTS: capacity is exact, nobody waits for ever, one caller never disturbs another;
* execution: phases only move on, a command id acts once, an ended execution is silent, a
  fatal fault is not forgotten;
* termination: the terminal record is stored before the session goes, says the truth about
  the cleanup, and paid media is released whatever fails on the way;
* speech: nothing decided before an interrupt is played after it, the cursor never passes
  an unspoken part, every turn ends;
* comments: a viewer's comment is consumed once or declared lost, and one that cannot be
  read takes no other with it.

## 2. Modules

| module | models | source |
|---|---|---|
| `UsageOutbox` | the outbox table as pure operators, one per SQL transaction | `outbox.py`, the schema |
| `UsageEvidence` | handlers, sweepers and Stop over the record, the lock and the rows | `usage_evidence/__init__.py`, `sender.py`, `execution.py`, `sessions.py`, `redis_session_store.py` |
| `UsageLedger` | abstract: facts become true, each is reported once, in order | - |
| `UsageDelivery` | senders, leases, network and receiver | `sender.py`, `outbox.py` |
| `Orders` | sub-sequences and finite orders, defined so that provers can use them | - |
| `TtsFairness` | the selection policy as pure operators | `fairness.py` |
| `TtsScheduler` | callers, admission, the dispatcher task, the provider | `runtime.py`, `admission.py`, `models.py` |
| `ExecutionContract` | the phases and what evidence and commands make of a state, as pure operators | `execution_contract.py` |
| `ExecutionLifecycle` | abstract: phases only move on, a command is decided once | - |
| `Execution` | request tasks, closing task, fault recorder, the speech fence | `execution.py`, `runtime_failures.py` |
| `Termination` | lease watcher, avatar monitor, stop, terminal record, media | `budget_lease.py`, `sessions.py`, `terminal_guard.py`, `terminal_outcomes.py`, `avatar_lifecycle.py` |
| `Speech` | the turns of a session, from the decision to the playback | `director/coordinator.py` and its queues, `script_cursor.py` |
| `Comments` | ingestion, chat queue, delivery ledger, reducer | `ingestion.py`, `comment_buffer.py`, `fast_reducer.py`, `coordinator.py` |
| `MC...` | instances for TLC | - |
| `UsageEvidenceProofs`, `UsageLedgerProofs`, `UsageDeliveryProofs`, `ExecutionProofs`, `TerminationProofs`, `CommentsProofs`, `SpeechProofs`, `TtsSchedulerProofs` | inductive invariants and theorems | - |

`UsageEvidence` uses the operators of `UsageOutbox`, `TtsScheduler` those of `TtsFairness`
(both with `Orders`),
`Execution` those of `ExecutionContract`. `UsageLedger` and `ExecutionLifecycle` are
instantiated with refinement mappings. The four modules that share the session lock
(`UsageEvidence`, `Execution`, `Termination`, `Comments`) each model it with its lease and
its fence, next to the tasks whose races they are about, and take the writes of the others
as single steps or leave them out where they touch other fields.

### Evidence

`UsageEvidence` has one record (`meta`), one lock, one table of rows, and any number of
processes. A process runs one handler at a time; `pc` is where it stands, `snap` its copy
of the record, `items` the attempts it staged or the rows it has to resolve. One action is
one await of the code: a Redis round trip, a Postgres transaction. The important choices:

* **The fence.** `commit_if_owner` and `delete_owned` compare the lock token inside one
  Lua script (`FencedSave`, `FencedDelete`). `LeaseExpires` may take the lock from a live
  holder, so a stale holder goes on with its copy until a fence stops it.
* **Stage, save, commit.** `StageRequest` writes rows with a fresh token, `SaveRequest`
  saves state and proof in one step, `CommitRequest` numbers the rows. A save the fence
  refused leads to `AbortRequest`; any other failure of a save (`Fail`) leaves the rows to
  the sweeper, because the handler cannot tell whether it landed.
* **The sweeper.** `PickStale` .. `CheckCleanup` resolve a staged row: the proof says
  committed, or a fenced rewrite of the record proves that nobody else can commit it any
  more and the row becomes a tombstone.
* **Deferral.** An Emergency End does not wait for Postgres: its facts join `unstaged` in
  the same save, a drain (`BeginDrain` .. `Reload`) stages them later, in order.
* **Stop** drains, resolves every row and deletes the record, or keeps it with a cleanup
  marker for the sweeper (`BeginStop` .. `SaveMark`).
* **Faults.** `Fail` (an await raises, with or without its effect), `Crash`, and the caught
  errors. They are counted and bounded by `MaxFaults` in TLC; the proofs have no bound.

`history`, `landed` and `givenUp` are ghosts: what was saved, with which tokens, and what
was given up. They appear in no guard.

### Delivery

One identity's rows, its senders, and a receiver that keeps the first copy of an event id.
A post may be answered, refused for now, or time out with the message still on the way
(`late`). `FallDue` stands for both a backoff and a lease that runs out; ten rows with ten
seconds each outlast a lease of sixty seconds, so a live sender really can lose one.

### TTS

`Callers` each have at most one request at a time. Everything between two awaits is one
action (`Submit`, `SelectRound`, `Dispatch`, `Resolve`), and callers and timers move only
while the dispatcher waits (`LoopFree`). Time is in stages: fresh, aged (5 s), urgent
(deadline minus 3 s), overdue (30 s). `RemoveFails` is the `ValueError` of
`PendingPopulation.remove`; it ends the dispatcher task.
`TtsFairness` computes a selection exactly: deficit round robin, aged first, one slot
reserved for the oldest aged NORMAL request.

### Execution

One stored session, one lock, and tasks: API requests, the closing task, the fault
recorder. A task takes the lock and reads (`Request`, `Report`, `Finish`, `Sweep`), decides
and keeps what it will write in `write`, stages its evidence (`staging`), writes through the
fence (`Land`, `Refused`, `WriteFails`: the write fails, or lands and only its reply is
lost), and then acts on the speech in memory (`Rescue`, `Activate`, `Applied`). That last
part is not atomic with the write, which is where the hazards are. A command first records
a pending fault (`promoting`). A start writes twice: accepted, activate, applied.
`Restart` keeps the stored session and nothing else.
`silenced` and `effects` are ghosts.

### Termination

The watcher checks the lease without the lock and again under it (`Check`, `Expire`), stores
`control_lost` (`SaveLost`), tries the settlement inline under a deadline (`Inline`) and else
leaves a mark for its later sweeps (`Settle`). A stop, whoever calls it, releases the media
(`ReleaseMedia`), enters the lock (`Enter`), tears down (`Teardown`), stores the record
(`Persist`), stages the owed fact or keeps the session (`Keep`), and deletes (`Delete`). A
session that is kept is marked `settling`, and the watcher comes back for its fact; a fact that
was refused with 422 `UnstageableAfter` times (`refusals`) is `Parked`: the session stays, with
its record stored, for an operator, and no stop or sweep stages the fact again. `Cut` is the
deadline that cancels a stop between any two of these; the exception is `persist_terminal`,
which the code calls without a fence (the first disjunct of `Persist`). The monitor stops a
sick avatar (`Condemn`) and retries what nobody could release (`RetryMedia`). `receipt` is what
the process remembers of a release. `Sweep` is the shutdown sweep of any process of the
deployment; it is one step because between its read and its write only the outcome may change,
and the first record stays.

Assumed: the media ends with the process that runs it (`Restart`); the avatar service
answers in the end; applying an End and renewing a lease are single fenced writes (their
steps are those of `Execution`); the usage fact of the avatar monitor is one of
`UsageEvidence`.

### Speech

`turn` records for every turn its unit (0: an answer to a question), the generation it was
decided in and what became of it. The tick and the loop fill the queues under the decision
lock (`fill`), on a projection of the cursor that is a fold over the turns that are still
to come. Every await is a place where `Interrupt`, `Revise`, `Hold`, `Resume`, `Lift` or
`Say` come in: between the choice of a turn and its announcement, in its preparation, after
the loop took it, before the speech lock, while it plays. `Die` is the exception that ends
the loop. `gen` combines the generation token and the epoch of approved speech, which are
raised together. `lifted` notes that a fence went without the loop being told.

### Comments

A session of approved speech whose requests opt in to delivery outcomes. A request takes
the lock, routes its event (`Route`: into the `ChatQueue`, with a ledger entry) and writes
the deduplication record last (`Accept`), so a retry may route a second copy; `Copies` are
numbered in the order of routing. The tick consumes the queue, tells the ledger and feeds
the reducer (`Tick`). A stop detaches the coordinator and reconciles its copy of the
ledger, one audit after the other (`BeginStop`, `ReconcileNext`); the session may be
attached again meanwhile (`Attach`). The reducer embeds one batch at a time, halves it
after two failures in a row, and gives a single comment up after three
(`BeginRun`, `Embedded`, `EmbeddingFails`). `overlapped` and `glitched` are ghosts that
name the two situations in which a property below does not hold (section 5).

## 3. Runs

| run | instance | states | shows |
|---|---|---|---|
| `evidence` | 1 handler with pairs of facts and deferral, 1 sweeper, Stop, 3 facts, 1 fault, 4 staging calls, give-up allowed | 43 140 | types; only committed facts are reported; none is discarded or lost; the whole implements `UsageLedger`; every fact is reported; a kept record is released |
| `delivery` | 2 senders, 3 rows (one refused), 1 fault | 84 985 | order; delivered means accepted; outcomes are final; every row settles |
| `tts_capacity` | 4 callers, 2 sessions, 2 batch keys, 2 slots, all age stages | 658 902 | types; exact capacity; FIFO within a session |
| `tts_answers` | 4 callers of a session each, three of them HIGH, 2 batch keys, 2 slots, all age stages | 102 830 | the reserved slot keeps the NORMAL request from its deadline; every caller is answered |
| `tts_survives` | `tts_capacity` with a HIGH caller, smaller credits and two age stages | - | **violated**: a disconnect kills the dispatcher |
| `execution` | start, hold, resume and end, 1 request task, all reports of a life with a sick runtime, 1 fault, 1 lost lease | 358 485 | types; a command acts once; an end is silent; a fault is kept; closing ends; implements `ExecutionLifecycle` |
| `execution_held` | start, hold, interrupt, 1 fault | - | **violated**: held is not silent |
| `termination` | watcher, monitor and API, 2 teardowns, 2 refusals of a fact, 1 fault, 1 lost lock | 488 383 | types; record before delete; no fact lost; true cleanup; only spent leases end; the record is current; a lost lease is settled, or all but its refused fact is; media is released |
| `speech` | 2 units, depth 2, 3 turns, one interrupt, hold, failure, say and question each | 270 255 | types; an interrupt silences; the cursor is true; turns settle |
| `speech_survives` | an interrupt only | - | **violated**: an interrupt kills the playback loop |
| `speech_units` | 3 units, the default depth, nothing else | - | **violated**: a unit is spoken twice or out of order |
| `comments` | 2 events (one unreadable), 1 handler, 1 stop, 3 copies, 2 attachments, 1 mishap, queue of 2 | 201 744 | types; consumed and fed once; the ledger answers for every comment; a routed comment settles; a readable one gets through |

Why the bounds are enough.

* Evidence: two facts suffice for every ordering question between rows and a third for the
  numbering of a pair. One fault, because every safety property of the run except the
  refinement is proved for any number (section 4); with two facts, two handlers, Stop and
  two faults they hold in TLC as well (1.2 M states, too long to keep as a run). With four
  staging calls one fault never uses them up: with the calls used up a fact would wait for
  ever, which says nothing of the code.
* Delivery: two accepted rows around a refused one show order and gaps.
* TTS: three requests of one session are what it takes to have one in a batch, one in a later
  group and one left in the queue. `LastAge` bounds the stages in `tts_survives`, where
  deadlines play no part. In `tts_answers` three HIGH requests are the least that can leave a
  NORMAL one out of rounds of two slots: two are with the provider, in different batches, and
  the one that comes back from the first finds the third waiting; that two NORMAL requests are
  served in time as well is `NormalsInTime` (section 4). `Brisk`, in `tts_answers`, says that a
  request passes at most one stage between two rounds, that is, that the provider is not slower
  than the thresholds are apart. Without it a single slow batch would expire anything, and the
  properties would be about the provider.
* Execution: every kind of job (command, start, report, closing, fault) runs next to every
  other, with one fault and one lost lease at the worst moment. One request task is enough
  for what the closing task and the recorder do to it; the safety theorems are for any
  number. `ClosingAttempts` is 2 instead of 12: one that fails and one that succeeds.
* Termination: two teardowns are the least that tell a retry from a recorded failure (the code
  has 3), and two refusals the least that tell one that is tried again from the last
  (`UNSTAGEABLE_AFTER` is 5); refusals use up no fault. A fault and a lost lock is the worst
  pair the code is built for. The safety theorems have no bound. `ControlLostSettles` and
  `MediaIsReleased` are stated as `<>[]`: a lease fails once and an avatar starts once, so from
  some moment on the matter is settled. TLC checks this much faster than the same with `~>`;
  `EveryCallerIsAnswered` is written with `[]<>`, which is equivalent to its `~>`, for the same
  reason.
* Speech: with depth 2 one turn plays while another waits; the third turn is the one that
  is decided after an interrupt. Units and depth of `speech_units` are the code's default
  depth and the least script that fills it.
* Comments: two copies of one event and one of another are what it takes to count one
  twice; two attachments show a ledger of one met by a stop of the other.

All bounds are constants: `MaxFaults`, `MaxAttempts`, `MaxPending`, `LastAge`, `Brisk`,
`MaxLosses`, `UnstageableAfter`, `MaxTurns`, `MaxInterrupts`, `MaxHolds`, `MaxFailures`,
`MaxSays`, `MaxQuestions`, `MaxCopies`, `MaxAttaches`, `MaxMishaps`. Deadlock checking is off
because each system may rest: all facts reported, all rows purged, no caller, the script or the
session at its end.

### Fairness

* Evidence: a process inside a handler goes on (weak). A dead holder's lease expires (weak;
  Redis does that). Each due row and each held record gets its turn at the lock (strong):
  `stale_staged` orders by least recently tried, every sweep tries again, and rows that
  fail back off for at most 300 s.
* Delivery: a pass goes on (weak); a row that keeps falling due is claimed (strong: claims
  take the oldest due rows first); a receiver that is asked again and again answers
  (strong). Without the last one no delivery can be promised.
* TTS: the dispatcher task runs and the provider answers (weak); timers fire (strong,
  because the event loop runs them only between two pieces of dispatcher code). The
  dispatcher's weak fairness is written with its enabling condition spelled out, which TLC
  evaluates much faster than `ENABLED` over the selection.
* Execution: a task goes on with what it began (weak); the closing task, the recorder and a
  request that finds the session closing, which retry while others use the lock for a
  moment, get it (strong). The API must read the session for that: after a restart nobody
  else completes the closing.
* Termination: the watcher sweeps for ever, the monitor retries, a task inside a stop goes
  on (weak); whoever keeps asking for the session lock, which everybody holds briefly, gets
  it (strong). Nobody promises that the API calls Stop.
* Speech: every task of the event loop runs on, and a direct say ends (weak). Nobody
  promises that a hold is resumed, hence the disjunct `frozen` in `TurnsSettle`.
* Comments: requests, reconciliations, the tick and the reducer run on (weak). Nobody
  promises a stop or an activation, hence the disjuncts of `RoutedSettles`.

## 4. What is proved

All theorems hold for every value of the constants, in particular for any number of facts,
processes, commands, units, events and faults. They assume only the `ASSUME`s of the
modules: finite sets where something is counted, null values that differ from the values,
and domains. Five of them say when a property holds that is not true of every instance; each
states the condition in its own `ASSUME`, and below it is said why the condition is needed:

| theorem | condition | without it |
|---|---|---|
| `NormalsInTime` | `Brisk`, at most two NORMAL callers | late with three |
| `SurvivesTogether` | one batch key, or nobody leaves | `tts_survives` |
| `HoldsAreSilent` | no failed write or restart, no lost lease | `execution_held`; a lost lease between two holds |
| `UndisturbedPlaybackSurvives` | no interrupt, revision or refused turn | `speech_survives` |
| `UndisturbedUnitsInOrder` | the same, and `Depth <= 2` | `speech_units`; one interrupt or failure at depth 1 |

`UsageEvidenceProofs` proves `TypeCorrect`, `OnlyCommittedReported`,
`CommittedNeverDiscarded` and `NothingEverLost`. None of these is inductive. `IInv` adds
what the protocol really relies on:

* `KnownTokens`: tokens are fresh, and a token in a copy, a row or the proof was issued.
* `ProofLanded`, `ProofComplete`: the proof in the record, and in every copy that may still
  be saved, holds only tokens that landed, and every landed token of an unresolved row.
* `Unlanded`: what a handler staged and has not saved is in no proof.
* `KeepsAll`: a copy whose owner still has the lock contains everything the record has.
  This is the fence's real content: the owner of the lock is the only one who can change
  the record, so its copy is never out of date when it matters.
* `OwnRowsStand`: while a sweeper has the lock between its proof and its tombstone, nobody
  commits the row.
* `StopCovers`, `NothingOwed`: Stop deletes only a record no unresolved row depends on.

The proof goes by frames: `RowsFrom`, `MetaFrom`, `CopyFrom`, ... each say in which few
ways a step can change one variable, and each conjunct is then shown from the frames and
not from two dozen actions. Doing it showed that the second keep-alive of the sweeper
(before the tombstone) matters only where Stop resolves several rows under one lock.

`UsageLedgerProofs` proves `LedgerIsImplemented`, the refinement of `UsageLedger`: numbers
have no gap, never change and follow the order of the saves. `mark_ready` knows nothing of
that order, it sees versions only. So `LInv` adds to `IInv` that versions agree with it:

* `InOrder`: of two facts saved one after the other, the later one is staged only if the
  earlier one is numbered, given up, or staged with a smaller version.
* `Describes`: the record knows every fact of the saves and every version of a committed
  row, and its deferred facts stand in the order of their saves. Both are stated of the
  record (`RecordInOrder`) and, as the state its save would leave, of the copy a lock holder
  may write back (`CopiesInOrder`).
* `RequestIsNew`: an ordinary request that goes on has new facts, and nothing is deferred.
* `NumbersExact`: the numbers given are 1 to `last`, one for each numbered row; kept because
  the rank in (version, event id) order is a bijection (`RankFacts`).

A report needs `CommittedNotDiscarded` too: `InOrder` speaks of staged rows only, so it says
nothing of a tombstone that `mark_ready` would revive.

`UsageDeliveryProofs` proves `TypeCorrect`, `DeliveryInOrder`, `DeliveredIsAccepted` and
`OutcomesAreFinal`. The invariant behind the order is `SentAfterEarlier`: whoever still has
a row to send, or a copy of it on the way, took it when every lower-numbered row was final,
and final is for good; and `SettledWasHeard`: a final row with a willing receiver is in
the receiver's log. A stale sender is harmless for that reason and not because of its lease.

`ExecutionProofs` proves `TypeCorrect`, `CommandsActOnce`, `LiveIsEarned`, `EndsStaySilent`,
`FaultsAreKept` and the refinement `LifecycleIsKept`. `IInv` says that what a task is about
to write was decided on what is stored as long as it has the lock (`Based`, `JobsFit`,
`WritesFit`), that one task at most is about to give a command its effect (`EffectsOnce`),
that whoever is about to drop a fault finds the session stored as over (`FaultStored`), that
an opening precedes every report of a broadcast (`OpenedFirst`), and that the fence is up
after an end took effect (`Silence`). A stale holder is harmless because the fence of the
store refuses its write; the refinement needs nothing more. `EndIsSilent` is stated for
runs without a lost lease, see section 5.

`HeldStaysSilent` says of every execution that until the first failed write, restart or lost
lease no turn starts while the session is stored as held, and `HoldsAreSilent` that an
execution without them satisfies `HeldIsSilent`, the property of `execution_held`. The
invariant is `HeldFence`: the fence is up before a hold is written, and comes down only for
a resume, of which the session that was written is not held. It takes `IInv`: the holder of
the lock writes what it decided on what is stored. A lost lease alone breaks it: two
requests hold, the lease of the first runs out before its write, the second takes over and
puts its own fence up; the refused write of the first then restores the fence it had found,
which was none, and a turn may start when the second hold has landed.

`TerminationProofs` proves `TypeCorrect`, `RecordComesFirst`, `FactSurvives`,
`CleanupReportsTrue`, `PaidTimeRuns` and `RecordsAreCurrent`. The division of the invariant is
the argument: what a task knows of the *session* is true while it has the lock; what it knows
of the *media* and of the *record* is true without it, because a release is never undone within
a process and the first record stays. That is why `persist_terminal` needs no fence.
`ParkedFactsStay` is about the facts that are left to an operator: the record of their session
is stored, and a step either keeps both or stages the fact after all. It rests on
`RefusedLate`: only a failed session owes a fact, and a session whose fact was refused is
marked `settling`, which a stop does only after it has stored the record.

`CommentsProofs` proves `TypeCorrect`, `EventsAreFedOnce` and `CommentsAreRecorded`. `IInv`
relates the queue, the ledger, the reducer and the stops: `Counted` and `Named` say which
copies an entry may name, `Standing` that an attached session is in reducer mode and another
has an empty queue, `BatchWaits` that a batch being embedded is still pending if its state is
there, `Fenced` that no entry is newer than the counter a stop would be given, and `Walks`
that every entry is an unconsumed copy in the queue while the session is attached, and what
the one stop still has to walk over while it is not. It rests on a comment being routed only
into a free slot, so that the queue evicts consumed copies only.

`SpeechProofs` proves `InterruptsSilence`, `TheCursorIsTrue` and `TypeCorrect`. `IInv` has
`Shapes`, the part of the types that needs no value of the projection, `Numbered` (the turns
decided so far are the first ones, so a new turn never has the number of one with an outcome),
`OfItsTime` (no turn is of a generation to come) and `Doomed` (what an interrupt found open
is of an older generation, and is not playing). `Typed` is `TypeOK` made inductive: the turn
that is being announced is one, and the generation counts interrupts and revisions. What it
takes is `ProjectedTyped`: over whatever is in the loop's hands and in the queues, in
whatever order, the projected cursor stays between the first unit and one behind the last.

Two theorems are about `Undisturbed` sessions, in which nobody interrupts or revises the
script and no turn is refused or fails; questions, holds, resumes and says are as free as
anywhere. `UndisturbedPlaybackSurvives` rests on `HasATurn`: the queue behind whose lock the
loop waits has a turn for it, because only an interrupt, a revision or a refusal takes one
away. `UndisturbedUnitsInOrder` rests on `Steady`. It looks at the turns on their `Way`, those
in the loop's hands, then the speech queue, then the decision queue, and says that they form
a `Chain`: each is an answer or the unit at which the cursor will stand when its turn comes,
so the filling may go on where the last one leaves it (`InOrder`), no turn is on the way
twice and all are open (`WayTidy`), all that was decided is in preparation but the one being
announced (`FillTidy`), and what the loop let go came to an end (`LoopTidy`). `ChainGrows` and
`ChainShrinks` carry the chain over a decision and over the end of a turn. The code projects
the cursor over the decision queue first, which is not the order of the way; with room
for two that makes no difference (`ProjectionFollows`), because another turn is decided only when
at most one is waiting. With three, the code's default, it does.

`TtsSchedulerProofs` proves, for any callers, sessions, priorities, credits, batch keys,
limits and batch size:

* `AdmissionIsExact`, `CapacityIsReturnedOnce`: the counters of admission are exact and
  capacity is taken and returned once;
* `FirstComeFirstServed`: the requests of one session and priority are dispatched in
  submission order;
* `BatchesFit`: a batch has at most `MaxBatch` requests, none twice, all of one key;
* `RoundsAreFair`: a round that dispatches fills the batch or takes everybody, and serves the
  NORMAL request that has waited longest if it is aged;
* `NormalsInTime`: at most two NORMAL requests never pass their deadline in the queue, if
  rounds are `Brisk`;
* `OnlyALeaverKills`: the dispatcher dies only in the dispatch of a batch with a member that
  was cancelled, left, and left others waiting in its queue; `SurvivesTogether`: so it does
  not die if all share one batch key, or if nobody leaves;
* `TypeCorrect`.

The proof first shows what the selection computes, bottom up, as facts about `TtsFairness`:

* `Only` and `Without` keep what they say in its order, `InOrder` lists every element once
  (`OnlyKeeps`, `WithoutKeeps`, `InOrderLists`);
* `Fair` is the invariant of a tier's round robin: every request of the tier is either picked
  or in the queue of its session, and the picked ones are ahead, in order. Each of
  `StartTally`, `Credited`, `Visit`, `Round` keeps it;
* `TierConserves`: each turn picks a request or retires a session (`RoundProgress`, with
  `Weight` as the measure), so twice as many turns as there are requests are enough: a tier
  ends with the batch full or with nobody left, and the bound in `TierPicks` never cuts it
  short;
* `Selected` is the contract of `Select`: room respected, nobody twice, full or everybody, the
  selection a first part of every queue (`FirstOfQueues`), the oldest aged NORMAL request
  in it. `GroupedByKey` says that the batches are the selection, by key, in its order.

`SInv`, the inductive invariant, has besides types and accounting (`IInv`, `Kept`):

* `Line`: the population is in order of age and no cancelled request is in it. Without it,
  aged first would not be first come, first served;
* `Rounds`: the batches that are still to be dispatched are of different keys and in order, and
  whoever is ahead of a member in its queue, if it still waits, is a member. That is what
  makes a later `Dispatch` safe although callers come and go while an earlier batch is with the
  provider, and what `FifoPerSession` follows from;
* `Calls`: what the provider has is in flight.

`NormalsInTime` adds `Pace`. A NORMAL request is urgent only in the batch that goes out next, or
if it became so since the last round; otherwise it is aged at most. Of two NORMAL requests
the one that waits behind the other is a stage younger still, since it came when the other
had already been there or a round served its predecessor. Each round serves the first of
them as soon as it is aged (`RoundsAreFair`), whatever the HIGH tier has to offer, so the second
has the next round; a brisk round costs it one stage. A third has no round left: TLC finds it
late. `Brisk` counts stages between rounds, so this is a statement about a dispatcher that lives;
what becomes of the callers of a dead one is section 5, 1.

`SurvivesTogether` goes by `Intact`, that whoever is in the round still waits, once because
a round with one key is one batch that is dispatched as it is selected (`Alone`), once because
nobody leaves (`Stays`).

The proof attempt corrected the model's property. `FifoPerSession` used to say that an
earlier request that is left behind is still in the round; with three batch keys that is
false: the dispatcher may die in the middle of a batch (section 5, 1) when the earlier one is
in a later batch, which is dropped with the task. No small instance had shown it. The
exception is now part of the property, and the other half, that the two are of different
keys, holds there too.

Facts about recursive functions are proved through the least number at which they would fail
(`Least`, `Induct`, `InductIn`), because the induction theorems of the library take an operator
as a parameter. For that the functions the proofs are about are recursive functions of an
index, in `Orders`, `TtsFairness` and `Speech`, and not `SelectSeq`, `SortSeq` or `FoldLeft`,
whose operator arguments no prover can open.

Only model-checked: all liveness, which is out of the prover's reach, like `ENABLED`. Every
safety property of the passing runs is stated by a theorem, `NormalMeetsDeadline` for at most two
NORMAL callers; with more it is false, which is the reserved slot's limit:
one NORMAL request a round. The four properties that TLC finds violated cannot be theorems of
their models; the table above says when each does hold.

## 5. Disagreements with the documentation

Each is a run that TLC finds violated; `PROJECT.json` quotes the lines. The
theorems named at the end of each delimit it (section 4).

1. `tts_survives`: `_dispatch_group` removes its members from the population when its turn
   comes. If a member left while an earlier group was with the provider and its queue is not
   empty, `remove` raises, the dispatcher task ends and every caller hangs. `submit` promises
   that siblings are never disturbed. With one batch key, or with one caller per session
   (`tts_answers`), it cannot happen; today's HTTP API with VieNeu has one key.
   `OnlyALeaverKills`: nothing else ends the task; `SurvivesTogether`: with one key, or without
   leavers, it survives.
2. `execution_held`: when the reply to a hold's write is lost, the handler restores the fence
   it found although the write has landed: the session is stored as held and the stream goes
   on speaking. `HoldsAreSilent`: without failed writes, restarts and lost leases it does not.
3. `speech_survives`: an interrupt empties the speech queue while the loop waits for the
   decision lock; the loop then takes from the empty queue, the exception ends its task and
   the stream falls silent for good. `UndisturbedPlaybackSurvives`: without interrupts,
   revisions and refused turns the loop goes on.
4. `speech_units`: the projection replays the decision queue before the speech queue, although
   turns move from the first to the second; with the default depth a unit of the approved
   script is decided and spoken twice. `UndisturbedUnitsInOrder`: with a depth of two and no
   disturbance every unit starts in its turn.

Smaller observations, met while modelling; no run is kept for them:

* TTS: the credits of the round robin are zeroed between rounds (`fairness.py:165`) and ties
  go to the smaller session id. With fewer slots than HIGH sessions, all with aged requests,
  the session with the greatest id meets its deadlines unserved. If a cancelled request's
  queue is empty it takes a slot of the batch.
* Execution: a lease of the lock that runs out under its holder lets a late hold refusal or
  resume lift the fence of an End, and a late hold refusal that of another request's hold; a
  failed restore of a hold (`execution.py:476`) and the renewal of a lease (`:354`) lift the
  fence without waking the loop.
* Termination: a usage fact refused for good keeps its session until an operator acts, as the
  docstring of `keep_for_unstaged` says; hence the disjunct `Parked` in `ControlLostSettles`.
  The watcher goes on visiting such a session at every sweep, and the keep-alive of the usage
  sender (`holds_evidence`) goes on extending its TTL. An avatar failure whose process
  stops before its stop is finished leaves no mark, so nobody completes it; the docstring of
  `run_with_deadline` knows nothing of the unfenced `persist_terminal`;
  `list_unterminated_executions` has no filter by owner, so the shutdown sweep of one replica
  records the executions of all.
* Locks: `SessionLockRegistry.drop` on stop lets an old holder release a new lock.
* Speech: an interrupt at the tail of a completed turn records it as cancelled too;
  `_streaming_say` takes the say lock and awaits before its `try`, so a cancellation there
  keeps the lock; a session attached again with an unchanged catalog restarts the token.
* Comments: a teardown between the routing and `_reducer_deferral_active` tells the reducer
  of a comment that died with its queue, hence `FedOnce` is stated for attached sessions;
  a session attached again while a stop reconciles may have a copy untracked or a consumed
  event downgraded (`overlapped`), and two overlapping stops of one session end in a
  `KeyError` (`ingestion.py:931`); the quarantine counts failures of batches too, so after a
  transient failure a readable comment may be dropped (`glitched`); comments that left the
  selection window unconsumed hold capacity of the queue for ever; an attach that comes
  after a deletion leaves a coordinator without a session.

## 6. What the models leave out

* Evidence: the record's TTL outlasting every sweeper: `MetaExpires` is guarded by the evidence
  that the keep-alive protects, since the TTL is seven days and sweeps are 30 s apart; an
  outage longer than the TTL would lose the proof, and nothing here speaks of it. The cap of 64
  deferred facts looked at per save; a record whose generation changes (its rows are parked);
  which interval an unusable open one falls back to; cost and COGS rows; the retry arithmetic
  (a retry is "due" at any time); client retries inside the Redis library. Give-up is modelled
  for a blocked head of the queue only. Stop resolves its rows in any order. `_drain_soon` is a
  sweeper that starts at once; evidence recorded by the closing task is one more handler.
* Delivery: signing and payloads; several identities (they share no numbers).
* TTS: metrics, counters, audio. All requests of one caller have the same batch key.
* Execution: payloads of evidence other than phase, number and health; the registration of
  an execution succeeds; idempotency of request ids is that of command ids.
* Termination: several sessions (they share only the sweep); delivery of the terminal outbox;
  the text of reasons; the cost fact of a release.
* Speech: a turn put back behind a fence that is then lifted without waking the loop
  (`lifted`): it waits for the next wake-up, and `TurnsSettle` excuses it. Audio, prompts, the
  LLM and safety checks (a turn is accepted or rejected); the legacy path without an approved
  script; telemetry.
* Comments: what becomes of a session that is attached again while it is reconciled
  (`overlapped` excuses it), and a second stop; sessions that do not opt in; several events in
  one request; the truncation by `max_pending`; clustering (an embedded comment is a member);
  several attach requests at once.
* Components marked `not_modelled` in `PROJECT.json`, each with its reason. Of those with
  concurrency of their own: the speech arbiter (`live_runtime/speech_arbiter.py`, whose
  winner may be stale when its await returns) is imported by no running part of the service;
  the cost meter's buffer and the render queue are small and in the plan. Script authoring is
  a long sequential workflow over rows with optimistic versions, most of it prompts and text.
  The share of the implementation the map covers is small for that reason: most lines of the
  repository are adapters, schemas, prompts, text processing, configuration and wiring.

## 7. Plan

Done: usage evidence, delivery, the TTS scheduler, the execution contract, termination, the
turns of the director, the way of the comments, each with its proofs: every safety property of
the passing runs is stated by a theorem, and every disagreement has a theorem that delimits it.
What is left, in order:

1. delivery of the terminal outbox (lease, redelivery, acknowledgement), on the pattern of
   `UsageDelivery`;
2. the cost meter's buffer: drain, requeue and shutdown against producer threads;
3. the render queue's cancel against its worker, the playback queue's shutdown;
4. script authoring: approvals and versions of a plan against regeneration.
