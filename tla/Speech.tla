-------------------------------- MODULE Speech --------------------------------
(***************************************************************************)
(* The turns of one session (application/director/coordinator.py): the     *)
(* tick decides turns ahead of their time on a projection of the script    *)
(* cursor, a task per turn prepares it, and the playback loop plays the    *)
(* prepared ones, one after the other, next to an operator's direct say.   *)
(* All run on one event loop; what other tasks do comes in between at each *)
(* await.  An event to the control hub may keep a task waiting.  The       *)
(* session's start, stop and fatal failure are those of Execution.         *)
(***************************************************************************)
EXTENDS Integers, Sequences, SequencesExt, FiniteSets

CONSTANTS
  Units,          \* parts of the approved script
  Depth,          \* prepared_turn_depth
  MaxTurns,       \* bound: turns decided
  MaxInterrupts,  \* bound: interrupts, and new catalogs or configurations
  MaxHolds,       \* bound: speech is held, or a budget lease runs out
  MaxFailures,    \* bound: turns rejected or failed
  MaxSays,        \* bound: direct says of the operator
  MaxQuestions    \* bound: questions of viewers

ASSUME ConstantsAssumption ==
  /\ Units \in Nat \ {0} /\ Depth \in Nat \ {0} /\ MaxTurns \in Nat
  /\ MaxInterrupts \in Nat /\ MaxHolds \in Nat /\ MaxFailures \in Nat
  /\ MaxSays \in Nat /\ MaxQuestions \in Nat

VARIABLES
  next,       \* cursor: the next unspoken unit
  asked,      \* a question waits for an answer
  gen,        \* the generation token
  turn,       \* every turn: its unit (0: an answer), its generation, what became of it
  decided,    \* decision queue
  ready,      \* speech queue
  preparing,  \* turns with a preparation task
  fill,       \* the decision lock: who fills the queues, and how far it got
  loop,       \* the playback loop, and the turn it took from the queue
  event,      \* the loop has something to look at
  frozen,     \* no turn may start
  locked, saying,  \* the speech lock; a direct say goes on
  doomed,     \* history: turns that were open when an interrupt came
  lifted,     \* history: a fence went without anybody telling the loop
  interrupts, holds, failures, says, questions

queues == <<turn, decided, ready, preparing>>
bounds == <<interrupts, holds, failures, says, questions>>
control == <<gen, frozen, locked, saying, doomed, lifted>>
vars == <<next, asked, queues, fill, loop, event, control, bounds>>

Turns == 1..MaxTurns
Answer == 0

Outcomes == {"none", "open", "played", "skipped", "cancelled", "failed"}

NoFill == [who |-> "nobody", left |-> 0, unit |-> 1, asked |-> FALSE, turn |-> 0]

LoopPC == {"wait", "next", "boundary", "revalidate", "speak", "failing", "finishing", "pause",
           "fill", "refill", "dead"}

Init ==
  /\ next = 1 /\ asked = FALSE /\ gen = 0
  /\ turn = [t \in Turns |-> [unit |-> 0, gen |-> 0, outcome |-> "none"]]
  /\ decided = << >> /\ ready = << >> /\ preparing = {}
  /\ fill = NoFill /\ loop = [at |-> "wait", turn |-> 0] /\ event = FALSE
  /\ frozen = FALSE /\ locked = FALSE /\ saying = FALSE /\ doomed = {} /\ lifted = FALSE
  /\ interrupts = 0 /\ holds = 0 /\ failures = 0 /\ says = 0 /\ questions = 0

IsOpen(t) == turn[t].outcome = "open"

\* The turn that is being played.
Speaking == loop.at \in {"speak", "failing", "finishing"}

\* _speech_live.
Live(t) == IsOpen(t) /\ turn[t].gen = gen

(***************************************************************************)
(* What becomes of turns.                                                  *)
(***************************************************************************)
\* A turn keeps its first outcome.
Ended(table, S, outcome) ==
  [t \in Turns |-> IF t \in S /\ table[t].outcome = "open"
                   THEN [table[t] EXCEPT !.outcome = outcome] ELSE table[t]]

\* _invalidate_queued: every queued turn is cancelled, with its preparation, and
\* the loop is told; the turn in its hands is not.  S are cancelled besides.
Invalidate(S) ==
  /\ turn' = Ended(turn, S \cup ToSet(decided) \cup ToSet(ready), "cancelled")
  /\ decided' = << >> /\ ready' = << >> /\ preparing' = {} /\ event' = TRUE

\* A turn is given up; behind a unit no later one may play.
GiveUp(t) ==
  IF turn[t].unit = Answer
  THEN turn' = Ended(turn, {t}, "cancelled") /\ UNCHANGED <<ready, event>>
  ELSE Invalidate({t})

(***************************************************************************)
(* _projected_director and the script part of decide: what comes after the *)
(* turns that are on their way.                                            *)
(***************************************************************************)
OnTheWay ==
  (IF loop.turn # 0 /\ IsOpen(loop.turn) THEN <<loop.turn>> ELSE << >>) \o decided \o ready

\* mark_spoken on a projection: only the next unit moves the cursor.
AfterUnit(u, t) == IF turn[t].unit = u THEN u + 1 ELSE u

Projected ==
  LET after[i \in 0..Len(OnTheWay)] ==
        IF i = 0 THEN next ELSE AfterUnit(after[i - 1], OnTheWay[i])
  IN after[Len(OnTheWay)]

AnswerIsNext == asked /\ \A i \in DOMAIN OnTheWay : turn[OnTheWay[i]].unit # Answer

Used == Cardinality({t \in Turns : turn[t].outcome # "none"})

\* Is there a turn to decide (the bound on turns apart)?
Decides(unit, answer) == (answer \/ unit <= Units) /\ Used < MaxTurns

\* The next turn is decided and announced, which is an await.
Decide(who, left, unit, answer) ==
  LET t == Used + 1
  IN /\ turn' = [turn EXCEPT ![t] = [unit |-> IF answer THEN Answer ELSE unit, gen |-> gen,
                                     outcome |-> "open"]]
     /\ decided' = Append(decided, t)
     /\ fill' = [who |-> who, left |-> left - 1, unit |-> IF answer THEN unit ELSE unit + 1,
                 asked |-> FALSE, turn |-> t]

(***************************************************************************)
(* _fill_prepared, by the tick or by the playback loop.                    *)
(***************************************************************************)
\* Mutant: one turn more than there is room for.
MissingAndOne == Depth + 1 - Len(ready) - Cardinality(preparing)

Missing == Depth - Len(ready) - Cardinality(preparing)

\* Where the loop goes on after it filled the queues.
AfterFill == [loop EXCEPT !.at = IF loop.at = "refill" THEN "wait" ELSE "next", !.turn = 0]

Fills == ~frozen /\ Missing > 0 /\ Decides(Projected, AnswerIsNext)

\* The loop, if it waits for the decision lock, was first.
TickFill ==
  /\ fill.who = "nobody" /\ loop.at # "boundary" /\ Fills
  /\ Decide("tick", Missing, Projected, AnswerIsNext)
  /\ UNCHANGED <<next, asked, ready, preparing, loop, event, control, bounds>>

LoopFill ==
  /\ loop.at \in {"fill", "refill"}
  /\ \/ /\ fill.who = "nobody" /\ Fills /\ Decide("loop", Missing, Projected, AnswerIsNext)
        /\ UNCHANGED <<ready, preparing, loop>>
     \/ /\ fill.who = "nobody" /\ ~Fills /\ loop' = AfterFill /\ UNCHANGED <<queues, fill>>
     \/ /\ fill.who = "tick" /\ frozen /\ loop' = AfterFill /\ UNCHANGED <<queues, fill>>
  /\ UNCHANGED <<next, asked, event, control, bounds>>

\* The announcement is out: the turn is prepared, and the next one decided, on
\* the projection the filling began with.
Announced ==
  /\ fill.who # "nobody" /\ preparing' = preparing \cup {fill.turn}
  /\ IF fill.left > 0 /\ ~frozen /\ Decides(fill.unit, fill.asked)
     THEN Decide(fill.who, fill.left, fill.unit, fill.asked) /\ UNCHANGED loop
     ELSE /\ fill' = NoFill /\ UNCHANGED <<turn, decided>>
          /\ loop' = IF fill.who = "loop" THEN AfterFill ELSE loop
  /\ UNCHANGED <<next, asked, ready, event, control, bounds>>

(***************************************************************************)
(* _prepare_turn: turns are prepared in the order they were decided.       *)
(***************************************************************************)
\* The turn was invalidated before its task ran.
PrepareGone(t) ==
  /\ t \in preparing /\ ~Contains(decided, t) /\ preparing' = preparing \ {t}
  /\ UNCHANGED <<next, asked, turn, decided, ready, fill, loop, event, control, bounds>>

IsFirst(t) == t \in preparing /\ decided # << >> /\ Head(decided) = t

Prepared(t) ==
  /\ IsFirst(t) /\ decided' = Tail(decided) /\ preparing' = preparing \ {t}
  /\ IF turn[t].gen = gen
     THEN ready' = Append(ready, t) /\ event' = TRUE /\ UNCHANGED turn
     ELSE turn' = Ended(turn, {t}, "cancelled") /\ UNCHANGED <<ready, event>>
  /\ UNCHANGED <<next, asked, fill, loop, control, bounds>>

Failure == failures < MaxFailures /\ failures' = failures + 1

\* A question whose answer is refused is not answered any more.
PrepareRejected(t) ==
  /\ IsFirst(t) /\ Failure /\ GiveUp(t)
  /\ asked' = (asked /\ turn[t].unit # Answer)
  /\ turn[t].unit = Answer => decided' = Tail(decided) /\ preparing' = preparing \ {t}
  /\ UNCHANGED <<next, fill, loop, control, interrupts, holds, says, questions>>

(***************************************************************************)
(* The playback loop.                                                      *)
(***************************************************************************)
At(at, t) == loop' = [at |-> at, turn |-> t]

Wake ==
  /\ loop.at = "wait" /\ event /\ event' = FALSE /\ At("next", 0)
  /\ UNCHANGED <<next, asked, queues, fill, control, bounds>>

Rest ==
  /\ loop.at = "next" /\ (ready = << >> \/ frozen) /\ At("wait", 0)
  /\ UNCHANGED <<next, asked, queues, fill, event, control, bounds>>

\* _refresh_at_boundary waits for the decision lock.
Wait ==
  /\ loop.at = "next" /\ ready # << >> /\ ~frozen /\ fill.who # "nobody" /\ At("boundary", 0)
  /\ UNCHANGED <<next, asked, queues, fill, event, control, bounds>>

AtBoundary ==
  /\ fill.who = "nobody"
  /\ loop.at = "boundary" \/ (loop.at = "next" /\ ready # << >> /\ ~frozen)

\* A question came: the script parts prepared behind the boundary can wait.
Refreshes == ready # << >> /\ ~frozen /\ turn[Head(ready)].unit # Answer /\ asked

Refresh ==
  /\ AtBoundary /\ Refreshes /\ Invalidate({}) /\ At("refill", 0)
  /\ UNCHANGED <<next, asked, fill, control, bounds>>

\* The head of the queue is taken, and its approval read again, which is an await.
Take ==
  /\ AtBoundary /\ ~Refreshes /\ ready # << >> /\ ready' = Tail(ready)
  /\ LET t == Head(ready)
     IN IF turn[t].gen = gen THEN At("revalidate", t) /\ UNCHANGED turn
        ELSE turn' = Ended(turn, {t}, "cancelled") /\ At("next", 0)
  /\ UNCHANGED <<next, asked, decided, preparing, fill, event, control, bounds>>

\* The queue was emptied while the loop waited for the lock: popleft raises, and
\* nothing starts the loop again.
Die ==
  /\ AtBoundary /\ ready = << >> /\ At("dead", 0)
  /\ UNCHANGED <<next, asked, queues, fill, event, control, bounds>>

\* The turn may not start now: it stays queued, and the loop tries again later.
PutBack(t) ==
  /\ ready' = <<t>> \o ready /\ At("pause", 0)
  /\ UNCHANGED <<turn, decided, preparing, event, locked, failures, asked>>

\* The approval does not hold any more.
Refuse(t) ==
  /\ GiveUp(t) /\ At("fill", t)
  /\ asked' = (asked /\ turn[t].unit # Answer)
  /\ turn[t].unit = Answer => UNCHANGED <<decided, preparing>>
  /\ UNCHANGED locked

\* Mutant: the turn's generation is not looked at after the await.
RevalidatedOnce ==
  /\ loop.at = "revalidate"
  /\ \/ Failure /\ Refuse(loop.turn)
     \/ (frozen \/ locked) /\ PutBack(loop.turn)
     \/ /\ ~frozen /\ ~locked /\ locked' = TRUE /\ At("speak", loop.turn)
        /\ UNCHANGED <<queues, event, failures, asked>>
  /\ UNCHANGED <<next, fill, gen, frozen, saying, doomed, lifted, interrupts, holds, says,
                 questions>>

\* _maybe_speak, from the answer of the store to the speech lock: no await.
Revalidated ==
  /\ loop.at = "revalidate"
  /\ \/ ~Live(loop.turn) /\ Refuse(loop.turn) /\ UNCHANGED failures
     \/ Live(loop.turn) /\ Failure /\ Refuse(loop.turn)
     \/ Live(loop.turn) /\ (frozen \/ locked) /\ PutBack(loop.turn)
     \/ /\ Live(loop.turn) /\ ~frozen /\ ~locked /\ locked' = TRUE
        /\ At("speak", loop.turn) /\ UNCHANGED <<queues, event, failures, asked>>
  /\ UNCHANGED <<next, fill, gen, frozen, saying, doomed, lifted, interrupts, holds, says,
                 questions>>

\* Mutant: a turn that was put back is not looked at again.
PauseForGood ==
  /\ loop.at = "pause" /\ At("wait", 0)
  /\ UNCHANGED <<next, asked, queues, fill, event, control, bounds>>

Pause ==
  /\ loop.at = "pause" /\ At("wait", 0) /\ event' = TRUE
  /\ UNCHANGED <<next, asked, queues, fill, control, bounds>>

\* Mutant: the cursor moves behind whatever unit was spoken.
MarkFurthest(t) == IF turn[t].unit >= next THEN turn[t].unit + 1 ELSE next

\* mark_spoken and mark_skipped on the real cursor.
MarkSpoken(t) == AfterUnit(next, t)

Played ==
  /\ loop.at = "speak" /\ IsOpen(loop.turn)
  /\ turn' = Ended(turn, {loop.turn}, "played") /\ next' = MarkSpoken(loop.turn)
  /\ asked' = (asked /\ turn[loop.turn].unit # Answer) /\ At("finishing", loop.turn)
  /\ UNCHANGED <<decided, ready, preparing, fill, event, control, bounds>>

\* The turn's tail: its record is stored and announced, the lock goes back.
Finish ==
  /\ loop.at = "finishing" /\ locked' = FALSE /\ At("fill", 0)
  /\ UNCHANGED <<next, asked, queues, fill, event, gen, frozen, saying, doomed, lifted, bounds>>

\* The avatar does not become ready: the position is retired, unspoken.
Skip ==
  /\ loop.at = "speak" /\ Live(loop.turn) /\ Failure
  /\ turn' = Ended(turn, {loop.turn}, "skipped") /\ next' = MarkSpoken(loop.turn)
  /\ asked' = (asked /\ turn[loop.turn].unit # Answer) /\ At("finishing", loop.turn)
  /\ UNCHANGED <<decided, ready, preparing, fill, event, control, interrupts, holds, says,
                 questions>>

\* A turn that is not live any more ends at its next check, by itself or with an error.
CutOff ==
  /\ loop.at = "speak" /\ ~Live(loop.turn) /\ locked' = FALSE /\ At("fill", 0)
  /\ \/ /\ turn' = Ended(turn, {loop.turn}, "cancelled")
        /\ UNCHANGED <<decided, ready, preparing, event>>
     \/ turn[loop.turn].unit # Answer /\ Invalidate({loop.turn})
  /\ UNCHANGED <<next, asked, fill, gen, frozen, saying, doomed, lifted, bounds>>

\* Speech fails: later units are dropped, and the failure is announced before it
\* is noted; the session goes on.
SpeechFails ==
  /\ loop.at = "speak" /\ Live(loop.turn) /\ Failure /\ At("failing", loop.turn)
  /\ IF turn[loop.turn].unit = Answer THEN UNCHANGED <<queues, event>> ELSE Invalidate({})
  /\ UNCHANGED <<next, asked, fill, control, interrupts, holds, says, questions>>

FailureNoted ==
  /\ loop.at = "failing" /\ turn' = Ended(turn, {loop.turn}, "failed")
  /\ locked' = FALSE /\ At("fill", 0)
  /\ UNCHANGED <<next, asked, decided, ready, preparing, fill, event, gen, frozen, saying,
                 doomed, lifted, bounds>>

(***************************************************************************)
(* Control, by other tasks.                                                *)
(***************************************************************************)
Current == IF Speaking THEN {loop.turn} ELSE {}

\* interrupt: a new generation; what is playing and what is queued is cancelled.
Interrupt ==
  /\ interrupts < MaxInterrupts /\ interrupts' = interrupts + 1
  /\ gen' = gen + 1 /\ Invalidate(Current)
  /\ doomed' = doomed \cup {t \in Turns : IsOpen(t)}
  /\ UNCHANGED <<next, asked, fill, loop, frozen, locked, saying, lifted, holds, failures,
                 says, questions>>

\* update_catalog, update_runtime_config: what is playing goes on.
Revise ==
  /\ interrupts < MaxInterrupts /\ interrupts' = interrupts + 1
  /\ gen' = gen + 1 /\ Invalidate({})
  /\ UNCHANGED <<next, asked, fill, loop, frozen, locked, saying, doomed, lifted, holds,
                 failures, says, questions>>

Hold ==
  /\ ~frozen /\ holds < MaxHolds /\ holds' = holds + 1 /\ frozen' = TRUE
  /\ UNCHANGED <<next, asked, queues, fill, loop, event, gen, locked, saying, doomed, lifted,
                 interrupts, failures, says, questions>>

Resume ==
  /\ frozen /\ frozen' = FALSE /\ event' = TRUE
  /\ UNCHANGED <<next, asked, queues, fill, loop, gen, locked, saying, doomed, lifted, bounds>>

\* A hold that could not be saved is undone, or the budget lease is renewed.
Lift ==
  /\ frozen /\ frozen' = FALSE /\ lifted' = TRUE
  /\ UNCHANGED <<next, asked, queues, fill, loop, event, gen, locked, saying, doomed, bounds>>

Say ==
  /\ says < MaxSays /\ says' = says + 1 /\ ~locked /\ locked' = TRUE /\ saying' = TRUE
  /\ UNCHANGED <<next, asked, queues, fill, loop, event, gen, frozen, doomed, lifted,
                 interrupts, holds, failures, questions>>

SayEnds ==
  /\ saying /\ locked' = FALSE /\ saying' = FALSE
  /\ UNCHANGED <<next, asked, queues, fill, loop, event, gen, frozen, doomed, lifted, bounds>>

Ask ==
  /\ ~asked /\ questions < MaxQuestions /\ questions' = questions + 1 /\ asked' = TRUE
  /\ UNCHANGED <<next, queues, fill, loop, event, control, interrupts, holds, failures, says>>

Loop ==
  \/ LoopFill \/ Wake \/ Rest \/ Wait \/ Refresh \/ Take \/ Die \/ Revalidated \/ Pause
  \/ Played \/ Finish \/ Skip \/ CutOff \/ SpeechFails \/ FailureNoted

Prepare(t) == PrepareGone(t) \/ Prepared(t) \/ PrepareRejected(t)

Next ==
  \/ TickFill \/ Announced \/ Loop \/ \E t \in Turns : Prepare(t)
  \/ Interrupt \/ Revise \/ Hold \/ Resume \/ Lift \/ Say \/ SayEnds \/ Ask

\* Every task runs on; a direct say comes to its end.
Fairness ==
  /\ WF_vars(TickFill) /\ WF_vars(Announced) /\ WF_vars(Loop) /\ WF_vars(SayEnds)
  /\ \A t \in Turns : WF_vars(Prepare(t))

Spec == Init /\ [][Next]_vars /\ Fairness
-----------------------------------------------------------------------------
TypeOK ==
  /\ next \in 1..(Units + 1) /\ asked \in BOOLEAN /\ gen \in 0..MaxInterrupts
  /\ turn \in [Turns -> [unit : 0..Units, gen : Nat, outcome : Outcomes]]
  /\ decided \in Seq(Turns) /\ ready \in Seq(Turns) /\ preparing \subseteq Turns
  /\ fill \in [who : {"nobody", "tick", "loop"}, left : 0..(Depth - 1), unit : 1..(Units + 1),
               asked : BOOLEAN, turn : 0..MaxTurns]
  /\ loop \in [at : LoopPC, turn : 0..MaxTurns] /\ event \in BOOLEAN
  /\ frozen \in BOOLEAN /\ locked \in BOOLEAN /\ saying \in BOOLEAN
  /\ doomed \subseteq Turns /\ lifted \in BOOLEAN
  /\ interrupts \in 0..MaxInterrupts /\ holds \in 0..MaxHolds /\ failures \in 0..MaxFailures
  /\ says \in 0..MaxSays /\ questions \in 0..MaxQuestions

\* Nothing that was decided before an interrupt is played after it, wherever the
\* turn was: announced, in preparation, queued, taken from the queue or playing.
InterruptSilences == \A t \in doomed : turn[t].outcome # "played"

\* The cursor never passes a unit that was neither played nor retired, although
\* units may be played out of order.
CursorIsTrue ==
  \A u \in 1..(next - 1) :
    \E t \in Turns : turn[t].unit = u /\ turn[t].outcome \in {"played", "skipped"}

\* Every turn comes to its end while speech is not held, unless the loop died
\* or was not told that it may go on.
TurnsSettle ==
  \A t \in Turns : IsOpen(t) ~> ~IsOpen(t) \/ frozen \/ lifted \/ loop.at = "dead"

\* The playback loop survives what other tasks do while it waits.
PlaybackSurvives == loop.at # "dead"

\* A unit starts only when it is the next one: none is repeated or overtaken.
UnitsInOrder ==
  [][~Speaking /\ Speaking' /\ turn[loop.turn].unit # Answer => turn[loop.turn].unit = next]_vars
=============================================================================
