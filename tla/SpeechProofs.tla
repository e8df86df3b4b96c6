----------------------------- MODULE SpeechProofs -----------------------------
(***************************************************************************)
(* Proofs about Speech, for any script, any depth of the queues and any    *)
(* numbers of turns, interrupts, holds, failures and says.                 *)
(*                                                                         *)
(* The argument: the turns that were ever decided are the first ones       *)
(* (Numbered), so a new turn is never one that had an outcome.  A turn that *)
(* was open at an interrupt is of an older generation from then on, and    *)
(* only a turn of the present one starts; the one that was playing was     *)
(* cancelled by the interrupt itself (Doomed).  A turn that was played or  *)
(* retired stays so with its unit, and the cursor only moves over such a   *)
(* unit.                                                                   *)
(*                                                                         *)
(* The types rest on the queues being of turns and on the projection of the *)
(* cursor, a recursive function over what is on its way: it stays between  *)
(* the first unit and one behind the last, or there is a least position at *)
(* which it would not.                                                     *)
(*                                                                         *)
(* Of a session nothing disturbs (Undisturbed: no interrupt, revision or   *)
(* failure) more holds.  The loop lives, since the queue it waits behind   *)
(* has a turn (HasATurn).  The turns on their way, from the loop's hands   *)
(* over the speech queue to the decision queue, are each for the unit at   *)
(* which the cursor will stand (Steady), if the queues are so short that   *)
(* the projection, which reads them the other way round, reads the same.   *)
(***************************************************************************)
EXTENDS Speech, FiniteSetTheorems, SequenceTheorems, WellFoundedInduction, TLAPS

\* The types the argument needs; of a turn's unit it needs none.
TurnShapes ==
  /\ turn = [t \in Turns |-> turn[t]]
  /\ \A t \in Turns :
       /\ turn[t] = [unit |-> turn[t].unit, gen |-> turn[t].gen, outcome |-> turn[t].outcome]
       /\ turn[t].gen \in Nat /\ turn[t].outcome \in Outcomes

LoopShape ==
  /\ loop = [at |-> loop.at, turn |-> loop.turn]
  /\ loop.at \in {"revalidate", "speak", "failing", "finishing"} => loop.turn \in Turns

Shapes ==
  /\ next \in Nat \ {0} /\ gen \in Nat /\ TurnShapes /\ LoopShape
  /\ decided \in Seq(Turns) /\ ready \in Seq(Turns)

\* Turns are decided one after the other.
Numbered == \E n \in 0..MaxTurns : \A t \in Turns : turn[t].outcome = "none" <=> n < t

\* No turn is of a generation to come.
OfItsTime == \A t \in Turns : turn[t].gen <= gen

\* What an interrupt found open is of the past, and is not playing.
Doomed ==
  /\ doomed \subseteq Turns
  /\ \A t \in doomed : turn[t].gen < gen /\ turn[t].outcome \notin {"none", "played"}
  /\ loop.at = "speak" /\ loop.turn \in doomed => ~IsOpen(loop.turn)

IInv == Shapes /\ Numbered /\ OfItsTime /\ Doomed /\ CursorIsTrue

(***************************************************************************)
(* What may become of turns.                                               *)
(***************************************************************************)
Ends == {"played", "skipped", "cancelled", "failed"}

\* The turn stays what it is, and keeps its outcome unless it was open.
Moves(t) ==
  /\ turn'[t].unit = turn[t].unit /\ turn'[t].gen = turn[t].gen
  /\ \/ turn'[t].outcome = turn[t].outcome
     \/ turn[t].outcome = "open" /\ turn'[t].outcome \in Ends

\* It is not played by this step.
Quiet(t) == Moves(t) /\ (turn'[t].outcome = "played" => turn[t].outcome = "played")

LEMMA Resting ==
  ASSUME Shapes, UNCHANGED turn
  PROVE  TurnShapes' /\ \A t \in Turns : Quiet(t)
  BY DEF Shapes, TurnShapes, Quiet, Moves

\* Ended does what it says.
LEMMA Ending ==
  ASSUME Shapes, NEW S, NEW o \in Ends, turn' = Ended(turn, S, o)
  PROVE  /\ TurnShapes' /\ \A t \in Turns : Moves(t)
         /\ \A t \in Turns : turn'[t].outcome =
              IF t \in S /\ turn[t].outcome = "open" THEN o ELSE turn[t].outcome
         /\ o # "played" => \A t \in Turns : Quiet(t)
<1> USE DEF Shapes, TurnShapes, Ends, Outcomes
<1>1. turn' = [t \in Turns |-> IF t \in S /\ turn[t].outcome = "open"
                              THEN [turn[t] EXCEPT !.outcome = o] ELSE turn[t]]
  BY DEF Ended
<1>2. ASSUME NEW t \in Turns
      PROVE  /\ turn'[t].unit = turn[t].unit /\ turn'[t].gen = turn[t].gen
             /\ turn'[t].outcome =
                  IF t \in S /\ turn[t].outcome = "open" THEN o ELSE turn[t].outcome
             /\ turn'[t] = [unit |-> turn'[t].unit, gen |-> turn'[t].gen,
                            outcome |-> turn'[t].outcome]
  <2>1. turn[t] = [unit |-> turn[t].unit, gen |-> turn[t].gen, outcome |-> turn[t].outcome]
    OBVIOUS
  <2>2. turn'[t] = IF t \in S /\ turn[t].outcome = "open"
                   THEN [turn[t] EXCEPT !.outcome = o] ELSE turn[t]
    BY <1>1
  <2>3. QED
    BY <2>1, <2>2
<1>3. turn' = [t \in Turns |-> turn'[t]]
  BY <1>1
<1>4. TurnShapes'
  BY <1>2, <1>3
<1>5. QED
  BY <1>2, <1>4 DEF Moves, Quiet

\* _invalidate_queued: nothing is played, nothing stays queued.
LEMMA Invalidating ==
  ASSUME Shapes, NEW S, Invalidate(S)
  PROVE  /\ TurnShapes' /\ \A t \in Turns : Quiet(t)
         /\ decided' \in Seq(Turns) /\ ready' \in Seq(Turns)
         /\ \A t \in S \cap Turns : turn'[t].outcome # "open"
<1>1. turn' = Ended(turn, S \cup ToSet(decided) \cup ToSet(ready), "cancelled")
  BY DEF Invalidate
<1>2. "cancelled" \in Ends
  BY DEF Ends
<1>3. decided' = << >> /\ ready' = << >>
  BY DEF Invalidate
<1>4. /\ TurnShapes' /\ \A t \in Turns : Quiet(t)
      /\ \A t \in Turns : turn'[t].outcome =
           IF t \in S \cup ToSet(decided) \cup ToSet(ready) /\ turn[t].outcome = "open"
           THEN "cancelled" ELSE turn[t].outcome
  BY <1>1, <1>2, Ending
<1>5. decided' \in Seq(Turns) /\ ready' \in Seq(Turns)
  BY <1>3
<1>6. \A t \in S \cap Turns : turn'[t].outcome # "open"
  BY <1>4
<1>7. QED
  BY <1>4, <1>5, <1>6

\* A step that plays nothing, decides nothing and starts nothing but a turn of the
\* present generation keeps the invariant.
LEMMA Keeping ==
  ASSUME IInv, TurnShapes', LoopShape', decided' \in Seq(Turns), ready' \in Seq(Turns),
         \A t \in Turns : Quiet(t), UNCHANGED <<next, doomed>>, gen' \in Nat, gen' >= gen,
         loop'.at = "speak" => loop' = loop \/ turn[loop'.turn].gen = gen
  PROVE  IInv'
<1> USE DEF IInv, Quiet, Moves
<1>1. Shapes'
  BY DEF Shapes
<1>2. \A t \in Turns : turn'[t].outcome = "none" <=> turn[t].outcome = "none"
  BY DEF Ends
<1>3. Numbered'
  BY <1>2 DEF Numbered
<1>4. OfItsTime'
  BY DEF OfItsTime, Shapes, TurnShapes
<1>5. CursorIsTrue'
  BY DEF CursorIsTrue
<1>6. Doomed'
  <2>1. \A t \in doomed : turn'[t].gen < gen' /\ turn'[t].outcome \notin {"none", "played"}
    <3>1. ASSUME NEW t \in doomed PROVE turn'[t].gen < gen'
      <4>1. t \in Turns /\ turn[t].gen < gen /\ turn[t].gen \in Nat /\ gen \in Nat
        BY DEF Doomed, Shapes, TurnShapes
      <4>2. turn'[t].gen = turn[t].gen
        BY <4>1
      <4>3. QED
        BY <4>1, <4>2
    <3>2. ASSUME NEW t \in doomed PROVE turn'[t].outcome \notin {"none", "played"}
      BY <1>2 DEF Doomed
    <3>3. QED
      BY <3>1, <3>2
  <2>2. ASSUME loop'.at = "speak", loop'.turn \in doomed PROVE turn'[loop'.turn].outcome # "open"
    <3>1. turn[loop'.turn].gen < gen /\ loop'.turn \in Turns
      BY <2>2 DEF Doomed
    <3>2. loop' = loop
      BY <2>2, <3>1 DEF Shapes, TurnShapes
    <3>3. turn[loop'.turn].outcome # "open"
      BY <2>2, <3>2 DEF Doomed, IsOpen
    <3>4. QED
      BY <3>1, <3>3
  <2>3. QED
    BY <2>1, <2>2 DEF Doomed, IsOpen
<1>7. QED
  BY <1>1, <1>3, <1>4, <1>5, <1>6

\* A new turn is none of those that have an outcome.
LEMMA Deciding ==
  ASSUME IInv, NEW who, NEW left, NEW unit, NEW answer, Decide(who, left, unit, answer),
         Used < MaxTurns, UNCHANGED <<next, gen, doomed, ready>>,
         LoopShape', loop'.at = "speak" => loop' = loop
  PROVE  IInv'
<1> USE DEF IInv
<1>1. PICK n \in 0..MaxTurns : \A t \in Turns : turn[t].outcome = "none" <=> n < t
  BY DEF Numbered
<1>2. Used = n
  <2>1. {t \in Turns : turn[t].outcome # "none"} = 1..n
    BY <1>1, ConstantsAssumption DEF Turns
  <2>2. Cardinality(1..n) = n
    BY FS_Interval, ConstantsAssumption
  <2>3. QED
    BY <2>1, <2>2 DEF Used
<1> DEFINE c == n + 1
           u == IF answer THEN Answer ELSE unit
<1>3. c \in Turns /\ turn[c].outcome = "none"
  BY <1>1, <1>2, ConstantsAssumption DEF Turns
<1>4. /\ turn' = [turn EXCEPT ![c] = [unit |-> u, gen |-> gen, outcome |-> "open"]]
      /\ decided' = Append(decided, c)
  BY <1>2 DEF Decide
<1>5. /\ turn'[c] = [unit |-> u, gen |-> gen, outcome |-> "open"]
      /\ \A t \in Turns : t # c => turn'[t] = turn[t]
      /\ turn' = [t \in Turns |-> turn'[t]]
  BY <1>3, <1>4 DEF Shapes, TurnShapes
<1> HIDE DEF u
<1>6. Shapes'
  <2>1. TurnShapes'
    <3>1. ASSUME NEW t \in Turns
          PROVE  /\ turn'[t] = [unit |-> turn'[t].unit, gen |-> turn'[t].gen,
                                outcome |-> turn'[t].outcome]
                 /\ turn'[t].gen \in Nat /\ turn'[t].outcome \in Outcomes
      <4>1. CASE t = c
        BY <4>1, <1>5 DEF Shapes, Outcomes
      <4>2. CASE t # c
        BY <4>2, <1>5 DEF Shapes, TurnShapes
      <4>3. QED
        BY <4>1, <4>2
    <3>2. QED
      BY <3>1, <1>5 DEF TurnShapes
  <2>2. decided' \in Seq(Turns) /\ ready' \in Seq(Turns)
    BY <1>3, <1>4 DEF Shapes
  <2>3. QED
    BY <2>1, <2>2 DEF Shapes
<1>7. Numbered'
  <2>1. c \in 0..MaxTurns
    BY <1>3, ConstantsAssumption DEF Turns
  <2>2. \A t \in Turns : turn'[t].outcome = "none" <=> c < t
    BY <1>1, <1>5, ConstantsAssumption DEF Turns
  <2>3. QED
    BY <2>1, <2>2 DEF Numbered
<1>8. OfItsTime'
  BY <1>5 DEF OfItsTime, Shapes
<1>9. CursorIsTrue'
  <2> SUFFICES ASSUME NEW v \in 1..(next - 1)
               PROVE  \E t \in Turns :
                        turn'[t].unit = v /\ turn'[t].outcome \in {"played", "skipped"}
    BY DEF CursorIsTrue
  <2>1. PICK t \in Turns : turn[t].unit = v /\ turn[t].outcome \in {"played", "skipped"}
    BY DEF CursorIsTrue
  <2>2. t # c
    BY <2>1, <1>3
  <2>3. QED
    BY <2>1, <2>2, <1>5
<1>10. Doomed'
  <2>1. \A t \in doomed : t \in Turns /\ t # c
    BY <1>3 DEF Doomed
  <2>2. QED
    BY <2>1, <1>5 DEF Doomed, IsOpen
<1>11. QED
  BY <1>6, <1>7, <1>8, <1>9, <1>10

LEMMA InvInit == Init => IInv
<1> SUFFICES ASSUME Init PROVE IInv
  OBVIOUS
<1> USE DEF Init
<1>1. TurnShapes /\ LoopShape
  BY DEF TurnShapes, LoopShape, Outcomes
<1>2. Shapes
  BY <1>1 DEF Shapes
<1>3. Numbered
  BY ConstantsAssumption DEF Numbered, Turns
<1>4. OfItsTime /\ Doomed /\ CursorIsTrue
  BY DEF OfItsTime, Doomed, CursorIsTrue
<1>5. QED
  BY <1>2, <1>3, <1>4 DEF IInv

(***************************************************************************)
(* Deciding and preparing turns.                                           *)
(***************************************************************************)
LEMMA FillInv ==
  ASSUME IInv, TickFill \/ LoopFill \/ Announced
  PROVE  IInv'
<1>1. Shapes /\ LoopShape /\ gen \in Nat /\ decided \in Seq(Turns) /\ ready \in Seq(Turns)
  BY DEF IInv, Shapes
<1>2. loop' \in {loop, AfterFill} /\ UNCHANGED <<next, gen, doomed, ready>>
  BY DEF TickFill, LoopFill, Announced, control, queues
<1>3. LoopShape' /\ (loop'.at = "speak" => loop' = loop)
  BY <1>1, <1>2 DEF LoopShape, AfterFill
<1>4. ASSUME NEW who, NEW left, NEW unit, NEW answer, Decide(who, left, unit, answer),
             Decides(unit, answer)
      PROVE  IInv'
  BY <1>2, <1>3, <1>4, Deciding DEF Decides
<1>5. ASSUME UNCHANGED <<turn, decided>> PROVE IInv'
  BY <1>1, <1>2, <1>3, <1>5, Resting, Keeping
<1>6. CASE TickFill
  BY <1>4, <1>6 DEF TickFill, Fills
<1>7. CASE LoopFill
  BY <1>4, <1>5, <1>7 DEF LoopFill, Fills, queues
<1>8. CASE Announced
  BY <1>4, <1>5, <1>8 DEF Announced
<1>9. QED
  BY <1>6, <1>7, <1>8

LEMMA GivingUp ==
  ASSUME Shapes, NEW t, GiveUp(t), turn[t].unit = Answer => decided' \in Seq(Turns)
  PROVE  /\ TurnShapes' /\ \A u \in Turns : Quiet(u)
         /\ decided' \in Seq(Turns) /\ ready' \in Seq(Turns)
<1>1. CASE turn[t].unit = Answer
  BY <1>1, Ending DEF GiveUp, Ends, Shapes
<1>2. CASE turn[t].unit # Answer
  BY <1>2, Invalidating DEF GiveUp
<1>3. QED
  BY <1>1, <1>2

LEMMA PrepareInv ==
  ASSUME IInv, NEW t \in Turns, Prepare(t)
  PROVE  IInv'
<1>1. Shapes /\ LoopShape /\ gen \in Nat /\ decided \in Seq(Turns) /\ ready \in Seq(Turns)
  BY DEF IInv, Shapes
<1>2. UNCHANGED <<next, gen, doomed, loop>>
  BY DEF Prepare, PrepareGone, Prepared, PrepareRejected, control
<1>3. LoopShape'
  BY <1>1, <1>2 DEF LoopShape
<1>4. CASE PrepareGone(t)
  BY <1>1, <1>2, <1>3, <1>4, Resting, Keeping DEF PrepareGone
<1>5. CASE Prepared(t)
  <2>1. decided' \in Seq(Turns) /\ ready' \in Seq(Turns)
    <3>1. decided # << >> /\ decided' = Tail(decided)
      BY <1>5 DEF Prepared, IsFirst
    <3>2. decided' \in Seq(Turns)
      BY <1>1, <3>1
    <3>3. ready' = Append(ready, t) \/ ready' = ready
      BY <1>5 DEF Prepared
    <3>4. ready' \in Seq(Turns)
      BY <1>1, <3>3
    <3>5. QED
      BY <3>2, <3>4
  <2>2. TurnShapes' /\ \A u \in Turns : Quiet(u)
    BY <1>1, <1>5, Resting, Ending DEF Prepared, Ends
  <2>3. QED
    BY <1>1, <1>2, <1>3, <2>1, <2>2, Keeping
<1>6. CASE PrepareRejected(t)
  <2>1. turn[t].unit = Answer => decided' \in Seq(Turns)
    BY <1>1, <1>6 DEF PrepareRejected, IsFirst
  <2>2. QED
    BY <1>1, <1>2, <1>3, <1>6, <2>1, GivingUp, Keeping DEF PrepareRejected
<1>7. QED
  BY <1>4, <1>5, <1>6 DEF Prepare

(***************************************************************************)
(* The playback loop.                                                      *)
(***************************************************************************)
\* Where the loop only waits, looks or comes back.
LEMMA WaitInv ==
  ASSUME IInv, Wake \/ Rest \/ Wait \/ Die \/ Pause \/ Finish
  PROVE  IInv'
<1>1. Shapes /\ gen \in Nat /\ decided \in Seq(Turns) /\ ready \in Seq(Turns)
  BY DEF IInv, Shapes
<1>2. UNCHANGED <<next, gen, doomed, turn, decided, ready>>
  BY DEF Wake, Rest, Wait, Die, Pause, Finish, control, queues
<1>3. loop' \in {[at |-> a, turn |-> 0] : a \in {"next", "wait", "boundary", "dead", "fill"}}
  BY DEF Wake, Rest, Wait, Die, Pause, Finish, At
<1>4. LoopShape' /\ loop'.at # "speak"
  BY <1>3 DEF LoopShape
<1>5. QED
  BY <1>1, <1>2, <1>4, Resting, Keeping

LEMMA TakeInv ==
  ASSUME IInv, Refresh \/ Take
  PROVE  IInv'
<1>1. Shapes /\ gen \in Nat /\ decided \in Seq(Turns) /\ ready \in Seq(Turns)
  BY DEF IInv, Shapes
<1>2. UNCHANGED <<next, gen, doomed>>
  BY DEF Refresh, Take, control
<1>3. CASE Refresh
  <2>1. loop' = [at |-> "refill", turn |-> 0]
    BY <1>3 DEF Refresh, At
  <2>2. LoopShape' /\ loop'.at # "speak"
    BY <2>1 DEF LoopShape
  <2>3. QED
    BY <1>1, <1>2, <1>3, <2>2, Invalidating, Keeping DEF Refresh
<1>4. CASE Take
  <2>1. Head(ready) \in Turns /\ ready' \in Seq(Turns) /\ decided' \in Seq(Turns)
    BY <1>1, <1>4 DEF Take
  <2>2. loop' \in {[at |-> "revalidate", turn |-> Head(ready)], [at |-> "next", turn |-> 0]}
    BY <1>4 DEF Take, At
  <2>3. LoopShape' /\ loop'.at # "speak"
    BY <2>1, <2>2 DEF LoopShape
  <2>4. TurnShapes' /\ \A u \in Turns : Quiet(u)
    BY <1>1, <1>4, Resting, Ending DEF Take, Ends
  <2>5. QED
    BY <1>1, <1>2, <2>1, <2>3, <2>4, Keeping
<1>5. QED
  BY <1>3, <1>4

\* Only a turn of the present generation starts.
LEMMA RevalidatedInv ==
  ASSUME IInv, Revalidated
  PROVE  IInv'
<1> DEFINE t == loop.turn
<1>1. /\ Shapes /\ gen \in Nat /\ decided \in Seq(Turns) /\ ready \in Seq(Turns)
      /\ t \in Turns
  BY DEF IInv, Shapes, LoopShape, Revalidated
<1>2. UNCHANGED <<next, gen, doomed>>
  BY DEF Revalidated
<1>3. CASE Refuse(t)
  <2>1. loop' = [at |-> "fill", turn |-> t]
    BY <1>3 DEF Refuse, At
  <2>2. LoopShape' /\ loop'.at # "speak"
    BY <2>1 DEF LoopShape
  <2>3. turn[t].unit = Answer => decided' \in Seq(Turns)
    BY <1>1, <1>3 DEF Refuse
  <2>4. QED
    BY <1>1, <1>2, <1>3, <2>2, <2>3, GivingUp, Keeping DEF Refuse
<1>4. CASE PutBack(t)
  <2>1. loop' = [at |-> "pause", turn |-> 0]
    BY <1>4 DEF PutBack, At
  <2>2. LoopShape' /\ loop'.at # "speak"
    BY <2>1 DEF LoopShape
  <2>3. ready' \in Seq(Turns)
    BY <1>1, <1>4 DEF PutBack
  <2>4. QED
    BY <1>1, <1>2, <1>4, <2>2, <2>3, Resting, Keeping DEF PutBack
<1>5. CASE Live(t) /\ At("speak", t) /\ UNCHANGED queues
  <2>1. loop' = [at |-> "speak", turn |-> t] /\ turn[loop'.turn].gen = gen
    BY <1>5 DEF At, Live
  <2>2. LoopShape'
    BY <1>1, <2>1 DEF LoopShape
  <2>3. QED
    BY <1>1, <1>2, <1>5, <2>1, <2>2, Resting, Keeping DEF queues
<1>6. QED
  BY <1>3, <1>4, <1>5 DEF Revalidated

\* The cursor moves over a unit whose turn was just played or retired.
LEMMA SpokenInv ==
  ASSUME IInv, Played \/ Skip
  PROVE  IInv'
<1> DEFINE t == loop.turn
<1>1. /\ Shapes /\ TurnShapes /\ gen \in Nat /\ next \in Nat \ {0}
      /\ decided \in Seq(Turns) /\ ready \in Seq(Turns)
      /\ loop.at = "speak" /\ t \in Turns /\ turn[t].outcome = "open"
  BY DEF IInv, Shapes, LoopShape, Played, Skip, Live, IsOpen
<1>2. /\ loop' = [at |-> "finishing", turn |-> t]
      /\ next' = (IF turn[t].unit = next THEN next + 1 ELSE next)
      /\ UNCHANGED <<gen, doomed, decided, ready>>
  BY DEF Played, Skip, At, MarkSpoken, AfterUnit, control
<1>3. PICK o \in {"played", "skipped"} : turn' = Ended(turn, {t}, o)
  BY DEF Played, Skip
<1>4. /\ TurnShapes' /\ \A u \in Turns : Moves(u)
      /\ \A u \in Turns : turn'[u].outcome = IF u = t THEN o ELSE turn[u].outcome
  <2>1. /\ TurnShapes' /\ \A u \in Turns : Moves(u)
        /\ \A u \in Turns : turn'[u].outcome =
             IF u \in {t} /\ turn[u].outcome = "open" THEN o ELSE turn[u].outcome
    BY <1>1, <1>3, Ending DEF Ends
  <2>2. QED
    BY <1>1, <2>1
<1>5. Shapes'
  <2>1. LoopShape'
    BY <1>1, <1>2 DEF LoopShape
  <2>2. next' \in Nat \ {0}
    BY <1>1, <1>2
  <2>3. QED
    BY <1>1, <1>2, <1>4, <2>1, <2>2 DEF Shapes
<1>6. Numbered'
  <2>1. \A u \in Turns : turn'[u].outcome = "none" <=> turn[u].outcome = "none"
    BY <1>1, <1>4
  <2>2. QED
    BY <2>1 DEF IInv, Numbered
<1>7. OfItsTime'
  BY <1>2, <1>4 DEF IInv, OfItsTime, Moves
<1>8. CursorIsTrue'
  <2> SUFFICES ASSUME NEW v \in 1..(next' - 1)
               PROVE  \E u \in Turns :
                        turn'[u].unit = v /\ turn'[u].outcome \in {"played", "skipped"}
    BY DEF CursorIsTrue
  <2>1. CASE turn[t].unit = v
    BY <1>1, <1>4, <2>1 DEF Moves
  <2>2. CASE turn[t].unit # v
    <3>1. v \in 1..(next - 1)
      BY <1>1, <1>2, <2>2
    <3>2. PICK u \in Turns : turn[u].unit = v /\ turn[u].outcome \in {"played", "skipped"}
      BY <3>1 DEF IInv, CursorIsTrue
    <3>3. QED
      BY <1>4, <3>2 DEF Moves
  <2>3. QED
    BY <2>1, <2>2
<1>9. Doomed'
  <2>1. t \notin doomed
    BY <1>1 DEF IInv, Doomed, IsOpen
  <2>2. \A u \in doomed : turn'[u].gen < gen' /\ turn'[u].outcome \notin {"none", "played"}
    BY <1>2, <1>4, <2>1 DEF IInv, Doomed, Moves
  <2>3. QED
    BY <1>2, <2>2 DEF IInv, Doomed
<1>10. QED
  BY <1>5, <1>6, <1>7, <1>8, <1>9 DEF IInv

LEMMA BrokenInv ==
  ASSUME IInv, CutOff \/ SpeechFails \/ FailureNoted
  PROVE  IInv'
<1>1. /\ Shapes /\ gen \in Nat /\ decided \in Seq(Turns) /\ ready \in Seq(Turns)
      /\ loop.turn \in Turns
  BY DEF IInv, Shapes, LoopShape, CutOff, SpeechFails, FailureNoted
<1>2. UNCHANGED <<next, gen, doomed>>
  BY DEF CutOff, SpeechFails, FailureNoted, control
<1>3. loop' \in {[at |-> "fill", turn |-> 0], [at |-> "failing", turn |-> loop.turn]}
  BY DEF CutOff, SpeechFails, FailureNoted, At
<1>4. LoopShape' /\ loop'.at # "speak"
  BY <1>1, <1>3 DEF LoopShape
<1>5. /\ TurnShapes' /\ \A u \in Turns : Quiet(u)
      /\ decided' \in Seq(Turns) /\ ready' \in Seq(Turns)
  <2>1. CASE \E o \in {"cancelled", "failed"} :
               turn' = Ended(turn, {loop.turn}, o) /\ UNCHANGED <<decided, ready>>
    BY <1>1, <2>1, Ending DEF Ends
  <2>2. CASE Invalidate({loop.turn}) \/ Invalidate({})
    BY <1>1, <2>2, Invalidating
  <2>3. CASE UNCHANGED queues
    BY <1>1, <2>3, Resting DEF queues
  <2>4. QED
    BY <2>1, <2>2, <2>3 DEF CutOff, SpeechFails, FailureNoted
<1>6. QED
  BY <1>1, <1>2, <1>4, <1>5, Keeping

(***************************************************************************)
(* Control.                                                                *)
(***************************************************************************)
\* What an interrupt finds open is of the generation it ends, or an older one, and
\* what is playing it cancels itself.
LEMMA InterruptInv ==
  ASSUME IInv, Interrupt
  PROVE  IInv'
<1> DEFINE found == {t \in Turns : turn[t].outcome = "open"}
<1>1. /\ Shapes /\ TurnShapes /\ LoopShape /\ gen \in Nat /\ next \in Nat \ {0}
  BY DEF IInv, Shapes
<1>2. /\ gen' = gen + 1 /\ doomed' = doomed \cup found /\ UNCHANGED <<next, loop>>
      /\ Invalidate(Current)
  BY DEF Interrupt, IsOpen
<1>3. /\ TurnShapes' /\ \A t \in Turns : Quiet(t)
      /\ decided' \in Seq(Turns) /\ ready' \in Seq(Turns)
      /\ \A t \in Current \cap Turns : turn'[t].outcome # "open"
  BY <1>1, <1>2, Invalidating
<1>4. Shapes'
  BY <1>1, <1>2, <1>3 DEF Shapes, LoopShape
<1>5. \A t \in Turns : turn'[t].outcome = "none" <=> turn[t].outcome = "none"
  BY <1>3 DEF Quiet, Moves, Ends
<1>6. Numbered'
  BY <1>5 DEF IInv, Numbered
<1>7. \A t \in Turns : turn'[t].gen < gen'
  BY <1>1, <1>2, <1>3 DEF IInv, OfItsTime, Quiet, Moves, TurnShapes
<1>8. OfItsTime'
  BY <1>1, <1>2, <1>3, <1>7 DEF OfItsTime, TurnShapes
<1>9. CursorIsTrue'
  BY <1>2, <1>3 DEF IInv, CursorIsTrue, Quiet, Moves
<1>10. Doomed'
  <2>1. doomed' \subseteq Turns
    BY <1>2 DEF IInv, Doomed
  <2>2. \A t \in doomed' : turn[t].outcome \notin {"none", "played"}
    BY <1>2 DEF IInv, Doomed
  <2>3. \A t \in doomed' : turn'[t].gen < gen' /\ turn'[t].outcome \notin {"none", "played"}
    BY <2>1, <2>2, <1>3, <1>5, <1>7 DEF Quiet
  <2>4. loop'.at = "speak" => turn'[loop'.turn].outcome # "open"
    BY <1>1, <1>2, <1>3 DEF Current, Speaking, LoopShape
  <2>5. QED
    BY <2>1, <2>3, <2>4 DEF Doomed, IsOpen
<1>11. QED
  BY <1>4, <1>6, <1>8, <1>9, <1>10 DEF IInv

LEMMA ControlInv ==
  ASSUME IInv, Revise \/ Hold \/ Resume \/ Lift \/ Say \/ SayEnds \/ Ask \/ UNCHANGED vars
  PROVE  IInv'
<1>1. /\ Shapes /\ LoopShape /\ gen \in Nat /\ decided \in Seq(Turns) /\ ready \in Seq(Turns)
  BY DEF IInv, Shapes
<1>2. UNCHANGED <<next, doomed, loop>>
  BY DEF Revise, Hold, Resume, Lift, Say, SayEnds, Ask, control, vars
<1>3. LoopShape'
  BY <1>1, <1>2 DEF LoopShape
<1>4. CASE Revise
  <2>1. gen' \in Nat /\ gen' >= gen /\ Invalidate({})
    BY <1>1, <1>4 DEF Revise
  <2>2. QED
    BY <1>1, <1>2, <1>3, <2>1, Invalidating, Keeping
<1>5. CASE Hold \/ Resume \/ Lift \/ Say \/ SayEnds \/ Ask \/ UNCHANGED vars
  <2>1. UNCHANGED <<gen, turn, decided, ready>>
    BY <1>5 DEF Hold, Resume, Lift, Say, SayEnds, Ask, control, queues, vars
  <2>2. QED
    BY <1>1, <1>2, <1>3, <2>1, Resting, Keeping
<1>6. QED
  BY <1>4, <1>5

(***************************************************************************)
(* The theorems.                                                           *)
(***************************************************************************)
LEMMA InvStep == IInv /\ [Next]_vars => IInv'
<1> SUFFICES ASSUME IInv, [Next]_vars PROVE IInv'
  OBVIOUS
<1>1. CASE Loop
  BY <1>1, FillInv, WaitInv, TakeInv, RevalidatedInv, SpokenInv, BrokenInv DEF Loop
<1>2. CASE TickFill \/ Announced
  BY <1>2, FillInv
<1>3. ASSUME NEW t \in Turns, Prepare(t) PROVE IInv'
  BY <1>3, PrepareInv
<1>4. CASE Interrupt
  BY <1>4, InterruptInv
<1>5. CASE Revise \/ Hold \/ Resume \/ Lift \/ Say \/ SayEnds \/ Ask \/ UNCHANGED vars
  BY <1>5, ControlInv
<1>6. QED
  BY <1>1, <1>2, <1>3, <1>4, <1>5 DEF Next

\* The turns, their generations and the cursor always stand in these relations.
THEOREM Invariance == Spec => []IInv
<1>1. Init => IInv
  BY InvInit
<1>2. IInv /\ [Next]_vars => IInv'
  BY InvStep
<1>3. QED
  BY <1>1, <1>2, PTL DEF Spec

\* Nothing that was decided before an interrupt is played after it.
THEOREM InterruptsSilence == Spec => []InterruptSilences
<1>1. IInv => InterruptSilences
  BY DEF IInv, Doomed, InterruptSilences
<1>2. QED
  BY <1>1, Invariance, PTL

\* The cursor never passes a unit that was neither played nor retired.
THEOREM TheCursorIsTrue == Spec => []CursorIsTrue
<1>1. IInv => CursorIsTrue
  BY DEF IInv
<1>2. QED
  BY <1>1, Invariance, PTL

(***************************************************************************)
(* What is projected from the cursor.                                      *)
(***************************************************************************)
\* A set of numbers has a least element, which induction along a sequence rests on.
LEMMA Least ==
  ASSUME NEW S, S \subseteq Nat, S # {}
  PROVE  \E n \in S : \A m \in S : n <= m
<1> DEFINE less == {p \in Nat \X Nat : p[1] < p[2]}
<1>1. OpToRel(<, Nat) = less
  BY DEF OpToRel
<1>2. IsWellFoundedOn(less, Nat)
  BY <1>1, NatLessThanWellFounded
<1>3. \A x, y \in Nat : <<y, x>> \in less <=> y < x
  OBVIOUS
<1> HIDE DEF less
<1>4. PICK n \in S : \A m \in S : ~ (<<m, n>> \in less)
  BY <1>2, WFMin
<1>5. ASSUME NEW m \in S PROVE n <= m
  <2>1. m \in Nat /\ n \in Nat
    OBVIOUS
  <2>2. ~ (m < n)
    BY <1>3, <1>4, <2>1
  <2>3. QED
    BY <2>1, <2>2
<1>6. QED
  BY <1>5

\* The cursor after each of the first n turns of q.
Follows(f, q, n) ==
  f = [i \in 0..n |-> IF i = 0 THEN next ELSE AfterUnit(f[i - 1], q[i])]

LEMMA FollowsExists ==
  ASSUME NEW q, NEW n \in Nat
  PROVE  \E f : Follows(f, q, n)
<1> DEFINE bad == {m \in Nat : ~ \E f : Follows(f, q, m)}
<1> SUFFICES ASSUME bad # {} PROVE FALSE
  OBVIOUS
<1>1. PICK m \in bad : \A i \in bad : m <= i
  <2>1. bad \subseteq Nat
    OBVIOUS
  <2> HIDE DEF bad
  <2>2. QED
    BY <2>1, Least
<1>2. m \in Nat /\ ~ \E f : Follows(f, q, m)
  OBVIOUS
<1>3. CASE m = 0
  <2>1. Follows([i \in 0..0 |-> next], q, 0)
    BY DEF Follows
  <2>2. QED
    BY <1>2, <1>3, <2>1
<1>4. CASE m # 0
  <2>1. m - 1 \in Nat /\ m - 1 \notin bad
    BY <1>1, <1>2, <1>4
  <2>2. PICK g : Follows(g, q, m - 1)
    BY <2>1
  <2>3. \A i \in 0..(m - 1) : g[i] = IF i = 0 THEN next ELSE AfterUnit(g[i - 1], q[i])
    BY <2>2 DEF Follows
  <2> DEFINE f == [i \in 0..m |-> IF i = m THEN AfterUnit(g[m - 1], q[m]) ELSE g[i]]
             h == [i \in 0..m |-> IF i = 0 THEN next ELSE AfterUnit(f[i - 1], q[i])]
  <2>4. ASSUME NEW i \in 0..m PROVE f[i] = h[i]
    <3>1. CASE i = m
      <4>1. f[i] = AfterUnit(g[m - 1], q[m]) /\ i # 0 /\ m - 1 \in 0..m /\ m - 1 # m
        BY <1>2, <1>4, <3>1
      <4>2. f[m - 1] = g[m - 1]
        BY <4>1
      <4>3. QED
        BY <4>1, <4>2, <3>1
    <3>2. CASE i # m
      <4>1. i \in 0..(m - 1) /\ f[i] = g[i]
        BY <1>2, <3>2
      <4>2. i # 0 => i - 1 \in 0..m /\ f[i - 1] = g[i - 1]
        BY <1>2, <4>1
      <4>3. QED
        BY <2>3, <4>1, <4>2
    <3>3. QED
      BY <3>1, <3>2
  <2>5. f = h
    BY <2>4
  <2>6. Follows(f, q, m)
    BY <2>5 DEF Follows
  <2>7. QED
    BY <1>2, <2>6
<1>5. QED
  BY <1>3, <1>4

UnitsTyped == \A t \in Turns : turn[t].unit \in 0..Units

\* The projection stays within the script.
LEMMA ProjectedTyped ==
  ASSUME next \in 1..(Units + 1), UnitsTyped, decided \in Seq(Turns), ready \in Seq(Turns),
         loop.turn \in 0..MaxTurns
  PROVE  Projected \in 1..(Units + 1)
<1> DEFINE q == OnTheWay
           n == Len(q)
           Def(f) == f = [i \in 0..n |-> IF i = 0 THEN next ELSE AfterUnit(f[i - 1], q[i])]
           after == CHOOSE f : Def(f)
<1>1. Projected = after[n]
  BY DEF Projected
<1>2. q \in Seq(Turns)
  <2>1. (IF loop.turn # 0 /\ IsOpen(loop.turn) THEN <<loop.turn>> ELSE << >>) \in Seq(Turns)
    <3>1. CASE loop.turn # 0 /\ IsOpen(loop.turn)
      <4>1. loop.turn \in Turns
        BY <3>1, ConstantsAssumption DEF Turns
      <4>2. QED
        BY <3>1, <4>1
    <3>2. CASE ~ (loop.turn # 0 /\ IsOpen(loop.turn))
      <4>1. << >> \in Seq(Turns)
        OBVIOUS
      <4>2. QED
        BY <3>2, <4>1
    <3>3. QED
      BY <3>1, <3>2
  <2>2. QED
    BY <2>1 DEF OnTheWay
<1> HIDE DEF q
<1>3. n \in Nat /\ \A i \in 1..n : q[i] \in Turns
  BY <1>2
<1> HIDE DEF n
<1>4. Def(after)
  <2>1. \E f : Def(f)
    BY <1>3, FollowsExists DEF Follows
  <2> HIDE DEF Def
  <2>2. QED
    BY <2>1
<1> HIDE DEF after
<1>5. after[0] = next /\ \A i \in 1..n : after[i] = AfterUnit(after[i - 1], q[i])
  <2>1. 0 \in 0..n /\ \A i \in 1..n : i \in 0..n /\ i # 0
    BY <1>3
  <2>2. QED
    BY <1>4, <2>1
<1> DEFINE bad == {i \in 0..n : after[i] \notin 1..(Units + 1)}
<1>6. bad = {}
  <2> SUFFICES ASSUME bad # {} PROVE FALSE
    OBVIOUS
  <2>1. PICK m \in bad : \A i \in bad : m <= i
    <3>1. bad \subseteq Nat
      OBVIOUS
    <3> HIDE DEF bad
    <3>2. QED
      BY <3>1, Least
  <2>2. m \in 1..n
    BY <1>3, <1>5
  <2>3. m - 1 \notin bad /\ m - 1 \in 0..n
    BY <1>3, <2>1, <2>2
  <2>4. after[m - 1] \in 1..(Units + 1) /\ after[m] = AfterUnit(after[m - 1], q[m])
    BY <1>5, <2>2, <2>3
  <2>5. turn[q[m]].unit \in 0..Units
    BY <1>3, <2>2 DEF UnitsTyped
  <2>6. after[m] \in 1..(Units + 1)
    BY <2>4, <2>5, ConstantsAssumption DEF AfterUnit
  <2>7. QED
    BY <2>6
<1>7. n \in 0..n
  BY <1>3
<1>8. QED
  BY <1>1, <1>6, <1>7

(***************************************************************************)
(* Types.                                                                  *)
(***************************************************************************)
Records == [unit : 0..Units, gen : Nat, outcome : Outcomes]

Progress == [who : {"nobody", "tick", "loop"}, left : 0..(Depth - 1), unit : 1..(Units + 1),
             asked : BOOLEAN, turn : 0..MaxTurns]

Places == [at : LoopPC, turn : 0..MaxTurns]

TurnsTyped == turn \in [Turns -> Records]

QueuesTyped ==
  /\ TurnsTyped /\ decided \in Seq(Turns) /\ ready \in Seq(Turns) /\ preparing \subseteq Turns
  /\ event \in BOOLEAN

\* The turn that is being announced is one.
FillTyped == fill \in Progress /\ (fill.who # "nobody" => fill.turn \in Turns)

LoopTyped == loop \in Places

CursorTyped == next \in 1..(Units + 1) /\ asked \in BOOLEAN

\* Every generation but the first was begun by an interrupt or a revision.
ControlTyped ==
  /\ gen = interrupts /\ frozen \in BOOLEAN /\ locked \in BOOLEAN /\ saying \in BOOLEAN
  /\ doomed \subseteq Turns /\ lifted \in BOOLEAN

BoundsTyped ==
  /\ interrupts \in 0..MaxInterrupts /\ holds \in 0..MaxHolds /\ failures \in 0..MaxFailures
  /\ says \in 0..MaxSays /\ questions \in 0..MaxQuestions

Typed == QueuesTyped /\ FillTyped /\ LoopTyped /\ CursorTyped /\ ControlTyped /\ BoundsTyped

LEMMA TypedIsTypeOK == Typed => TypeOK
  BY ConstantsAssumption DEF Typed, QueuesTyped, FillTyped, LoopTyped, CursorTyped, ControlTyped,
     BoundsTyped, TurnsTyped, Records, Progress, Places, TypeOK

LEMMA TypedInit == Init => Typed
<1> SUFFICES ASSUME Init PROVE Typed
  OBVIOUS
<1> USE ConstantsAssumption DEF Init
<1>1. QueuesTyped
  <2>1. TurnsTyped
    BY DEF TurnsTyped, Records, Outcomes
  <2>2. decided \in Seq(Turns) /\ ready \in Seq(Turns) /\ preparing \subseteq Turns
    OBVIOUS
  <2>3. event \in BOOLEAN
    BY Zenon
  <2>4. QED
    BY <2>1, <2>2, <2>3, Zenon DEF QueuesTyped
<1>2. FillTyped /\ LoopTyped
  BY DEF FillTyped, LoopTyped, NoFill, Progress, Places, LoopPC
<1>3. CursorTyped
  <2>1. next \in 1..(Units + 1)
    OBVIOUS
  <2>2. QED
    BY <2>1, Zenon DEF CursorTyped
<1>4. ControlTyped
  BY Zenon DEF ControlTyped
<1>5. BoundsTyped
  BY DEF BoundsTyped
<1>6. QED
  BY <1>1, <1>2, <1>3, <1>4, <1>5, Zenon DEF Typed

LEMMA EndingTyped ==
  ASSUME TurnsTyped, NEW S, NEW o \in Outcomes, turn' = Ended(turn, S, o)
  PROVE  TurnsTyped'
<1>1. \A t \in Turns : [turn[t] EXCEPT !.outcome = o] \in Records /\ turn[t] \in Records
  BY DEF TurnsTyped, Records
<1>2. QED
  BY <1>1 DEF TurnsTyped, Ended

LEMMA InvalidatingTyped ==
  ASSUME TurnsTyped, NEW S, Invalidate(S)
  PROVE  QueuesTyped'
<1>1. TurnsTyped'
  <2>1. PICK R : turn' = Ended(turn, R, "cancelled")
    BY DEF Invalidate
  <2>2. QED
    BY <2>1, EndingTyped DEF Outcomes
<1>2. QED
  BY <1>1 DEF Invalidate, QueuesTyped

LEMMA GivingUpTyped ==
  ASSUME QueuesTyped, NEW t, GiveUp(t),
         turn[t].unit = Answer => decided' \in Seq(Turns) /\ preparing' \subseteq Turns
  PROVE  QueuesTyped'
<1>1. CASE turn[t].unit = Answer
  <2>1. turn' = Ended(turn, {t}, "cancelled") /\ UNCHANGED <<ready, event>>
    BY <1>1 DEF GiveUp
  <2>2. TurnsTyped'
    BY <2>1, EndingTyped DEF Outcomes, QueuesTyped
  <2>3. QED
    BY <1>1, <2>1, <2>2 DEF QueuesTyped
<1>2. CASE turn[t].unit # Answer
  BY <1>2, InvalidatingTyped DEF GiveUp, QueuesTyped
<1>3. QED
  BY <1>1, <1>2

LEMMA UsedTyped == Used \in Nat
<1>1. IsFiniteSet(Turns)
  BY FS_Interval, ConstantsAssumption DEF Turns
<1>2. IsFiniteSet({t \in Turns : turn[t].outcome # "none"})
  BY <1>1, FS_Subset
<1>3. QED
  BY <1>2, FS_CardinalityType DEF Used

\* There is never more room than the queues are deep.
LEMMA MissingTyped ==
  ASSUME QueuesTyped, Missing > 0
  PROVE  Missing \in 1..Depth
<1>1. IsFiniteSet(preparing)
  <2>1. IsFiniteSet(Turns)
    BY FS_Interval, ConstantsAssumption DEF Turns
  <2>2. QED
    BY <2>1, FS_Subset DEF QueuesTyped
<1>2. Cardinality(preparing) \in Nat /\ Len(ready) \in Nat
  BY <1>1, FS_CardinalityType DEF QueuesTyped
<1>3. QED
  BY <1>2, ConstantsAssumption DEF Missing

LEMMA DecidingTyped ==
  ASSUME QueuesTyped, gen \in Nat, NEW who \in {"tick", "loop"}, NEW left \in 1..Depth,
         NEW unit \in 1..(Units + 1), NEW answer \in BOOLEAN, Decides(unit, answer),
         Decide(who, left, unit, answer), UNCHANGED <<ready, event>>, preparing' \subseteq Turns
  PROVE  QueuesTyped' /\ FillTyped'
<1> DEFINE t == Used + 1
           u == IF answer THEN Answer ELSE unit
           v == IF answer THEN unit ELSE unit + 1
<1>1. t \in Turns
  BY UsedTyped, ConstantsAssumption DEF Decides, Turns
<1>2. u \in 0..Units /\ v \in 1..(Units + 1)
  BY ConstantsAssumption DEF Decides, Answer
<1>3. /\ turn' = [turn EXCEPT ![t] = [unit |-> u, gen |-> gen, outcome |-> "open"]]
      /\ decided' = Append(decided, t)
      /\ fill' = [who |-> who, left |-> left - 1, unit |-> v, asked |-> FALSE, turn |-> t]
  BY DEF Decide
<1> HIDE DEF t, u, v
<1>4. TurnsTyped'
  BY <1>1, <1>2, <1>3 DEF QueuesTyped, TurnsTyped, Records, Outcomes
<1>5. decided' \in Seq(Turns)
  BY <1>1, <1>3 DEF QueuesTyped
<1>6. FillTyped'
  <2>1. left - 1 \in 0..(Depth - 1) /\ t \in 0..MaxTurns
    BY <1>1, ConstantsAssumption DEF Turns
  <2>2. QED
    BY <1>1, <1>2, <1>3, <2>1 DEF FillTyped, Progress
<1>7. QED
  BY <1>4, <1>5, <1>6 DEF QueuesTyped

LEMMA FillTypedStep ==
  ASSUME Typed, TickFill \/ LoopFill \/ Announced
  PROVE  Typed'
<1>1. /\ QueuesTyped /\ FillTyped /\ LoopTyped /\ CursorTyped /\ ControlTyped /\ BoundsTyped
      /\ gen \in Nat
  BY ConstantsAssumption DEF Typed, ControlTyped, BoundsTyped
<1>2. UNCHANGED <<next, asked, event, control, bounds>>
  BY DEF TickFill, LoopFill, Announced
<1>3. CursorTyped' /\ ControlTyped' /\ BoundsTyped'
  BY <1>1, <1>2 DEF CursorTyped, ControlTyped, BoundsTyped, control, bounds
<1>4. LoopTyped'
  <2>1. loop' \in {loop, AfterFill}
    BY DEF TickFill, LoopFill, Announced
  <2>2. AfterFill \in Places
    <3>1. loop \in Places /\ 0 \in 0..MaxTurns
      BY <1>1, ConstantsAssumption DEF LoopTyped
    <3>2. QED
      BY <3>1 DEF Places, LoopPC, AfterFill
  <2>3. QED
    BY <1>1, <2>1, <2>2 DEF LoopTyped
<1>5. AnswerIsNext \in BOOLEAN
  BY <1>1 DEF AnswerIsNext, CursorTyped
<1>6. Projected \in 1..(Units + 1)
  <2>1. UnitsTyped
    BY <1>1 DEF UnitsTyped, QueuesTyped, TurnsTyped, Records
  <2>2. QED
    BY <1>1, <2>1, ProjectedTyped DEF CursorTyped, QueuesTyped, LoopTyped, Places
<1>7. ASSUME NEW who \in {"tick", "loop"}, Decide(who, Missing, Projected, AnswerIsNext), Fills,
             UNCHANGED <<ready, preparing>>
      PROVE  QueuesTyped' /\ FillTyped'
  <2>1. Missing \in 1..Depth /\ preparing' \subseteq Turns /\ UNCHANGED event
    BY <1>1, <1>2, <1>7, MissingTyped DEF Fills, QueuesTyped
  <2> HIDE DEF Missing, Projected, AnswerIsNext
  <2>2. QED
    BY <1>1, <1>5, <1>6, <1>7, <2>1, DecidingTyped DEF Fills
<1>8. ASSUME UNCHANGED <<queues, fill>> PROVE QueuesTyped' /\ FillTyped'
  BY <1>1, <1>2, <1>8 DEF QueuesTyped, FillTyped, TurnsTyped, queues
<1>9. CASE TickFill
  BY <1>3, <1>4, <1>7, <1>9 DEF TickFill, Typed
<1>10. CASE LoopFill
  BY <1>3, <1>4, <1>7, <1>8, <1>10 DEF LoopFill, Typed
<1>11. CASE Announced
  <2>1. fill.who \in {"tick", "loop"} /\ preparing' \subseteq Turns /\ UNCHANGED <<ready, event>>
    BY <1>1, <1>2, <1>11 DEF Announced, FillTyped, Progress, QueuesTyped
  <2>2. CASE /\ fill.left > 0 /\ Decides(fill.unit, fill.asked)
             /\ Decide(fill.who, fill.left, fill.unit, fill.asked)
    <3>1. fill.left \in 1..Depth /\ fill.unit \in 1..(Units + 1) /\ fill.asked \in BOOLEAN
      BY <1>1, <2>2, ConstantsAssumption DEF FillTyped, Progress
    <3>2. QueuesTyped' /\ FillTyped'
      BY <1>1, <2>1, <2>2, <3>1, DecidingTyped
    <3>3. QED
      BY <1>3, <1>4, <3>2 DEF Typed
  <2>3. CASE fill' = NoFill /\ UNCHANGED <<turn, decided>>
    <3>1. FillTyped'
      BY <2>3, ConstantsAssumption DEF FillTyped, NoFill, Progress
    <3>2. QueuesTyped'
      BY <1>1, <2>1, <2>3 DEF QueuesTyped, TurnsTyped
    <3>3. QED
      BY <1>3, <1>4, <3>1, <3>2 DEF Typed
  <2>4. QED
    BY <1>11, <2>2, <2>3 DEF Announced
<1>12. QED
  BY <1>9, <1>10, <1>11

LEMMA PrepareTypedStep ==
  ASSUME Typed, NEW t \in Turns, Prepare(t)
  PROVE  Typed'
<1>1. /\ QueuesTyped /\ FillTyped /\ LoopTyped /\ CursorTyped /\ ControlTyped /\ BoundsTyped
  BY DEF Typed
<1>2. UNCHANGED <<next, fill, loop, control, interrupts, holds, says, questions>>
  BY DEF Prepare, PrepareGone, Prepared, PrepareRejected, bounds
<1>3. FillTyped' /\ LoopTyped' /\ ControlTyped'
  BY <1>1, <1>2 DEF FillTyped, LoopTyped, ControlTyped, control
<1>4. CursorTyped' /\ BoundsTyped'
  <2>1. asked' = asked \/ asked' = (asked /\ turn[t].unit # Answer)
    BY DEF Prepare, PrepareGone, Prepared, PrepareRejected
  <2>2. asked' \in BOOLEAN
    BY <1>1, <2>1, Zenon DEF CursorTyped
  <2>3. failures' = failures \/ (failures < MaxFailures /\ failures' = failures + 1)
    BY DEF Prepare, PrepareGone, Prepared, PrepareRejected, Failure, bounds
  <2>4. failures' \in 0..MaxFailures
    BY <1>1, <2>3, ConstantsAssumption DEF BoundsTyped
  <2>5. QED
    BY <1>1, <1>2, <2>2, <2>4 DEF CursorTyped, BoundsTyped
<1>5. CASE PrepareGone(t)
  <2>1. QueuesTyped'
    BY <1>1, <1>5 DEF PrepareGone, QueuesTyped, TurnsTyped
  <2>2. QED
    BY <1>3, <1>4, <2>1 DEF Typed
<1>6. CASE Prepared(t)
  <2>1. decided' \in Seq(Turns) /\ preparing' \subseteq Turns
    BY <1>1, <1>6 DEF Prepared, IsFirst, QueuesTyped
  <2>2. TurnsTyped'
    BY <1>1, <1>6, EndingTyped DEF Prepared, QueuesTyped, TurnsTyped, Outcomes
  <2>3. ready' \in Seq(Turns) /\ event' \in BOOLEAN
    <3>1. ready' \in {Append(ready, t), ready} /\ (event' = TRUE \/ event' = event)
      BY <1>6 DEF Prepared
    <3>2. ready' \in Seq(Turns)
      BY <1>1, <3>1 DEF QueuesTyped
    <3>3. event' \in BOOLEAN
      BY <1>1, <3>1, Zenon DEF QueuesTyped
    <3>4. QED
      BY <3>2, <3>3
  <2>4. QueuesTyped'
    BY <2>1, <2>2, <2>3 DEF QueuesTyped
  <2>5. QED
    BY <1>3, <1>4, <2>4 DEF Typed
<1>7. CASE PrepareRejected(t)
  <2>1. turn[t].unit = Answer => decided' \in Seq(Turns) /\ preparing' \subseteq Turns
    BY <1>1, <1>7 DEF PrepareRejected, IsFirst, QueuesTyped
  <2>2. QueuesTyped'
    BY <1>1, <1>7, <2>1, GivingUpTyped DEF PrepareRejected
  <2>3. QED
    BY <1>3, <1>4, <2>2 DEF Typed
<1>8. QED
  BY <1>5, <1>6, <1>7 DEF Prepare

\* Where the loop goes: a place, with the turn it took or none.
LEMMA PlaceTyped ==
  ASSUME NEW a \in LoopPC, NEW t \in Turns \cup {0}, At(a, t)
  PROVE  LoopTyped'
  BY ConstantsAssumption DEF LoopTyped, Places, At, Turns

\* A failure that is counted, or none.
LEMMA FailuresTyped ==
  ASSUME BoundsTyped, Failure \/ UNCHANGED failures
  PROVE  failures' \in 0..MaxFailures
  BY ConstantsAssumption DEF BoundsTyped, Failure

LEMMA WaitTypedStep ==
  ASSUME Typed, Wake \/ Rest \/ Wait \/ Die \/ Pause \/ Finish
  PROVE  Typed'
<1>1. /\ QueuesTyped /\ FillTyped /\ LoopTyped /\ CursorTyped /\ ControlTyped /\ BoundsTyped
  BY DEF Typed
<1>2. /\ UNCHANGED <<next, asked, queues, fill, gen, frozen, saying, doomed, lifted, bounds>>
      /\ (UNCHANGED event \/ event' = TRUE \/ event' = FALSE)
      /\ (UNCHANGED locked \/ locked' = FALSE)
  BY DEF Wake, Rest, Wait, Die, Pause, Finish, control
<1>3. FillTyped' /\ CursorTyped' /\ BoundsTyped'
  BY <1>1, <1>2 DEF FillTyped, CursorTyped, BoundsTyped, bounds
<1>4. ControlTyped'
  <2>1. locked' \in BOOLEAN
    BY <1>1, <1>2, Zenon DEF ControlTyped
  <2>2. QED
    BY <1>1, <1>2, <2>1 DEF ControlTyped, bounds
<1>5. QueuesTyped'
  <2>1. event' \in BOOLEAN
    BY <1>1, <1>2, Zenon DEF QueuesTyped
  <2>2. QED
    BY <1>1, <1>2, <2>1 DEF QueuesTyped, TurnsTyped, queues
<1>6. LoopTyped'
  BY PlaceTyped DEF LoopPC, Wake, Rest, Wait, Die, Pause, Finish
<1>7. QED
  BY <1>3, <1>4, <1>5, <1>6 DEF Typed

LEMMA TakeTypedStep ==
  ASSUME Typed, Refresh \/ Take
  PROVE  Typed'
<1>1. /\ QueuesTyped /\ FillTyped /\ LoopTyped /\ CursorTyped /\ ControlTyped /\ BoundsTyped
  BY DEF Typed
<1>2. UNCHANGED <<next, asked, fill, control, bounds>>
  BY DEF Refresh, Take
<1>3. FillTyped' /\ CursorTyped' /\ BoundsTyped' /\ ControlTyped'
  BY <1>1, <1>2 DEF FillTyped, CursorTyped, BoundsTyped, ControlTyped, bounds, control
<1>4. CASE Refresh
  <2>1. QueuesTyped'
    BY <1>1, <1>4, InvalidatingTyped DEF Refresh, QueuesTyped
  <2>2. LoopTyped'
    BY <1>4, PlaceTyped DEF Refresh, LoopPC
  <2>3. QED
    BY <1>3, <2>1, <2>2 DEF Typed
<1>5. CASE Take
  <2>1. Head(ready) \in Turns /\ ready' \in Seq(Turns)
    BY <1>1, <1>5 DEF Take, QueuesTyped
  <2>2. At("revalidate", Head(ready)) \/ At("next", 0)
    BY <1>5 DEF Take
  <2>3. LoopTyped'
    BY <2>1, <2>2, PlaceTyped DEF LoopPC
  <2>4. TurnsTyped'
    BY <1>1, <1>5, EndingTyped DEF Take, QueuesTyped, TurnsTyped, Outcomes
  <2>5. QueuesTyped'
    BY <1>1, <1>5, <2>1, <2>4 DEF Take, QueuesTyped
  <2>6. QED
    BY <1>3, <2>3, <2>5 DEF Typed
<1>6. QED
  BY <1>4, <1>5

LEMMA RevalidatedTypedStep ==
  ASSUME IInv, Typed, Revalidated
  PROVE  Typed'
<1> DEFINE t == loop.turn
<1>1. /\ QueuesTyped /\ FillTyped /\ LoopTyped /\ CursorTyped /\ ControlTyped /\ BoundsTyped
  BY DEF Typed
<1>2. t \in Turns
  BY DEF IInv, Shapes, LoopShape, Revalidated
<1>3. UNCHANGED <<next, fill, gen, frozen, saying, doomed, lifted, interrupts, holds, says,
                  questions>>
  BY DEF Revalidated
<1>4. /\ asked' = asked \/ asked' = (asked /\ turn[t].unit # Answer)
      /\ locked' = locked \/ locked' = TRUE
      /\ Failure \/ UNCHANGED failures
  BY DEF Revalidated, Refuse, PutBack
<1>5. asked' \in BOOLEAN /\ locked' \in BOOLEAN
  BY <1>1, <1>4, Zenon DEF CursorTyped, ControlTyped
<1>6. FillTyped' /\ CursorTyped' /\ BoundsTyped' /\ ControlTyped'
  BY <1>1, <1>3, <1>4, <1>5, FailuresTyped DEF FillTyped, CursorTyped, BoundsTyped, ControlTyped
<1>7. CASE Refuse(t)
  <2>1. QueuesTyped'
    <3>1. turn[t].unit = Answer => decided' \in Seq(Turns) /\ preparing' \subseteq Turns
      BY <1>1, <1>7 DEF Refuse, QueuesTyped
    <3>2. QED
      BY <1>1, <1>7, <3>1, GivingUpTyped DEF Refuse
  <2>2. LoopTyped'
    BY <1>2, <1>7, PlaceTyped DEF Refuse, LoopPC
  <2>3. QED
    BY <1>6, <2>1, <2>2 DEF Typed
<1>8. CASE PutBack(t)
  <2>1. QueuesTyped'
    BY <1>1, <1>2, <1>8 DEF PutBack, QueuesTyped, TurnsTyped
  <2>2. LoopTyped'
    BY <1>8, PlaceTyped DEF PutBack, LoopPC
  <2>3. QED
    BY <1>6, <2>1, <2>2 DEF Typed
<1>9. CASE At("speak", t) /\ UNCHANGED <<queues, event>>
  <2>1. QueuesTyped'
    BY <1>1, <1>9 DEF QueuesTyped, TurnsTyped, queues
  <2>2. LoopTyped'
    BY <1>2, <1>9, PlaceTyped DEF LoopPC
  <2>3. QED
    BY <1>6, <2>1, <2>2 DEF Typed
<1>10. QED
  BY <1>7, <1>8, <1>9 DEF Revalidated

LEMMA SpokenTypedStep ==
  ASSUME IInv, Typed, Played \/ Skip
  PROVE  Typed'
<1> DEFINE t == loop.turn
<1>1. /\ QueuesTyped /\ FillTyped /\ LoopTyped /\ CursorTyped /\ ControlTyped /\ BoundsTyped
      /\ t \in Turns
  BY DEF Typed, IInv, Shapes, LoopShape, Played, Skip
<1>2. /\ next' = AfterUnit(next, t) /\ asked' = (asked /\ turn[t].unit # Answer)
      /\ At("finishing", t)
      /\ UNCHANGED <<decided, ready, preparing, fill, event, control, interrupts, holds, says,
                     questions>>
      /\ Failure \/ UNCHANGED failures
  BY DEF Played, Skip, MarkSpoken, bounds
<1>3. CursorTyped'
  <2>1. turn[t].unit \in 0..Units
    BY <1>1 DEF QueuesTyped, TurnsTyped, Records
  <2>2. next' \in 1..(Units + 1)
    BY <1>1, <1>2, <2>1, ConstantsAssumption DEF CursorTyped, AfterUnit
  <2>3. asked' \in BOOLEAN
    BY <1>1, <1>2, Zenon DEF CursorTyped
  <2>4. QED
    BY <2>2, <2>3 DEF CursorTyped
<1>4. FillTyped' /\ BoundsTyped' /\ ControlTyped'
  BY <1>1, <1>2, FailuresTyped DEF FillTyped, BoundsTyped, ControlTyped, control
<1>5. QueuesTyped'
  <2>1. TurnsTyped'
    BY <1>1, EndingTyped DEF Played, Skip, QueuesTyped, Outcomes
  <2>2. QED
    BY <1>1, <1>2, <2>1 DEF QueuesTyped
<1>6. LoopTyped'
  BY <1>1, <1>2, PlaceTyped DEF LoopPC
<1>7. QED
  BY <1>3, <1>4, <1>5, <1>6 DEF Typed

LEMMA BrokenTypedStep ==
  ASSUME IInv, Typed, CutOff \/ SpeechFails \/ FailureNoted
  PROVE  Typed'
<1>1. /\ QueuesTyped /\ FillTyped /\ LoopTyped /\ CursorTyped /\ ControlTyped /\ BoundsTyped
      /\ loop.turn \in Turns
  BY DEF Typed, IInv, Shapes, LoopShape, CutOff, SpeechFails, FailureNoted
<1>2. /\ UNCHANGED <<next, asked, fill, gen, frozen, saying, doomed, lifted, interrupts, holds,
                     says, questions>>
      /\ Failure \/ UNCHANGED failures
      /\ UNCHANGED locked \/ locked' = FALSE
  BY DEF CutOff, SpeechFails, FailureNoted, control, bounds
<1>3. FillTyped' /\ CursorTyped' /\ BoundsTyped' /\ ControlTyped'
  <2>1. locked' \in BOOLEAN
    BY <1>1, <1>2, Zenon DEF ControlTyped
  <2>2. QED
    BY <1>1, <1>2, <2>1, FailuresTyped DEF FillTyped, CursorTyped, BoundsTyped, ControlTyped
<1>4. LoopTyped'
  BY <1>1, PlaceTyped DEF LoopPC, CutOff, SpeechFails, FailureNoted
<1>5. QueuesTyped'
  <2>1. CASE \E o \in {"cancelled", "failed"} :
               /\ turn' = Ended(turn, {loop.turn}, o)
               /\ UNCHANGED <<decided, ready, preparing, event>>
    <3>1. TurnsTyped'
      BY <1>1, <2>1, EndingTyped DEF QueuesTyped, Outcomes
    <3>2. QED
      BY <1>1, <2>1, <3>1 DEF QueuesTyped
  <2>2. CASE Invalidate({loop.turn}) \/ Invalidate({})
    BY <1>1, <2>2, InvalidatingTyped DEF QueuesTyped
  <2>3. CASE UNCHANGED <<queues, event>>
    BY <1>1, <2>3 DEF QueuesTyped, TurnsTyped, queues
  <2>4. QED
    BY <2>1, <2>2, <2>3 DEF CutOff, SpeechFails, FailureNoted
<1>6. QED
  BY <1>3, <1>4, <1>5 DEF Typed

LEMMA ControlTypedStep ==
  ASSUME Typed,
         Interrupt \/ Revise \/ Hold \/ Resume \/ Lift \/ Say \/ SayEnds \/ Ask \/ UNCHANGED vars
  PROVE  Typed'
<1>1. /\ QueuesTyped /\ FillTyped /\ LoopTyped /\ CursorTyped /\ ControlTyped /\ BoundsTyped
  BY DEF Typed
<1>2. UNCHANGED <<next, fill, loop, failures>>
  BY DEF Interrupt, Revise, Hold, Resume, Lift, Say, SayEnds, Ask, bounds, vars
<1>3. FillTyped' /\ LoopTyped'
  BY <1>1, <1>2 DEF FillTyped, LoopTyped
<1>4. CursorTyped'
  <2>1. UNCHANGED asked \/ asked' = TRUE
    BY DEF Interrupt, Revise, Hold, Resume, Lift, Say, SayEnds, Ask, vars
  <2>2. asked' \in BOOLEAN
    BY <1>1, <2>1, Zenon DEF CursorTyped
  <2>3. QED
    BY <1>1, <1>2, <2>2 DEF CursorTyped
<1>5. BoundsTyped'
  <2>1. /\ UNCHANGED interrupts \/ (interrupts < MaxInterrupts /\ interrupts' = interrupts + 1)
        /\ UNCHANGED holds \/ (holds < MaxHolds /\ holds' = holds + 1)
        /\ UNCHANGED says \/ (says < MaxSays /\ says' = says + 1)
        /\ UNCHANGED questions \/ (questions < MaxQuestions /\ questions' = questions + 1)
    BY DEF Interrupt, Revise, Hold, Resume, Lift, Say, SayEnds, Ask, bounds, vars
  <2>2. QED
    BY <1>1, <1>2, <2>1, ConstantsAssumption DEF BoundsTyped
<1>6. ControlTyped'
  <2>1. gen' = interrupts'
    BY <1>1 DEF ControlTyped, Interrupt, Revise, Hold, Resume, Lift, Say, SayEnds, Ask, bounds,
       control, vars
  <2>2. /\ UNCHANGED frozen \/ frozen' = TRUE \/ frozen' = FALSE
        /\ UNCHANGED locked \/ locked' = TRUE \/ locked' = FALSE
        /\ UNCHANGED saying \/ saying' = TRUE \/ saying' = FALSE
        /\ UNCHANGED lifted \/ lifted' = TRUE
    BY DEF Interrupt, Revise, Hold, Resume, Lift, Say, SayEnds, Ask, control, vars
  <2>3. /\ frozen' \in BOOLEAN /\ locked' \in BOOLEAN /\ saying' \in BOOLEAN
        /\ lifted' \in BOOLEAN
    BY <1>1, <2>2, Zenon DEF ControlTyped
  <2>4. doomed' \subseteq Turns
    <3>1. UNCHANGED doomed \/ doomed' = doomed \cup {t \in Turns : IsOpen(t)}
      BY DEF Interrupt, Revise, Hold, Resume, Lift, Say, SayEnds, Ask, control, vars
    <3>2. QED
      BY <1>1, <3>1 DEF ControlTyped
  <2>5. QED
    BY <2>1, <2>3, <2>4 DEF ControlTyped
<1>7. QueuesTyped'
  <2>1. CASE Interrupt \/ Revise
    BY <1>1, <2>1, InvalidatingTyped DEF Interrupt, Revise, QueuesTyped
  <2>2. CASE Hold \/ Resume \/ Lift \/ Say \/ SayEnds \/ Ask \/ UNCHANGED vars
    <3>1. UNCHANGED queues /\ (UNCHANGED event \/ event' = TRUE)
      BY <2>2 DEF Hold, Resume, Lift, Say, SayEnds, Ask, vars
    <3>2. event' \in BOOLEAN
      BY <1>1, <3>1, Zenon DEF QueuesTyped
    <3>3. QED
      BY <1>1, <3>1, <3>2 DEF QueuesTyped, TurnsTyped, queues
  <2>3. QED
    BY <2>1, <2>2
<1>8. QED
  BY <1>3, <1>4, <1>5, <1>6, <1>7 DEF Typed

LEMMA TypedStep == IInv /\ Typed /\ [Next]_vars => Typed'
<1> SUFFICES ASSUME IInv, Typed, [Next]_vars PROVE Typed'
  OBVIOUS
<1>1. CASE Loop
  BY <1>1, FillTypedStep, WaitTypedStep, TakeTypedStep, RevalidatedTypedStep, SpokenTypedStep,
     BrokenTypedStep DEF Loop
<1>2. CASE TickFill \/ Announced
  BY <1>2, FillTypedStep
<1>3. ASSUME NEW t \in Turns, Prepare(t) PROVE Typed'
  BY <1>3, PrepareTypedStep
<1>4. CASE Interrupt \/ Revise \/ Hold \/ Resume \/ Lift \/ Say \/ SayEnds \/ Ask
           \/ UNCHANGED vars
  BY <1>4, ControlTypedStep
<1>5. QED
  BY <1>1, <1>2, <1>3, <1>4 DEF Next

\* Every part of the state is what it is declared to be; in particular the cursor, and
\* what is projected from it, stay within the script and one behind its end.
THEOREM TypeCorrect == Spec => []TypeOK
<1>1. Init => Typed
  BY TypedInit
<1>2. IInv /\ Typed /\ [Next]_vars => Typed'
  BY TypedStep
<1>3. Typed => TypeOK
  BY TypedIsTypeOK
<1>4. QED
  BY <1>1, <1>2, <1>3, Invariance, PTL DEF Spec

(***************************************************************************)
(* What a session without interrupts and failures keeps.                   *)
(***************************************************************************)
\* No interrupt, no new catalog or configuration, no turn rejected or failed.
Undisturbed == MaxInterrupts = 0 /\ MaxFailures = 0

\* The loop lives, and the queue it waits behind has a turn for it.
HasATurn == loop.at # "dead" /\ (loop.at = "boundary" => ready # << >>)

LEMMA NoDisturbance ==
  ASSUME Undisturbed, Typed
  PROVE  ~Failure /\ ~Interrupt /\ ~Revise
  BY DEF Undisturbed, Typed, BoundsTyped, Failure, Interrupt, Revise

LEMMA HasATurnStep ==
  ASSUME Undisturbed, Typed, HasATurn, [Next]_vars
  PROVE  HasATurn'
<1>1. ~Failure /\ ~Interrupt /\ ~Revise
  BY NoDisturbance
<1>2. ready \in Seq(Turns) /\ AfterFill.at \in {"wait", "next"}
  BY DEF Typed, QueuesTyped, LoopTyped, Places, AfterFill
<1>3. CASE Loop
  <2>1. CASE LoopFill
    BY <1>2, <2>1 DEF LoopFill, HasATurn, queues
  <2>2. CASE Wait
    BY <2>2 DEF Wait, At, HasATurn, queues
  <2>3. CASE Die
    BY <2>3 DEF Die, AtBoundary, HasATurn
  <2>4. CASE Wake \/ Rest \/ Pause \/ Played \/ Finish \/ Skip \/ CutOff \/ SpeechFails
             \/ FailureNoted \/ Refresh \/ Take \/ Revalidated
    <3>1. loop'.at \notin {"dead", "boundary"}
      BY <2>4 DEF Wake, Rest, Pause, Played, Finish, Skip, CutOff, SpeechFails, FailureNoted,
         Refresh, Take, Revalidated, Refuse, PutBack, At
    <3>2. QED
      BY <3>1 DEF HasATurn
  <2>5. QED
    BY <1>3, <2>1, <2>2, <2>3, <2>4 DEF Loop
<1>4. CASE TickFill \/ Announced
  <2>1. UNCHANGED ready /\ loop' \in {loop, AfterFill}
    BY <1>4 DEF TickFill, Announced
  <2>2. QED
    BY <1>2, <2>1 DEF HasATurn
<1>5. ASSUME NEW t \in Turns, Prepare(t) PROVE HasATurn'
  <2>1. ~PrepareRejected(t)
    BY <1>1 DEF PrepareRejected
  <2>2. UNCHANGED loop /\ (UNCHANGED ready \/ ready' = Append(ready, t))
    BY <1>5, <2>1 DEF Prepare, PrepareGone, Prepared
  <2>3. Append(ready, t) # << >>
    BY <1>2, AppendProperties
  <2>4. QED
    BY <2>2, <2>3 DEF HasATurn
<1>6. CASE Hold \/ Resume \/ Lift \/ Say \/ SayEnds \/ Ask \/ UNCHANGED vars
  BY <1>6 DEF Hold, Resume, Lift, Say, SayEnds, Ask, vars, queues, HasATurn
<1>7. QED
  BY <1>1, <1>3, <1>4, <1>5, <1>6 DEF Next

\* The playback loop survives unless somebody interrupts, revises or a turn is refused.
THEOREM UndisturbedPlaybackSurvives ==
  ASSUME Undisturbed
  PROVE  Spec => []PlaybackSurvives
<1>1. Init => Typed /\ HasATurn
  BY TypedInit DEF Init, HasATurn
<1>2. IInv /\ Typed /\ HasATurn /\ [Next]_vars => Typed' /\ HasATurn'
  BY TypedStep, HasATurnStep
<1>3. HasATurn => PlaybackSurvives
  BY DEF HasATurn, PlaybackSurvives
<1>4. QED
  BY <1>1, <1>2, <1>3, Invariance, PTL DEF Spec

(***************************************************************************)
(* The way of the turns: who is in the loop's hands, ready, and decided.   *)
(***************************************************************************)
Hands == IF loop.at \in {"revalidate", "speak"} THEN <<loop.turn>> ELSE << >>

Way == (Hands \o ready) \o decided

\* A turn goes from the head of one queue to the end of the one before.
LEMMA Shift ==
  ASSUME NEW S, NEW r \in Seq(S), NEW d \in Seq(S), d # << >>
  PROVE  Append(r, Head(d)) \o Tail(d) = r \o d
<1>1. /\ Head(d) = d[1] /\ Head(d) \in S /\ Tail(d) \in Seq(S) /\ Len(Tail(d)) = Len(d) - 1
      /\ \A i \in 1..Len(Tail(d)) : Tail(d)[i] = d[i + 1]
  BY HeadTailProperties
<1> DEFINE a == Append(r, Head(d))
<1>2. /\ a \in Seq(S) /\ Len(a) = Len(r) + 1
      /\ \A i \in 1..Len(a) : a[i] = IF i = Len(r) + 1 THEN d[1] ELSE r[i]
  BY <1>1
<1>3. Len(r) \in Nat /\ Len(d) \in Nat
  OBVIOUS
<1> HIDE DEF a
<1>4. /\ a \o Tail(d) \in Seq(S) /\ Len(a \o Tail(d)) = Len(a) + Len(Tail(d))
      /\ \A i \in 1..(Len(a) + Len(Tail(d))) :
           (a \o Tail(d))[i] = IF i <= Len(a) THEN a[i] ELSE Tail(d)[i - Len(a)]
  BY <1>1, <1>2, ConcatProperties
<1>5. /\ r \o d \in Seq(S) /\ Len(r \o d) = Len(r) + Len(d)
      /\ \A i \in 1..(Len(r) + Len(d)) : (r \o d)[i] = IF i <= Len(r) THEN r[i] ELSE d[i - Len(r)]
  BY ConcatProperties
<1>6. ASSUME NEW i \in 1..(Len(r) + Len(d)) PROVE (a \o Tail(d))[i] = (r \o d)[i]
  <2>1. CASE i <= Len(r)
    BY <1>2, <1>3, <1>4, <1>5, <1>1, <2>1
  <2>2. CASE i = Len(r) + 1
    BY <1>2, <1>3, <1>4, <1>5, <1>1, <2>2
  <2>3. CASE i > Len(r) + 1
    <3>1. i - Len(a) \in 1..Len(Tail(d)) /\ (i - Len(a)) + 1 = i - Len(r)
      BY <1>1, <1>2, <1>3, <2>3
    <3>2. Tail(d)[i - Len(a)] = d[i - Len(r)]
      BY <1>1, <3>1
    <3>3. (a \o Tail(d))[i] = Tail(d)[i - Len(a)] /\ (r \o d)[i] = d[i - Len(r)]
      BY <1>1, <1>2, <1>3, <1>4, <1>5, <2>3
    <3>4. QED
      BY <3>2, <3>3
  <2>4. i \in Nat /\ (i <= Len(r) \/ i = Len(r) + 1 \/ i > Len(r) + 1)
    BY <1>3
  <2>5. QED
    BY <2>1, <2>2, <2>3, <2>4
<1>7. Len(a \o Tail(d)) = Len(r \o d)
  BY <1>1, <1>2, <1>3, <1>4, <1>5
<1>8. a \o Tail(d) = r \o d
  BY <1>4, <1>5, <1>6, <1>7, SeqEqual
<1>9. QED
  BY <1>8 DEF a

LEMMA Rejoin ==
  ASSUME NEW S, NEW s \in Seq(S), s # << >>
  PROVE  <<Head(s)>> \o Tail(s) = s
<1>1. Append(<< >>, Head(s)) \o Tail(s) = << >> \o s
  BY Shift, EmptySeq
<1>2. Append(<< >>, Head(s)) = <<Head(s)>>
  OBVIOUS
<1>3. << >> \o s = s
  BY ConcatEmptySeq
<1>4. QED
  BY <1>1, <1>2, <1>3

\* What is left when the first one leaves.
LEMMA TailOfWay ==
  ASSUME NEW S, NEW h \in S, NEW r \in Seq(S), NEW d \in Seq(S)
  PROVE  Tail((<<h>> \o r) \o d) = r \o d
<1>1. <<h>> \in Seq(S)
  OBVIOUS
<1>2. (<<h>> \o r) \o d = <<h>> \o (r \o d)
  BY <1>1, ConcatAssociative
<1>3. r \o d \in Seq(S)
  OBVIOUS
<1> DEFINE w == r \o d
<1>4. Tail(<<h>> \o w) = w
  <2>1. w \in Seq(S)
    BY <1>3
  <2> HIDE DEF w
  <2>2. /\ <<h>> \o w \in Seq(S) /\ Len(<<h>> \o w) = 1 + Len(w)
        /\ \A i \in 1..(1 + Len(w)) : (<<h>> \o w)[i] = IF i <= 1 THEN h ELSE w[i - 1]
    BY <1>1, <2>1
  <2>3. <<h>> \o w # << >> /\ Len(w) \in Nat
    BY <2>1, <2>2
  <2>4. /\ Tail(<<h>> \o w) \in Seq(S) /\ Len(Tail(<<h>> \o w)) = Len(w)
        /\ \A i \in 1..Len(w) : Tail(<<h>> \o w)[i] = (<<h>> \o w)[i + 1]
    BY <2>2, <2>3, HeadTailProperties
  <2>5. \A i \in 1..Len(w) : Tail(<<h>> \o w)[i] = w[i]
    BY <2>2, <2>3, <2>4
  <2>6. QED
    BY <2>1, <2>4, <2>5, SeqEqual
<1>5. QED
  BY <1>2, <1>4

(***************************************************************************)
(* The cursor along the way: where it will stand after each of the turns.  *)
(***************************************************************************)
\* c is the cursor after each turn of q, and each unit of q is the one it stands at.
Chain(table, start, c, q) ==
  /\ c[0] = start
  /\ \A i \in 1..Len(q) :
       /\ table[q[i]].unit \in {Answer, c[i - 1]}
       /\ c[i] = IF table[q[i]].unit = c[i - 1] THEN c[i - 1] + 1 ELSE c[i - 1]

LEMMA ChainGrows ==
  ASSUME NEW T, NEW U, NEW s, NEW c, NEW S, NEW q \in Seq(S), NEW t \in S, Chain(T, s, c, q),
         \A i \in 1..Len(q) : U[q[i]].unit = T[q[i]].unit, U[t].unit \in {Answer, c[Len(q)]}
  PROVE  \E d : /\ Chain(U, s, d, Append(q, t))
                /\ d[Len(Append(q, t))] =
                     IF U[t].unit = c[Len(q)] THEN c[Len(q)] + 1 ELSE c[Len(q)]
<1> DEFINE n == Len(q)
           a == Append(q, t)
           last == IF U[t].unit = c[n] THEN c[n] + 1 ELSE c[n]
           d == [i \in 0..(n + 1) |-> IF i = n + 1 THEN last ELSE c[i]]
<1>1. n \in Nat /\ Len(a) = n + 1 /\ a[n + 1] = t /\ \A i \in 1..n : a[i] = q[i]
  BY AppendProperties
<1>2. \A i \in 1..n : U[q[i]].unit = T[q[i]].unit
  OBVIOUS
<1>3. /\ c[0] = s
      /\ \A i \in 1..n :
           /\ T[q[i]].unit \in {Answer, c[i - 1]}
           /\ c[i] = IF T[q[i]].unit = c[i - 1] THEN c[i - 1] + 1 ELSE c[i - 1]
  BY DEF Chain
<1>4. U[t].unit \in {Answer, c[n]}
  OBVIOUS
<1> HIDE DEF n, a
<1>5. d[n + 1] = last /\ \A i \in 0..n : d[i] = c[i]
  <2>1. n + 1 \in 0..(n + 1) /\ \A i \in 0..n : i \in 0..(n + 1) /\ i # n + 1
    BY <1>1
  <2>2. QED
    BY <2>1
<1>6. last = IF U[t].unit = c[n] THEN c[n] + 1 ELSE c[n]
  OBVIOUS
<1> HIDE DEF d, last
<1>7. ASSUME NEW i \in 1..Len(a)
      PROVE  /\ U[a[i]].unit \in {Answer, d[i - 1]}
             /\ d[i] = IF U[a[i]].unit = d[i - 1] THEN d[i - 1] + 1 ELSE d[i - 1]
  <2>1. CASE i = n + 1
    <3>1. i - 1 = n /\ n \in 0..n /\ a[i] = t
      BY <1>1, <2>1
    <3>2. d[i - 1] = c[n] /\ d[i] = last
      BY <1>5, <2>1, <3>1
    <3>3. QED
      BY <1>4, <1>6, <3>1, <3>2
  <2>2. CASE i # n + 1
    <3>1. i \in 1..n /\ i - 1 \in 0..n /\ i \in 0..n
      BY <1>1, <2>2
    <3>2. d[i - 1] = c[i - 1] /\ d[i] = c[i] /\ a[i] = q[i]
      BY <1>1, <1>5, <3>1
    <3>3. U[a[i]].unit = T[q[i]].unit
      BY <1>2, <3>1, <3>2
    <3>4. QED
      BY <1>3, <3>1, <3>2, <3>3
  <2>3. QED
    BY <2>1, <2>2
<1>8. d[0] = s
  BY <1>1, <1>3, <1>5
<1>9. Chain(U, s, d, a)
  BY <1>7, <1>8 DEF Chain
<1>10. d[Len(a)] = IF U[t].unit = c[n] THEN c[n] + 1 ELSE c[n]
  BY <1>1, <1>5, <1>6
<1>11. QED
  BY <1>9, <1>10 DEF a, n

LEMMA ChainShrinks ==
  ASSUME NEW T, NEW U, NEW s, NEW c, NEW S, NEW q \in Seq(S), q # << >>, Chain(T, s, c, q),
         \A i \in 1..Len(q) : U[q[i]].unit = T[q[i]].unit
  PROVE  \E d : Chain(U, c[1], d, Tail(q)) /\ d[Len(Tail(q))] = c[Len(q)]
<1> DEFINE n == Len(q)
           r == Tail(q)
           d == [i \in 0..(n - 1) |-> c[i + 1]]
<1>1. n \in Nat \ {0} /\ Len(r) = n - 1 /\ \A i \in 1..(n - 1) : r[i] = q[i + 1]
  BY HeadTailProperties, EmptySeq
<1>2. \A i \in 1..n :
        /\ U[q[i]].unit = T[q[i]].unit /\ T[q[i]].unit \in {Answer, c[i - 1]}
        /\ c[i] = IF T[q[i]].unit = c[i - 1] THEN c[i - 1] + 1 ELSE c[i - 1]
  BY DEF Chain
<1> HIDE DEF n, r
<1>3. \A i \in 0..(n - 1) : d[i] = c[i + 1]
  OBVIOUS
<1> HIDE DEF d
<1>4. ASSUME NEW i \in 1..Len(r)
      PROVE  /\ U[r[i]].unit \in {Answer, d[i - 1]}
             /\ d[i] = IF U[r[i]].unit = d[i - 1] THEN d[i - 1] + 1 ELSE d[i - 1]
  <2>1. /\ i \in 1..(n - 1) /\ i \in 0..(n - 1) /\ i - 1 \in 0..(n - 1) /\ i + 1 \in 1..n
        /\ (i + 1) - 1 = i /\ (i - 1) + 1 = i
    BY <1>1
  <2>2. r[i] = q[i + 1] /\ d[i] = c[i + 1] /\ d[i - 1] = c[i]
    BY <1>1, <1>3, <2>1
  <2>3. /\ U[q[i + 1]].unit = T[q[i + 1]].unit /\ T[q[i + 1]].unit \in {Answer, c[i]}
        /\ c[i + 1] = IF T[q[i + 1]].unit = c[i] THEN c[i] + 1 ELSE c[i]
    BY <1>2, <2>1
  <2>4. QED
    BY <2>2, <2>3
<1>5. d[0] = c[1] /\ d[Len(r)] = c[n]
  <2>1. 0 \in 0..(n - 1) /\ Len(r) \in 0..(n - 1) /\ Len(r) + 1 = n /\ 0 + 1 = 1
    BY <1>1
  <2>2. d[0] = c[0 + 1] /\ d[Len(r)] = c[Len(r) + 1]
    BY <1>3, <2>1
  <2>3. QED
    BY <2>1, <2>2
<1>6. Chain(U, c[1], d, r)
  BY <1>4, <1>5 DEF Chain
<1>7. QED
  BY <1>5, <1>6 DEF r, n

\* What is projected is where the chain ends.
LEMMA ProjectedIs ==
  ASSUME NEW c, NEW q \in Seq(Turns), OnTheWay = q, Chain(turn, next, c, q)
  PROVE  Projected = c[Len(q)]
<1> DEFINE n == Len(q)
           Def(f) == f = [i \in 0..n |-> IF i = 0 THEN next ELSE AfterUnit(f[i - 1], q[i])]
           after == CHOOSE f : Def(f)
<1>1. Projected = after[n]
  BY DEF Projected
<1>2. n \in Nat /\ \A i \in 1..n : c[i] = AfterUnit(c[i - 1], q[i])
  BY DEF Chain, AfterUnit
<1>3. c[0] = next
  BY DEF Chain
<1> HIDE DEF n
<1>4. Def(after)
  <2>1. \E f : Def(f)
    BY <1>2, FollowsExists DEF Follows
  <2> HIDE DEF Def
  <2>2. QED
    BY <2>1
<1> HIDE DEF after
<1>5. after[0] = next /\ \A i \in 1..n : after[i] = AfterUnit(after[i - 1], q[i])
  <2>1. 0 \in 0..n /\ \A i \in 1..n : i \in 0..n /\ i # 0
    BY <1>2
  <2>2. QED
    BY <1>4, <2>1
<1> HIDE DEF Def
<1> DEFINE bad == {i \in 0..n : after[i] # c[i]}
<1>6. bad = {}
  <2> SUFFICES ASSUME bad # {} PROVE FALSE
    OBVIOUS
  <2>1. PICK m \in bad : \A i \in bad : m <= i
    <3>1. bad \subseteq Nat
      OBVIOUS
    <3> HIDE DEF bad
    <3>2. QED
      BY <3>1, Least
  <2>2. m \in 1..n
    BY <1>2, <1>3, <1>5
  <2>3. m - 1 \notin bad /\ m - 1 \in 0..n
    BY <1>2, <2>1, <2>2
  <2>4. after[m - 1] = c[m - 1]
    BY <2>3
  <2>5. after[m] = c[m]
    BY <1>2, <1>5, <2>2, <2>4
  <2>6. QED
    BY <2>5
<1>7. QED
  BY <1>1, <1>2, <1>6 DEF n

(***************************************************************************)
(* The steps of an undisturbed session: a turn comes to the end of the way, *)
(* leaves it at its head when it was played, or all behind the boundary is  *)
(* dropped.                                                                *)
(***************************************************************************)
Once(q) == \A i, j \in 1..Len(q) : q[i] = q[j] => i = j

\* Every turn on the way is there once, and open.
WayTidy == Once(Way) /\ \A i \in 1..Len(Way) : turn[Way[i]].outcome = "open"

\* A turn that the loop does not hold any more came to its end; the loop only fills the
\* queues when it has none.
LoopTidy ==
  /\ loop.at # "failing" /\ (fill.who = "loop" => loop.at \in {"fill", "refill"})
  /\ loop.at \notin {"revalidate", "speak"} =>
       loop.turn = 0 \/ (loop.turn \in Turns /\ turn[loop.turn].outcome \in Ends)

Filling == fill.who # "nobody"

\* What was decided is in preparation, but for the turn that is being announced.
FillTidy ==
  /\ ~fill.asked /\ (Filling => fill.turn \in ToSet(decided))
  /\ preparing = {t \in ToSet(decided) : ~(Filling /\ t = fill.turn)}

\* Each turn is for the unit at which the cursor will stand, and the filling goes on
\* where the last one leaves it.
InOrder == \E c : Chain(turn, next, c, Way) /\ (Filling => fill.unit = c[Len(Way)])

Steady == HasATurn /\ LoopTidy /\ WayTidy /\ FillTidy /\ InOrder

LEMMA WayTyped ==
  ASSUME IInv, Typed
  PROVE  /\ Hands \in Seq(Turns) /\ Hands \o ready \in Seq(Turns) /\ Way \in Seq(Turns)
         /\ ready \in Seq(Turns) /\ decided \in Seq(Turns)
<1>1. ready \in Seq(Turns) /\ decided \in Seq(Turns)
  BY DEF Typed, QueuesTyped
<1>2. Hands \in Seq(Turns)
  <2>1. CASE loop.at \in {"revalidate", "speak"}
    <3>1. loop.turn \in Turns
      BY <2>1 DEF IInv, Shapes, LoopShape
    <3>2. QED
      BY <2>1, <3>1 DEF Hands
  <2>2. CASE loop.at \notin {"revalidate", "speak"}
    BY <2>2 DEF Hands
  <2>3. QED
    BY <2>1, <2>2
<1>3. Hands \o ready \in Seq(Turns)
  BY <1>1, <1>2
<1>4. QED
  BY <1>1, <1>2, <1>3 DEF Way

\* The way is made of the hands, the speech queue and the decision queue.
LEMMA OnWay ==
  ASSUME IInv, Typed, Once(Way)
  PROVE  /\ \A i \in 1..Len(Hands) : \E j \in 1..Len(Way) : Way[j] = Hands[i]
         /\ \A i \in 1..Len(ready) : \E j \in 1..Len(Way) : Way[j] = ready[i]
         /\ \A i \in 1..Len(decided) : \E j \in 1..Len(Way) : Way[j] = decided[i]
         /\ Once(decided)
<1> DEFINE h == Len(Hands)
           r == Len(ready)
           d == Len(decided)
<1>1. /\ Hands \in Seq(Turns) /\ Hands \o ready \in Seq(Turns) /\ Way \in Seq(Turns)
      /\ ready \in Seq(Turns) /\ decided \in Seq(Turns)
  BY WayTyped
<1>2. h \in Nat /\ r \in Nat /\ d \in Nat
  BY <1>1
<1>3. /\ Len(Hands \o ready) = h + r
      /\ \A i \in 1..(h + r) : (Hands \o ready)[i] = IF i <= h THEN Hands[i] ELSE ready[i - h]
  BY <1>1, ConcatProperties
<1>4. /\ Len(Way) = h + r + d
      /\ \A i \in 1..(h + r + d) :
           Way[i] = IF i <= h + r THEN (Hands \o ready)[i] ELSE decided[i - (h + r)]
  BY <1>1, <1>3, ConcatProperties DEF Way
<1> HIDE DEF h, r, d
<1>5. ASSUME NEW i \in 1..h PROVE \E j \in 1..Len(Way) : Way[j] = Hands[i]
  <2>1. i \in 1..(h + r) /\ i \in 1..(h + r + d) /\ i <= h /\ i <= h + r
    BY <1>2
  <2>2. Way[i] = Hands[i]
    BY <1>3, <1>4, <2>1
  <2>3. QED
    BY <1>4, <2>1, <2>2
<1>6. ASSUME NEW i \in 1..r PROVE \E j \in 1..Len(Way) : Way[j] = ready[i]
  <2>1. /\ h + i \in 1..(h + r) /\ h + i \in 1..(h + r + d) /\ ~(h + i <= h) /\ h + i <= h + r
        /\ (h + i) - h = i
    BY <1>2
  <2>2. Way[h + i] = ready[i]
    BY <1>3, <1>4, <2>1
  <2>3. QED
    BY <1>4, <2>1, <2>2
<1>7. \A i \in 1..d : h + r + i \in 1..Len(Way) /\ Way[h + r + i] = decided[i]
  <2> TAKE i \in 1..d
  <2>1. h + r + i \in 1..(h + r + d) /\ ~(h + r + i <= h + r) /\ (h + r + i) - (h + r) = i
    BY <1>2
  <2>2. QED
    BY <1>4, <2>1
<1>8. Once(decided)
  <2> SUFFICES ASSUME NEW i \in 1..d, NEW j \in 1..d, decided[i] = decided[j] PROVE i = j
    BY DEF Once, d
  <2>1. Way[h + r + i] = Way[h + r + j]
    BY <1>7
  <2>2. h + r + i = h + r + j
    BY <1>7, <2>1 DEF Once
  <2>3. QED
    BY <1>2, <2>2
<1>9. QED
  BY <1>5, <1>6, <1>7, <1>8 DEF h, r, d

\* In an undisturbed session every turn is of the only generation.
LEMMA OneGeneration ==
  ASSUME Undisturbed, IInv, Typed
  PROVE  gen = 0 /\ \A t \in Turns : turn[t].gen = gen
<1>1. gen = 0
  BY DEF Undisturbed, Typed, ControlTyped, BoundsTyped
<1>2. \A t \in Turns : turn[t].gen \in Nat /\ turn[t].gen <= gen
  BY DEF IInv, Shapes, TurnShapes, OfItsTime
<1>3. QED
  BY <1>1, <1>2

\* What the loop holds is open, and of the only generation.
LEMMA HeldIsLive ==
  ASSUME Undisturbed, IInv, Typed, Steady, loop.at \in {"revalidate", "speak"}
  PROVE  loop.turn \in Turns /\ Live(loop.turn)
<1>1. loop.turn \in Turns
  BY DEF IInv, Shapes, LoopShape
<1>2. 1 \in 1..Len(Hands) /\ Hands[1] = loop.turn
  BY DEF Hands
<1>3. PICK j \in 1..Len(Way) : Way[j] = loop.turn
  BY <1>2, OnWay DEF Steady, WayTidy
<1>4. turn[loop.turn].outcome = "open"
  BY <1>3 DEF Steady, WayTidy
<1>5. QED
  BY <1>1, <1>4, OneGeneration DEF Live, IsOpen

\* A step that leaves the way, and what goes on at its end, as it is.
LEMMA StillStep ==
  ASSUME Steady, HasATurn', LoopTidy', Way' = Way,
         UNCHANGED <<turn, next, decided, preparing, fill>>
  PROVE  Steady'
<1>1. WayTidy'
  BY DEF Steady, WayTidy
<1>2. FillTidy'
  BY DEF Steady, FillTidy, Filling
<1>3. InOrder'
  BY DEF Steady, InOrder, Filling
<1>4. QED
  BY <1>1, <1>2, <1>3 DEF Steady

(***************************************************************************)
(* Deciding.                                                               *)
(***************************************************************************)
\* With room for one turn only besides the one that is missing, the projection follows
\* the way.
LEMMA ProjectionFollows ==
  ASSUME Depth <= 2, IInv, Typed, Steady, ~Filling, Missing > 0
  PROVE  OnTheWay = Way
<1>1. /\ Hands \in Seq(Turns) /\ ready \in Seq(Turns) /\ decided \in Seq(Turns)
      /\ preparing = ToSet(decided)
  BY WayTyped DEF Steady, FillTidy
<1>2. (IF loop.turn # 0 /\ IsOpen(loop.turn) THEN <<loop.turn>> ELSE << >>) = Hands
  <2>1. CASE loop.at \in {"revalidate", "speak"}
    <3>1. loop.turn \in Turns
      BY <2>1 DEF IInv, Shapes, LoopShape
    <3>2. 1 \in 1..Len(Hands) /\ Hands[1] = loop.turn
      BY <2>1 DEF Hands
    <3>3. PICK j \in 1..Len(Way) : Way[j] = loop.turn
      BY <3>2, OnWay DEF Steady, WayTidy
    <3>4. IsOpen(loop.turn)
      BY <3>3 DEF Steady, WayTidy, IsOpen
    <3>5. loop.turn # 0
      BY <3>1, ConstantsAssumption DEF Turns
    <3>6. QED
      BY <2>1, <3>4, <3>5 DEF Hands
  <2>2. CASE loop.at \notin {"revalidate", "speak"}
    BY <2>2 DEF Steady, LoopTidy, Hands, IsOpen, Ends
  <2>3. QED
    BY <2>1, <2>2
<1>3. OnTheWay = (Hands \o decided) \o ready
  BY <1>2 DEF OnTheWay
<1>4. ready = << >> \/ decided = << >>
  <2> SUFFICES ASSUME ready # << >>, decided # << >> PROVE FALSE
    OBVIOUS
  <2>1. Len(ready) \in Nat \ {0} /\ Len(decided) \in Nat \ {0}
    BY <1>1, EmptySeq
  <2>2. decided[1] \in preparing
    <3>1. 1 \in DOMAIN decided
      BY <1>1, <2>1
    <3>2. QED
      BY <1>1, <3>1 DEF ToSet
  <2>3. IsFiniteSet(preparing)
    <3>1. preparing \subseteq Turns
      BY DEF Typed, QueuesTyped
    <3>2. IsFiniteSet(Turns)
      BY FS_Interval, ConstantsAssumption DEF Turns
    <3>3. QED
      BY <3>1, <3>2, FS_Subset
  <2>4. Cardinality(preparing) \in Nat /\ Cardinality(preparing) # 0
    BY <2>2, <2>3, FS_CardinalityType, FS_EmptySet
  <2>5. Depth - Len(ready) - Cardinality(preparing) > 0
    BY DEF Missing
  <2>6. QED
    BY <2>1, <2>4, <2>5, ConstantsAssumption
<1>5. CASE ready = << >>
  <2>1. Hands \o ready = Hands /\ (Hands \o decided) \o ready = Hands \o decided
    BY <1>1, <1>5, ConcatEmptySeq, ConcatProperties
  <2>2. QED
    BY <1>3, <2>1 DEF Way
<1>6. CASE decided = << >>
  <2>1. Hands \o decided = Hands /\ (Hands \o ready) \o decided = Hands \o ready
    BY <1>1, <1>6, ConcatEmptySeq, ConcatProperties
  <2>2. QED
    BY <1>3, <2>1 DEF Way
<1>7. QED
  BY <1>4, <1>5, <1>6

LEMMA FreshTurn ==
  ASSUME IInv, Used < MaxTurns
  PROVE  Used + 1 \in Turns /\ turn[Used + 1].outcome = "none"
<1>1. PICK n \in 0..MaxTurns : \A t \in Turns : turn[t].outcome = "none" <=> n < t
  BY DEF IInv, Numbered
<1>2. Used = n
  <2>1. {t \in Turns : turn[t].outcome # "none"} = 1..n
    BY <1>1, ConstantsAssumption DEF Turns
  <2>2. Cardinality(1..n) = n
    BY FS_Interval, ConstantsAssumption
  <2>3. QED
    BY <2>1, <2>2 DEF Used
<1>3. QED
  BY <1>1, <1>2, ConstantsAssumption DEF Turns

LEMMA ToSetAppend ==
  ASSUME NEW S, NEW q \in Seq(S), NEW t \in S
  PROVE  ToSet(Append(q, t)) = ToSet(q) \cup {t}
<1> DEFINE n == Len(q)
           a == Append(q, t)
<1>1. /\ n \in Nat /\ Len(a) = n + 1 /\ a[n + 1] = t /\ \A i \in 1..n : a[i] = q[i]
      /\ DOMAIN a = 1..(n + 1) /\ DOMAIN q = 1..n
  <2>1. a \in Seq(S) /\ Len(a) = n + 1 /\ a[n + 1] = t /\ \A i \in 1..n : a[i] = q[i]
    BY AppendProperties
  <2> HIDE DEF a
  <2>2. n \in Nat /\ DOMAIN a = 1..(n + 1) /\ DOMAIN q = 1..n
    BY <2>1
  <2>3. QED
    BY <2>1, <2>2
<1> HIDE DEF a, n
<1>2. 1..(n + 1) = (1..n) \cup {n + 1}
  BY <1>1
<1>3. {a[i] : i \in 1..(n + 1)} = {q[i] : i \in 1..n} \cup {t}
  BY <1>1, <1>2
<1>4. ToSet(a) = ToSet(q) \cup {t}
  BY <1>1, <1>3 DEF ToSet
<1>5. QED
  BY <1>4 DEF a

LEMMA ToSetTail ==
  ASSUME NEW S, NEW q \in Seq(S), q # << >>, Once(q)
  PROVE  ToSet(q) = ToSet(Tail(q)) \cup {Head(q)} /\ Head(q) \notin ToSet(Tail(q))
<1> DEFINE n == Len(q)
           r == Tail(q)
<1>1. /\ n \in Nat \ {0} /\ Head(q) = q[1] /\ \A i \in 1..(n - 1) : r[i] = q[i + 1]
      /\ DOMAIN r = 1..(n - 1) /\ DOMAIN q = 1..n
  <2>1. r \in Seq(S) /\ Len(r) = n - 1 /\ \A i \in 1..Len(r) : r[i] = q[i + 1]
    BY HeadTailProperties
  <2> HIDE DEF r
  <2>2. n \in Nat \ {0} /\ Head(q) = q[1] /\ DOMAIN r = 1..Len(r) /\ DOMAIN q = 1..n
    BY <2>1, EmptySeq
  <2>3. QED
    BY <2>1, <2>2
<1>2. \A i, j \in 1..n : q[i] = q[j] => i = j
  BY DEF Once
<1> HIDE DEF r, n
<1>3. ASSUME NEW x \in {q[i] : i \in 1..n} PROVE x \in {r[i] : i \in 1..(n - 1)} \cup {q[1]}
  <2>1. PICK i \in 1..n : x = q[i]
    OBVIOUS
  <2>2. CASE i = 1
    BY <2>1, <2>2
  <2>3. CASE i # 1
    <3>1. i - 1 \in 1..(n - 1) /\ (i - 1) + 1 = i
      BY <1>1, <2>3
    <3>2. x = r[i - 1]
      BY <1>1, <2>1, <3>1
    <3>3. QED
      BY <3>1, <3>2
  <2>4. QED
    BY <2>2, <2>3
<1>4. ASSUME NEW i \in 1..(n - 1) PROVE r[i] # q[1] /\ r[i] \in {q[j] : j \in 1..n}
  <2>1. i + 1 \in 1..n /\ 1 \in 1..n /\ i + 1 # 1
    BY <1>1
  <2>2. QED
    BY <1>1, <1>2, <2>1
<1>5. /\ {q[i] : i \in 1..n} = {r[i] : i \in 1..(n - 1)} \cup {q[1]}
      /\ q[1] \notin {r[i] : i \in 1..(n - 1)}
  <2>1. 1 \in 1..n
    BY <1>1
  <2>2. QED
    BY <1>3, <1>4, <2>1
<1>6. ToSet(q) = ToSet(r) \cup {Head(q)} /\ Head(q) \notin ToSet(r)
  BY <1>1, <1>5 DEF ToSet
<1>7. QED
  BY <1>6 DEF r

LEMMA ConcatAppend ==
  ASSUME NEW S, NEW r \in Seq(S), NEW d \in Seq(S), NEW t \in S
  PROVE  r \o Append(d, t) = Append(r \o d, t)
<1>1. <<t>> \in Seq(S) /\ r \o d \in Seq(S)
  OBVIOUS
<1>2. Append(d, t) = d \o <<t>>
  BY AppendIsConcat
<1>3. Append(r \o d, t) = (r \o d) \o <<t>>
  BY <1>1, AppendIsConcat
<1>4. (r \o d) \o <<t>> = r \o (d \o <<t>>)
  BY <1>1, ConcatAssociative
<1>5. QED
  BY <1>2, <1>3, <1>4

\* A new turn comes to the end of the way, for the unit at which the cursor will stand.
LEMMA DecideStep ==
  ASSUME IInv, Typed, Steady, NEW c, Chain(turn, next, c, Way),
         NEW who, NEW left, NEW answer \in BOOLEAN, NEW unit \in Nat \ {0}, unit = c[Len(Way)],
         Decide(who, left, unit, answer), who \in {"tick", "loop"},
         who = "loop" => loop.at \in {"fill", "refill"},
         Used < MaxTurns, UNCHANGED <<next, ready, loop>>, preparing' = ToSet(decided)
  PROVE  Steady'
<1> DEFINE t == Used + 1
           u == IF answer THEN Answer ELSE unit
<1>1. t \in Turns /\ turn[t].outcome = "none"
  BY FreshTurn
<1>2. /\ turn' = [turn EXCEPT ![t] = [unit |-> u, gen |-> gen, outcome |-> "open"]]
      /\ decided' = Append(decided, t)
      /\ fill' = [who |-> who, left |-> left - 1, unit |-> IF answer THEN unit ELSE unit + 1,
                  asked |-> FALSE, turn |-> t]
  BY DEF Decide
<1> HIDE DEF t
<1>3. turn = [x \in Turns |-> turn[x]]
  BY DEF IInv, Shapes, TurnShapes
<1>4. /\ turn'[t] = [unit |-> u, gen |-> gen, outcome |-> "open"]
      /\ \A x \in Turns : x # t => turn'[x] = turn[x]
  BY <1>1, <1>2, <1>3
<1>5. /\ Hands \o ready \in Seq(Turns) /\ Way \in Seq(Turns) /\ decided \in Seq(Turns)
      /\ Once(decided) /\ \A i \in 1..Len(decided) : \E j \in 1..Len(Way) : Way[j] = decided[i]
  BY WayTyped, OnWay DEF Steady, WayTidy
<1>6. Way' = Append(Way, t)
  <2>1. Hands' = Hands
    BY DEF Hands
  <2>2. (Hands \o ready) \o Append(decided, t) = Append((Hands \o ready) \o decided, t)
    BY <1>1, <1>5, ConcatAppend
  <2>3. QED
    BY <1>2, <2>1, <2>2 DEF Way
<1>7. /\ Len(Way) \in Nat /\ Len(Way') = Len(Way) + 1 /\ Way'[Len(Way) + 1] = t
      /\ \A i \in 1..Len(Way) : Way'[i] = Way[i] /\ Way[i] \in Turns
  BY <1>1, <1>5, <1>6, AppendProperties
<1>8. \A i \in 1..Len(Way) : Way[i] # t /\ turn'[Way[i]] = turn[Way[i]]
                           /\ turn[Way[i]].outcome = "open"
  BY <1>1, <1>4, <1>7 DEF Steady, WayTidy
<1>9. WayTidy'
  <2>1. \A i \in 1..Len(Way') : i \in 1..Len(Way) \/ i = Len(Way) + 1
    BY <1>7
  <2>2. Once(Way')
    BY <1>7, <1>8, <2>1 DEF Once, Steady, WayTidy
  <2>3. \A i \in 1..Len(Way') : turn'[Way'[i]].outcome = "open"
    BY <1>4, <1>7, <1>8, <2>1
  <2>4. QED
    BY <2>2, <2>3 DEF WayTidy
<1>10. FillTidy'
  <2>1. t \notin ToSet(decided)
    <3>1. DOMAIN decided = 1..Len(decided)
      BY <1>5
    <3>2. \A i \in 1..Len(decided) : decided[i] # t
      BY <1>5, <1>8
    <3>3. QED
      BY <3>1, <3>2 DEF ToSet
  <2>2. ToSet(decided') = ToSet(decided) \cup {t}
    BY <1>1, <1>2, <1>5, ToSetAppend
  <2>3. Filling' /\ fill'.turn = t /\ fill'.asked = FALSE
    BY <1>2 DEF Filling
  <2>4. preparing' = {x \in ToSet(decided') : x # t}
    BY <2>1, <2>2
  <2>5. QED
    BY <2>2, <2>3, <2>4 DEF FillTidy
<1>11. LoopTidy'
  <2>1. fill'.who = who
    BY <1>2
  <2>2. \A x \in Turns : turn[x].outcome \in Ends => turn'[x].outcome \in Ends
    BY <1>1, <1>4 DEF Ends
  <2>3. QED
    BY <2>1, <2>2 DEF Steady, LoopTidy
<1>12. InOrder'
  <2>1. turn'[t].unit = u /\ turn'[t].unit \in {Answer, c[Len(Way)]}
    BY <1>4
  <2>2. \A i \in 1..Len(Way) : turn'[Way[i]].unit = turn[Way[i]].unit
    BY <1>8
  <2>3. PICK d : /\ Chain(turn', next, d, Append(Way, t))
                 /\ d[Len(Append(Way, t))] =
                      IF turn'[t].unit = c[Len(Way)] THEN c[Len(Way)] + 1 ELSE c[Len(Way)]
    <3> DEFINE w == Way
    <3>1. w \in Seq(Turns) /\ t \in Turns /\ Chain(turn, next, c, w)
      BY <1>1, <1>5
    <3>2. \A i \in 1..Len(w) : turn'[w[i]].unit = turn[w[i]].unit
      BY <2>2
    <3>3. turn'[t].unit \in {Answer, c[Len(w)]}
      BY <2>1
    <3> HIDE DEF w
    <3>4. \E d : /\ Chain(turn', next, d, Append(w, t))
                 /\ d[Len(Append(w, t))] =
                      IF turn'[t].unit = c[Len(w)] THEN c[Len(w)] + 1 ELSE c[Len(w)]
      BY <3>1, <3>2, <3>3, ChainGrows
    <3>5. QED
      BY <3>4 DEF w
  <2>4. fill'.unit = d[Len(Way')]
    <3>1. CASE answer
      BY <1>2, <1>6, <2>1, <2>3, <3>1 DEF Answer
    <3>2. CASE ~answer
      BY <1>2, <1>6, <2>1, <2>3, <3>2
    <3>3. QED
      BY <3>1, <3>2
  <2>5. QED
    BY <1>6, <2>3, <2>4 DEF InOrder
<1>13. HasATurn'
  BY DEF Steady, HasATurn
<1>14. QED
  BY <1>9, <1>10, <1>11, <1>12, <1>13 DEF Steady

\* A filling begins where the way ends.
LEMMA FillBegins ==
  ASSUME Depth <= 2, IInv, Typed, Steady, ~Filling, Fills, NEW who \in {"tick", "loop"},
         Decide(who, Missing, Projected, AnswerIsNext),
         who = "loop" => loop.at \in {"fill", "refill"},
         UNCHANGED <<next, ready, loop, preparing>>
  PROVE  Steady'
<1>1. PICK c : Chain(turn, next, c, Way)
  BY DEF Steady, InOrder
<1>2. Way \in Seq(Turns) /\ OnTheWay = Way
  BY WayTyped, ProjectionFollows DEF Fills
<1>3. Projected = c[Len(Way)]
  BY <1>1, <1>2, ProjectedIs
<1>4. Projected \in Nat \ {0} /\ AnswerIsNext \in BOOLEAN
  <2>1. Projected \in 1..(Units + 1)
    BY ProjectedTyped DEF Typed, QueuesTyped, TurnsTyped, Records, UnitsTyped, CursorTyped,
       LoopTyped, Places
  <2>2. Projected \in Nat \ {0}
    BY <2>1
  <2>3. AnswerIsNext \in BOOLEAN
    BY Zenon DEF AnswerIsNext, Typed, CursorTyped
  <2>4. QED
    BY <2>2, <2>3
<1>5. Used < MaxTurns /\ preparing' = ToSet(decided)
  BY DEF Fills, Decides, Steady, FillTidy
<1> HIDE DEF Projected, AnswerIsNext, Missing
<1>6. QED
  BY <1>1, <1>3, <1>4, <1>5, DecideStep

LEMMA LoopRests ==
  ASSUME Typed, loop.at \in {"fill", "refill"}
  PROVE  AfterFill.at \in {"wait", "next"} /\ AfterFill.turn = 0
  BY DEF Typed, LoopTyped, Places, AfterFill

LEMMA FillSteady ==
  ASSUME Depth <= 2, IInv, Typed, Steady, HasATurn', TickFill \/ LoopFill \/ Announced
  PROVE  Steady'
<1>1. CASE TickFill
  BY <1>1, FillBegins DEF TickFill, Filling
<1>2. CASE LoopFill
  <2>1. CASE fill.who = "nobody" /\ Fills /\ Decide("loop", Missing, Projected, AnswerIsNext)
             /\ UNCHANGED <<ready, preparing, loop>>
    BY <1>2, <2>1, FillBegins DEF LoopFill, Filling
  <2>2. CASE fill.who # "loop" /\ loop' = AfterFill /\ UNCHANGED <<queues, fill>>
    <3>1. loop'.at \in {"wait", "next"} /\ loop'.turn = 0 /\ loop.at \in {"fill", "refill"}
      BY <1>2, <2>2, LoopRests DEF LoopFill
    <3>2. Way' = Way
      BY <2>2, <3>1 DEF Way, Hands, queues
    <3>3. LoopTidy'
      BY <2>2, <3>1 DEF LoopTidy
    <3>4. QED
      BY <1>2, <2>2, <3>2, <3>3, StillStep DEF LoopFill, queues
  <2>3. QED
    BY <1>2, <2>1, <2>2 DEF LoopFill
<1>3. CASE Announced
  <2>1. PICK c : Chain(turn, next, c, Way) /\ (Filling => fill.unit = c[Len(Way)])
    BY DEF Steady, InOrder
  <2>2. /\ Filling /\ UNCHANGED <<next, ready>> /\ preparing' = ToSet(decided)
        /\ fill.asked = FALSE /\ fill.who \in {"tick", "loop"} /\ fill.unit \in Nat \ {0}
    BY <1>3 DEF Announced, Filling, Steady, FillTidy, Typed, FillTyped, Progress
  <2>3. CASE Decides(fill.unit, fill.asked) /\ UNCHANGED loop
             /\ Decide(fill.who, fill.left, fill.unit, fill.asked)
    <3>1. fill.who = "loop" => loop.at \in {"fill", "refill"}
      BY DEF Steady, LoopTidy
    <3>2. fill.asked \in BOOLEAN /\ fill.unit = c[Len(Way)]
      BY <2>1, <2>2
    <3>3. Used < MaxTurns
      BY <2>3 DEF Decides
    <3>4. QED
      BY <2>1, <2>2, <2>3, <3>1, <3>2, <3>3, DecideStep
  <2>4. CASE /\ fill' = NoFill /\ UNCHANGED <<turn, decided>>
             /\ loop' = IF fill.who = "loop" THEN AfterFill ELSE loop
    <3>1. ~Filling' /\ fill'.asked = FALSE /\ fill'.who = "nobody"
      BY <2>4 DEF NoFill, Filling
    <3>2. Way' = Way /\ LoopTidy'
      <4>1. CASE fill.who = "loop"
        <5>1. loop.at \in {"fill", "refill"} /\ loop'.at \in {"wait", "next"} /\ loop'.turn = 0
          BY <2>4, <4>1, LoopRests DEF Steady, LoopTidy
        <5>2. QED
          BY <2>2, <2>4, <3>1, <5>1 DEF Way, Hands, LoopTidy
      <4>2. CASE fill.who # "loop"
        BY <2>2, <2>4, <3>1, <4>2 DEF Way, Hands, LoopTidy, Steady
      <4>3. QED
        BY <4>1, <4>2
    <3>3. FillTidy'
      BY <2>2, <2>4, <3>1 DEF FillTidy
    <3>4. WayTidy' /\ InOrder'
      BY <2>1, <2>2, <2>4, <3>1, <3>2 DEF Steady, WayTidy, InOrder
    <3>5. QED
      BY <3>2, <3>3, <3>4 DEF Steady
  <2>5. QED
    BY <1>3, <2>3, <2>4 DEF Announced
<1>4. QED
  BY <1>1, <1>2, <1>3

(***************************************************************************)
(* Preparing and playing.                                                  *)
(***************************************************************************)
LEMMA PreparedSteady ==
  ASSUME Undisturbed, IInv, Typed, Steady, HasATurn', NEW t \in Turns, Prepare(t)
  PROVE  Steady'
<1>1. /\ Hands \in Seq(Turns) /\ ready \in Seq(Turns) /\ decided \in Seq(Turns)
      /\ Hands \o ready \in Seq(Turns) /\ Once(decided)
  BY WayTyped, OnWay DEF Steady, WayTidy
<1>2. ~PrepareRejected(t)
  BY NoDisturbance DEF PrepareRejected
<1>3. ~PrepareGone(t)
  <2>1. t \in preparing => t \in ToSet(decided)
    BY DEF Steady, FillTidy
  <2>2. ToSet(decided) = {decided[i] : i \in 1..Len(decided)}
    BY <1>1 DEF ToSet
  <2>3. QED
    BY <2>1, <2>2 DEF PrepareGone, Contains
<1>4. /\ t \in preparing /\ decided # << >> /\ Head(decided) = t /\ decided' = Tail(decided)
      /\ preparing' = preparing \ {t} /\ UNCHANGED <<turn, next, fill, loop>>
      /\ ready' = Append(ready, t)
  BY <1>2, <1>3, OneGeneration DEF Prepare, Prepared, IsFirst
<1>5. Way' = Way
  <2>1. Hands' = Hands
    BY <1>4 DEF Hands
  <2>2. Hands \o Append(ready, t) = Append(Hands \o ready, t)
    BY <1>1, ConcatAppend
  <2>3. Append(Hands \o ready, Head(decided)) \o Tail(decided) = (Hands \o ready) \o decided
    <3> DEFINE r == Hands \o ready
    <3>1. r \in Seq(Turns)
      BY <1>1
    <3> HIDE DEF r
    <3>2. Append(r, Head(decided)) \o Tail(decided) = r \o decided
      BY <1>1, <1>4, <3>1, Shift
    <3>3. QED
      BY <3>2 DEF r
  <2>4. QED
    BY <1>4, <2>1, <2>2, <2>3 DEF Way
<1>6. FillTidy'
  <2>1. /\ ToSet(decided) = ToSet(decided') \cup {t} /\ t \notin ToSet(decided')
    BY <1>1, <1>4, ToSetTail
  <2>2. ~(Filling /\ t = fill.turn)
    BY <1>4 DEF Steady, FillTidy
  <2>3. preparing' = {x \in ToSet(decided') : ~(Filling /\ x = fill.turn)}
    BY <1>4, <2>1 DEF Steady, FillTidy
  <2>4. Filling => fill.turn \in ToSet(decided')
    BY <2>1, <2>2 DEF Steady, FillTidy
  <2>5. QED
    BY <1>4, <2>3, <2>4 DEF FillTidy, Filling, Steady
<1>7. WayTidy' /\ InOrder' /\ LoopTidy'
  BY <1>4, <1>5 DEF Steady, WayTidy, InOrder, LoopTidy, Filling
<1>8. QED
  BY <1>6, <1>7 DEF Steady

\* Where the loop only waits, looks or comes back.
LEMMA WaitSteady ==
  ASSUME Steady, HasATurn', Wake \/ Rest \/ Wait \/ Pause \/ Finish
  PROVE  Steady'
<1>1. /\ UNCHANGED <<next, turn, decided, ready, preparing, fill>>
      /\ loop.at \in {"wait", "next", "pause", "finishing"}
      /\ loop'.at \in {"wait", "next", "boundary", "fill"} /\ loop'.turn = 0
  BY DEF Wake, Rest, Wait, Pause, Finish, At, queues
<1>2. Way' = Way
  BY <1>1 DEF Way, Hands
<1>3. LoopTidy'
  BY <1>1 DEF Steady, LoopTidy
<1>4. QED
  BY <1>1, <1>2, <1>3, StillStep

\* The head of the queue comes into the loop's hands.
LEMMA TakeSteady ==
  ASSUME Undisturbed, IInv, Typed, Steady, HasATurn', Take
  PROVE  Steady'
<1> DEFINE t == Head(ready)
<1>1. ready \in Seq(Turns) /\ ready # << >> /\ t \in Turns
  BY WayTyped DEF Take
<1>2. /\ UNCHANGED <<next, turn, decided, preparing, fill>> /\ ready' = Tail(ready)
      /\ loop' = [at |-> "revalidate", turn |-> t]
      /\ loop.at \in {"boundary", "next"} /\ fill.who = "nobody"
  BY <1>1, OneGeneration DEF Take, AtBoundary, At
<1>3. Way' = Way
  <2>1. <<t>> \o Tail(ready) = ready /\ << >> \o ready = ready
    BY <1>1, Rejoin, ConcatEmptySeq
  <2>2. Hands = << >> /\ Hands' = <<t>>
    BY <1>2 DEF Hands
  <2>3. QED
    BY <1>2, <2>1, <2>2 DEF Way
<1>4. LoopTidy'
  BY <1>2 DEF LoopTidy
<1>5. QED
  BY <1>2, <1>3, <1>4, StillStep

\* What is prepared behind the boundary is dropped.
LEMMA RefreshSteady ==
  ASSUME IInv, Typed, Steady, HasATurn', Refresh
  PROVE  Steady'
<1>1. /\ decided' = << >> /\ ready' = << >> /\ preparing' = {} /\ UNCHANGED <<next, fill>>
      /\ loop' = [at |-> "refill", turn |-> 0] /\ fill.who = "nobody"
  BY DEF Refresh, Invalidate, At, AtBoundary
<1>2. Way' = << >>
  <2>1. << >> \in Seq(Turns)
    OBVIOUS
  <2>2. << >> \o << >> = << >>
    BY <2>1, ConcatEmptySeq
  <2>3. Hands' = << >>
    BY <1>1 DEF Hands
  <2>4. QED
    BY <1>1, <2>2, <2>3 DEF Way
<1>3. Len(Way') = 0 /\ ToSet(decided') = {}
  BY <1>1, <1>2 DEF ToSet
<1>4. WayTidy'
  BY <1>3 DEF WayTidy, Once
<1>5. LoopTidy'
  BY <1>1 DEF LoopTidy
<1>6. FillTidy'
  BY <1>1, <1>3 DEF FillTidy, Filling, Steady
<1>7. InOrder'
  <2>1. Chain(turn', next', [i \in 0..0 |-> next'], << >>)
    BY DEF Chain
  <2>2. ~Filling'
    BY <1>1 DEF Filling
  <2>3. QED
    BY <1>2, <2>1, <2>2 DEF InOrder
<1>8. QED
  BY <1>4, <1>5, <1>6, <1>7 DEF Steady

\* The turn starts, or goes back to the head of the queue.
LEMMA RevalidatedSteady ==
  ASSUME Undisturbed, IInv, Typed, Steady, HasATurn', Revalidated
  PROVE  Steady'
<1> DEFINE t == loop.turn
<1>1. t \in Turns /\ Live(t) /\ ~Failure
  BY HeldIsLive, NoDisturbance DEF Revalidated
<1>2. /\ loop.at = "revalidate" /\ UNCHANGED <<next, fill>>
      /\ \/ PutBack(t)
         \/ At("speak", t) /\ UNCHANGED queues
  BY <1>1 DEF Revalidated
<1>3. CASE PutBack(t)
  <2>1. /\ ready' = <<t>> \o ready /\ loop' = [at |-> "pause", turn |-> 0]
        /\ UNCHANGED <<turn, decided, preparing>>
    BY <1>3 DEF PutBack, At
  <2>2. Way' = Way
    <3>1. Hands = <<t>> /\ Hands' = << >>
      BY <1>2, <2>1 DEF Hands
    <3>2. <<t>> \o ready \in Seq(Turns)
      BY <1>1, WayTyped
    <3>3. << >> \o (<<t>> \o ready) = <<t>> \o ready
      BY <3>2, ConcatEmptySeq
    <3>4. QED
      BY <2>1, <3>1, <3>3 DEF Way
  <2>3. LoopTidy'
    BY <1>2, <2>1 DEF LoopTidy, Steady
  <2>4. QED
    BY <1>2, <2>1, <2>2, <2>3, StillStep
<1>4. CASE At("speak", t) /\ UNCHANGED queues
  <2>1. loop' = [at |-> "speak", turn |-> t]
    BY <1>4 DEF At
  <2>2. Way' = Way
    BY <1>2, <1>4, <2>1 DEF Way, Hands, queues
  <2>3. LoopTidy'
    BY <1>2, <2>1 DEF LoopTidy, Steady
  <2>4. QED
    BY <1>2, <1>4, <2>2, <2>3, StillStep DEF queues
<1>5. QED
  BY <1>2, <1>3, <1>4

\* The first one leaves the way, and the cursor follows.
LEMMA PlayedSteady ==
  ASSUME Undisturbed, IInv, Typed, Steady, HasATurn', Played
  PROVE  Steady'
<1> DEFINE t == loop.turn
<1>1. t \in Turns /\ Hands = <<t>> /\ loop.at = "speak" /\ turn[t].outcome = "open"
  BY HeldIsLive DEF Played, Hands, IsOpen
<1>2. /\ turn' = Ended(turn, {t}, "played") /\ next' = AfterUnit(next, t)
      /\ loop' = [at |-> "finishing", turn |-> t]
      /\ UNCHANGED <<decided, ready, preparing, fill>>
  BY DEF Played, MarkSpoken, At
<1>3. /\ \A x \in Turns : turn'[x].unit = turn[x].unit
      /\ \A x \in Turns : turn'[x].outcome = IF x = t THEN "played" ELSE turn[x].outcome
  <2>1. /\ \A x \in Turns : Moves(x)
        /\ \A x \in Turns : turn'[x].outcome =
             IF x \in {t} /\ turn[x].outcome = "open" THEN "played" ELSE turn[x].outcome
    BY <1>2, Ending DEF IInv, Ends
  <2>2. QED
    BY <1>1, <2>1 DEF Moves
<1>4. /\ Way \in Seq(Turns) /\ ready \in Seq(Turns) /\ decided \in Seq(Turns)
      /\ Way = (<<t>> \o ready) \o decided
  BY <1>1, WayTyped DEF Way
<1>5. Way' = Tail(Way)
  <2>1. Hands' = << >>
    BY <1>2 DEF Hands
  <2>2. << >> \o ready = ready
    BY <1>4, ConcatEmptySeq
  <2>3. Tail((<<t>> \o ready) \o decided) = ready \o decided
    BY <1>1, <1>4, TailOfWay
  <2>4. QED
    BY <1>2, <1>4, <2>1, <2>2, <2>3 DEF Way
<1>6. 1 \in 1..Len(Way) /\ Way[1] = t /\ Way # << >>
  <2>1. <<t>> \in Seq(Turns) /\ Len(<<t>>) = 1 /\ <<t>>[1] = t
    BY <1>1
  <2>2. <<t>> \o ready \in Seq(Turns) /\ Len(<<t>> \o ready) = 1 + Len(ready)
        /\ (<<t>> \o ready)[1] = t
    BY <1>4, <2>1, ConcatProperties
  <2>3. Len(Way) = (1 + Len(ready)) + Len(decided) /\ Way[1] = t
    BY <1>4, <2>2, ConcatProperties
  <2>4. Len(ready) \in Nat /\ Len(decided) \in Nat
    BY <1>4
  <2>5. QED
    BY <1>4, <2>3, <2>4
<1> DEFINE n == Len(Way)
<1>7. /\ n \in Nat \ {0} /\ Len(Way') = n - 1
      /\ \A i \in 1..(n - 1) : Way'[i] = Way[i + 1]
      /\ \A i \in 1..n : Way[i] \in Turns
  BY <1>4, <1>5, <1>6, HeadTailProperties
<1>8. WayTidy'
  <2>1. \A i \in 1..(n - 1) : i + 1 \in 1..n /\ i + 1 # 1
    BY <1>7
  <2>2. Once(Way) /\ \A i \in 1..n : turn[Way[i]].outcome = "open"
    BY DEF Steady, WayTidy
  <2>3. ASSUME NEW i \in 1..(n - 1), NEW j \in 1..(n - 1), Way'[i] = Way'[j] PROVE i = j
    <3>1. Way[i + 1] = Way[j + 1]
      BY <1>7, <2>3
    <3>2. i + 1 = j + 1
      BY <2>1, <2>2, <3>1 DEF Once
    <3>3. QED
      BY <3>2
  <2>4. ASSUME NEW i \in 1..(n - 1) PROVE turn'[Way'[i]].outcome = "open"
    <3>1. Way'[i] = Way[i + 1] /\ Way[i + 1] \in Turns /\ turn[Way[i + 1]].outcome = "open"
      BY <1>7, <2>1, <2>2
    <3>2. Way[i + 1] # t
      BY <1>6, <2>1, <2>2 DEF Once
    <3>3. QED
      BY <1>3, <3>1, <3>2
  <2>5. QED
    BY <1>7, <2>3, <2>4 DEF WayTidy, Once
<1>9. LoopTidy'
  BY <1>1, <1>2, <1>3 DEF LoopTidy, Steady, Ends
<1>10. FillTidy'
  BY <1>2 DEF FillTidy, Filling, Steady
<1>11. InOrder'
  <2>1. PICK c : Chain(turn, next, c, Way) /\ (Filling => fill.unit = c[n])
    BY DEF Steady, InOrder
  <2>2. next' = c[1]
    <3>1. c[1] = IF turn[Way[1]].unit = c[1 - 1] THEN c[1 - 1] + 1 ELSE c[1 - 1]
      BY <1>6, <2>1 DEF Chain
    <3>2. 1 - 1 = 0 /\ c[0] = next
      BY <2>1 DEF Chain
    <3>3. QED
      BY <1>2, <1>6, <3>1, <3>2 DEF AfterUnit
  <2>3. \A i \in 1..n : turn'[Way[i]].unit = turn[Way[i]].unit
    BY <1>3, <1>7
  <2>4. \E d : Chain(turn', c[1], d, Tail(Way)) /\ d[Len(Tail(Way))] = c[n]
    <3> DEFINE w == Way
    <3>1. w \in Seq(Turns) /\ w # << >> /\ Chain(turn, next, c, w)
          /\ \A i \in 1..Len(w) : turn'[w[i]].unit = turn[w[i]].unit
      BY <1>4, <1>6, <2>1, <2>3
    <3> HIDE DEF w
    <3>2. \E d : Chain(turn', c[1], d, Tail(w)) /\ d[Len(Tail(w))] = c[Len(w)]
      BY <3>1, ChainShrinks
    <3>3. QED
      BY <3>2 DEF w
  <2>5. QED
    BY <1>2, <1>5, <2>1, <2>2, <2>4 DEF InOrder, Filling
<1>12. QED
  BY <1>8, <1>9, <1>10, <1>11 DEF Steady

LEMMA ControlSteady ==
  ASSUME Steady, HasATurn', Hold \/ Resume \/ Lift \/ Say \/ SayEnds \/ Ask \/ UNCHANGED vars
  PROVE  Steady'
<1>1. UNCHANGED <<next, turn, decided, ready, preparing, fill, loop>>
  BY DEF Hold, Resume, Lift, Say, SayEnds, Ask, queues, vars
<1>2. Way' = Way /\ LoopTidy'
  BY <1>1 DEF Way, Hands, LoopTidy, Steady
<1>3. QED
  BY <1>1, <1>2, StillStep

LEMMA SteadyInit == Init => Steady
<1> SUFFICES ASSUME Init PROVE Steady
  OBVIOUS
<1> USE DEF Init
<1>1. decided = << >> /\ ready = << >> /\ Hands = << >> /\ fill.who = "nobody"
  BY DEF Hands, NoFill
<1>2. Way = << >>
  <2>1. << >> \in Seq(Turns)
    OBVIOUS
  <2>2. << >> \o << >> = << >>
    BY <2>1, ConcatEmptySeq
  <2>3. QED
    BY <1>1, <2>2 DEF Way
<1>3. Len(Way) = 0 /\ ToSet(decided) = {}
  BY <1>1, <1>2 DEF ToSet
<1>4. HasATurn /\ LoopTidy
  BY <1>1 DEF HasATurn, LoopTidy
<1>5. WayTidy /\ FillTidy
  BY <1>1, <1>3 DEF WayTidy, Once, FillTidy, Filling, NoFill
<1>6. InOrder
  <2>1. Chain(turn, next, [i \in 0..0 |-> next], << >>)
    BY DEF Chain
  <2>2. QED
    BY <1>1, <1>2, <2>1 DEF InOrder, Filling
<1>7. QED
  BY <1>4, <1>5, <1>6 DEF Steady

LEMMA SteadyStep ==
  ASSUME Undisturbed, Depth <= 2, IInv, Typed, Steady, [Next]_vars
  PROVE  Steady'
<1>1. HasATurn' /\ ~Failure /\ ~Interrupt /\ ~Revise
  BY HasATurnStep, NoDisturbance DEF Steady
<1>2. CASE Loop
  <2>1. ~Die
    BY DEF Die, AtBoundary, Steady, HasATurn
  <2>2. ~Skip /\ ~CutOff /\ ~SpeechFails /\ ~FailureNoted
    BY <1>1, HeldIsLive DEF Skip, CutOff, SpeechFails, FailureNoted, Steady, LoopTidy
  <2>3. QED
    BY <1>1, <1>2, <2>1, <2>2, FillSteady, WaitSteady, TakeSteady, RefreshSteady,
       RevalidatedSteady, PlayedSteady DEF Loop
<1>3. CASE TickFill \/ Announced
  BY <1>1, <1>3, FillSteady
<1>4. ASSUME NEW t \in Turns, Prepare(t) PROVE Steady'
  BY <1>1, <1>4, PreparedSteady
<1>5. CASE Hold \/ Resume \/ Lift \/ Say \/ SayEnds \/ Ask \/ UNCHANGED vars
  BY <1>1, <1>5, ControlSteady
<1>6. QED
  BY <1>1, <1>2, <1>3, <1>4, <1>5 DEF Next

\* Only the loop that looked at its turn again starts it, and it is the first on the way.
LEMMA StartsInOrder ==
  ASSUME IInv, Typed, Steady, [Next]_vars, ~Speaking, Speaking'
  PROVE  turn[loop.turn].unit # Answer => turn[loop.turn].unit = next
<1>1. loop.at = "revalidate"
  <2>1. loop.at \notin {"speak", "failing", "finishing"}
        /\ loop'.at \in {"speak", "failing", "finishing"}
    BY DEF Speaking
  <2>2. CASE Loop
    <3>1. AfterFill.at \notin {"speak", "failing", "finishing"}
      BY <2>1 DEF Typed, LoopTyped, Places, AfterFill
    <3>2. QED
      BY <2>1, <2>2, <3>1 DEF Loop, LoopFill, Wake, Rest, Wait, Refresh, Take, Die, Revalidated,
         Pause, Played, Finish, Skip, CutOff, SpeechFails, FailureNoted, At
  <2>3. CASE ~Loop
    <3>1. loop' = loop \/ loop' = AfterFill
      BY <2>3 DEF Next, TickFill, Announced, Prepare, PrepareGone, Prepared, PrepareRejected,
         Interrupt, Revise, Hold, Resume, Lift, Say, SayEnds, Ask, vars
    <3>2. AfterFill.at \notin {"speak", "failing", "finishing"}
      BY <2>1 DEF Typed, LoopTyped, Places, AfterFill
    <3>3. QED
      BY <2>1, <3>1, <3>2
  <2>4. QED
    BY <2>2, <2>3
<1>2. loop.turn \in Turns /\ Hands = <<loop.turn>>
  BY <1>1 DEF IInv, Shapes, LoopShape, Hands
<1>3. 1 \in 1..Len(Way) /\ Way[1] = loop.turn
  <2> DEFINE t == loop.turn
  <2>1. /\ <<t>> \in Seq(Turns) /\ Len(<<t>>) = 1 /\ <<t>>[1] = t
        /\ ready \in Seq(Turns) /\ decided \in Seq(Turns)
    BY <1>2, WayTyped
  <2>2. /\ <<t>> \o ready \in Seq(Turns) /\ Len(<<t>> \o ready) = 1 + Len(ready)
        /\ (<<t>> \o ready)[1] = t
    BY <2>1, ConcatProperties
  <2>3. Len(Way) = (1 + Len(ready)) + Len(decided) /\ Way[1] = t
    BY <1>2, <2>1, <2>2, ConcatProperties DEF Way
  <2>4. Len(ready) \in Nat /\ Len(decided) \in Nat
    BY <2>1
  <2>5. QED
    BY <2>3, <2>4
<1>4. PICK c : Chain(turn, next, c, Way)
  BY DEF Steady, InOrder
<1>5. turn[Way[1]].unit \in {Answer, c[1 - 1]} /\ 1 - 1 = 0 /\ c[0] = next
  BY <1>3, <1>4 DEF Chain
<1>6. QED
  BY <1>3, <1>5

\* In an undisturbed session whose queues hold two turns at most every unit starts when it
\* is the next one, whatever is asked, held or said in between.
THEOREM UndisturbedUnitsInOrder ==
  ASSUME Undisturbed, Depth <= 2
  PROVE  Spec => UnitsInOrder
<1>1. Init => Typed /\ Steady
  BY TypedInit, SteadyInit
<1>2. IInv /\ Typed /\ Steady /\ [Next]_vars => Typed' /\ Steady'
  BY TypedStep, SteadyStep
<1>3. IInv /\ Typed /\ Steady /\ [Next]_vars =>
        [~Speaking /\ Speaking' /\ turn[loop.turn].unit # Answer
           => turn[loop.turn].unit = next]_vars
  BY StartsInOrder
<1>4. QED
  BY <1>1, <1>2, <1>3, Invariance, PTL DEF Spec, UnitsInOrder
===============================================================================
