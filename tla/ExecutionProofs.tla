---------------------------- MODULE ExecutionProofs ----------------------------
(***************************************************************************)
(* Proofs about Execution, for any number of commands, request tasks,      *)
(* reports, faults and lost leases.                                        *)
(*                                                                         *)
(* The argument: while a task has the lock nobody else writes the session, *)
(* so what it is going to write was decided on the session that is stored  *)
(* (Based).  Every write that lands is therefore a step of the lifecycle,  *)
(* and the write that decides a command finds it undecided: one task at    *)
(* most is about to give a command its effect (EffectsOnce).  A task that  *)
(* lost the lock may still act on the speech, and what it may do there     *)
(* rests on facts that no later write takes back (FaultStored,             *)
(* OpenedFirst).                                                           *)
(*                                                                         *)
(* Until the first failed write, restart or lost lease the fence is up     *)
(* before a hold is stored, and what comes down with a resume's effect is  *)
(* the fence of a session that is stored as not held (HeldFence).          *)
(***************************************************************************)
EXTENDS Execution, TLAPS

\* What a task that has the lock is about to write, or has just written.
BasedAt(t) ==
  /\ pc[t] = "promoting" => session.phase \notin Terminal /\ write[t] = Failed(session)
  /\ pc[t] \in {"staging", "saving"} =>
       \/ /\ job[t] \in Commands /\ ~Answered(session, job[t])
          /\ write[t] = Chosen(session, job[t])
       \/ /\ job[t] = "report"
          /\ \E r \in Reports :
               /\ Accepts(session, r.kind, r.phase, r.seq)
               /\ r.kind = "first_ai_broadcast" => aired
               /\ write[t] = Apply(session, r.kind, r.phase, r.seq, r.healthy)
       \/ job[t] = "closing" /\ session.phase = "closing" /\ write[t] = Closed(session)
       \/ job[t] = "record" /\ session.phase \notin Terminal /\ write[t] = Failed(session)
  /\ pc[t] = "applying" =>
       /\ session.outcome[job[t]] = "accepted" /\ write[t] = Decided(session, job[t], "applied")
  /\ pc[t] \in {"promoted", "saved"} => session = write[t]

Based == \A t \in Tasks : lock = t => BasedAt(t)

JobsFit ==
  \A t \in Tasks :
    /\ pc[t] \in {"promoting", "promoted", "applying"} => job[t] \in Commands
    /\ t = Recorder /\ pc[t] # "idle" => job[t] = "record"

\* What the session written for a command says of it.
CommandFits(state, c) ==
  /\ CommandOf[c] = "start" => state.outcome[c] = "accepted"
  /\ state.outcome[c] = "applied" =>
       /\ CommandOf[c] \in {"hold", "resume"} => state.phase \in {"warming", "selling"}
       /\ CommandOf[c] = "end" => state.phase = "closing"
       /\ CommandOf[c] = "emergency_end" => state.phase = "ending"

WritesFit ==
  \A t \in Tasks :
    /\ pc[t] = "promoting" => write[t].phase = "failed"
    /\ pc[t] \in {"staging", "saving", "saved"} =>
         /\ job[t] = "record" => write[t].phase = "failed"
         /\ job[t] \in Commands => CommandFits(write[t], job[t])

Taken == {"accepted", "applied"}

\* The task is about to give the command its effect.
InEffect(t, c) == pc[t] = "saved" /\ job[t] = c /\ write[t].outcome[c] \in Taken

EffectsOnce ==
  \A c \in Commands :
    /\ effects[c] \in {0, 1}
    /\ effects[c] = 1 => session.outcome[c] \in Taken
    /\ \A t \in Tasks : InEffect(t, c) => effects[c] = 0 /\ session.outcome[c] \in Taken
    /\ \A t, u \in Tasks : InEffect(t, c) /\ InEffect(u, c) => t = u

FaultStored ==
  \A t \in Tasks :
    pc[t] = "promoted" \/ (pc[t] = "saved" /\ job[t] = "record") => session.phase \in Terminal

Opened == \E c \in Commands : CommandOf[c] = "start" /\ effects[c] = 1

OpenedFirst ==
  /\ aired \/ activated \/ session.live => Opened
  /\ \A t \in Tasks : write[t].live => Opened

Late == {"closing", "ending", "ended", "failed"}

\* As long as no lease was lost.
Silence ==
  losses = 0 =>
    /\ \A t \in Tasks : pc[t] # "idle" => lock = t
    /\ silenced => fence # "none" /\ session.phase \in Late

IInv ==
  /\ TypeOK /\ Based /\ JobsFit /\ WritesFit /\ EffectsOnce /\ FaultStored
  /\ OpenedFirst /\ Silence

(***************************************************************************)
(* The phases.                                                             *)
(***************************************************************************)
LEMMA PhasesMove ==
  /\ \A p \in Phases : NextPhases[p] \subseteq Phases
  /\ \A p \in Terminal : NextPhases[p] = {}
  /\ \A p \in Phases \ Terminal : "failed" \in NextPhases[p]
  /\ \A p \in Late : NextPhases[p] \subseteq Late
  /\ \A p \in {"warming", "selling"} : "closing" \in NextPhases[p] /\ "ending" \in NextPhases[p]
  /\ "ending" \in NextPhases["closing"]
BY DEF NextPhases, Phases, Terminal, Late

\* One session follows another as the lifecycle allows.
Moves(from, to) ==
  /\ to.phase = from.phase \/ (to.phase \in NextPhases[from.phase] /\ to.seq > from.seq)
  /\ to.seq >= from.seq
  /\ \A c \in Commands :
       \/ from.outcome[c] \in {"none", to.outcome[c]}
       \/ from.outcome[c] = "accepted" /\ to.outcome[c] = "applied"

(***************************************************************************)
(* What each kind of task writes.                                          *)
(***************************************************************************)
LEMMA DecidedFacts ==
  ASSUME NEW s \in Session, NEW c \in Commands, NEW o \in Outcomes
  PROVE  /\ Decided(s, c, o) \in Session
         /\ Decided(s, c, o).outcome = [s.outcome EXCEPT ![c] = o]
         /\ Decided(s, c, o).phase = s.phase /\ Decided(s, c, o).seq = s.seq
         /\ Decided(s, c, o).live = s.live
BY DEF Session, Decided

LEMMA FailedFacts ==
  ASSUME NEW s \in Session, s.phase \notin Terminal
  PROVE  /\ Failed(s) \in Session /\ Failed(s).phase = "failed" /\ Failed(s).live = s.live
         /\ Failed(s).outcome = s.outcome /\ Moves(s, Failed(s))
<1>1. Failed(s) \in Session
  <2>1. s.seq + 1 \in Nat /\ "failed" \in Phases
    BY DEF Session, Phases
  <2>2. QED
    BY <2>1 DEF Session, Failed
<1>2. /\ Failed(s).phase = "failed" /\ Failed(s).live = s.live
      /\ Failed(s).outcome = s.outcome /\ Failed(s).seq = s.seq + 1
  BY DEF Session, Failed
<1>3. s.phase \in Phases \ Terminal /\ s.seq \in Nat
  BY DEF Session
<1>4. QED
  BY <1>1, <1>2, <1>3, PhasesMove DEF Moves

LEMMA ClosedFacts ==
  ASSUME NEW s \in Session, s.phase = "closing"
  PROVE  /\ Closed(s) \in Session /\ Closed(s).live = s.live
         /\ Closed(s).outcome = s.outcome /\ Moves(s, Closed(s))
<1>1. Closed(s) \in Session
  <2>1. s.seq + 1 \in Nat /\ "ending" \in Phases
    BY DEF Session, Phases
  <2>2. QED
    BY <2>1 DEF Session, Closed
<1>2. /\ Closed(s).phase = "ending" /\ Closed(s).live = s.live
      /\ Closed(s).outcome = s.outcome /\ Closed(s).seq = s.seq + 1
  BY DEF Session, Closed
<1>3. s.seq \in Nat
  BY DEF Session
<1>4. QED
  BY <1>1, <1>2, <1>3, PhasesMove DEF Moves

LEMMA AppliedFacts ==
  ASSUME NEW s \in Session, NEW r \in Reports, Accepts(s, r.kind, r.phase, r.seq)
  PROVE  LET n == Apply(s, r.kind, r.phase, r.seq, r.healthy)
         IN  /\ n \in Session /\ n.outcome = s.outcome /\ Moves(s, n)
             /\ n.live => s.live \/ r.kind = "first_ai_broadcast"
<1> DEFINE n == Apply(s, r.kind, r.phase, r.seq, r.healthy)
<1>1. r.kind \in Kinds /\ r.phase \in Phases /\ r.seq \in Nat /\ r.healthy \in BOOLEAN
  BY ConstantsAssumption
<1>2. n \in Session
  BY <1>1 DEF Session, Apply
<1>3. n.outcome = s.outcome /\ n.phase = r.phase /\ n.seq = r.seq
  BY DEF Session, Apply
<1>4. n.live => s.live \/ r.kind = "first_ai_broadcast"
  BY DEF Session, Apply
<1>5. r.seq > s.seq /\ (r.phase # s.phase => r.phase \in NextPhases[s.phase])
  BY DEF Accepts
<1>6. s.seq \in Nat
  BY DEF Session
<1>7. Moves(s, n)
  BY <1>1, <1>3, <1>5, <1>6 DEF Moves
<1>8. QED
  BY <1>2, <1>3, <1>4, <1>7

LEMMA RescueFacts ==
  ASSUME NEW s \in Session, NEW k \in Rescues, RescueFits(s, k)
  PROVE  LET n == ApplyRescue(s, k)
         IN  /\ n \in Session /\ n.outcome = s.outcome /\ n.live = s.live /\ n.seq = s.seq + 1
             /\ n.phase = s.phase \/ n.phase \in NextPhases[s.phase]
             /\ k \in {"hold", "resume"} => n.phase \in {"warming", "selling"}
             /\ k = "end" => n.phase = "closing"
             /\ k = "emergency_end" => n.phase = "ending"
<1> DEFINE n == ApplyRescue(s, k)
<1>1. n \in Session
  <2>1. s.seq + 1 \in Nat /\ {"closing", "ending"} \subseteq Phases /\ s.phase \in Phases
    BY DEF Session, Phases
  <2>2. QED
    BY <2>1 DEF Session, ApplyRescue
<1>2. n.outcome = s.outcome /\ n.live = s.live /\ n.seq = s.seq + 1
  BY DEF Session, ApplyRescue
<1>3. n.phase = IF k = "end" THEN "closing" ELSE IF k = "emergency_end" THEN "ending" ELSE s.phase
  BY DEF Session, ApplyRescue
<1>4. /\ k \in {"hold", "resume", "end"} => s.phase \in {"warming", "selling"}
      /\ k = "emergency_end" => s.phase \in {"warming", "selling", "closing"}
  BY DEF RescueFits, RescuePhases, Rescues
<1>5. QED
  BY <1>1, <1>2, <1>3, <1>4, PhasesMove

\* A command that is not answered is undecided, and its decision is one move.
LEMMA ChosenFacts ==
  ASSUME NEW s \in Session, NEW c \in Commands, ~Answered(s, c)
  PROVE  LET n == Chosen(s, c)
         IN  /\ n \in Session /\ n.live = s.live /\ Moves(s, n)
             /\ s.outcome[c] = "none" /\ CommandFits(n, c)
             /\ \A d \in Commands \ {c} : n.outcome[d] = s.outcome[d]
<1> DEFINE n == Chosen(s, c)
<1>1. s.outcome[c] = "none" /\ s.seq \in Nat /\ s.outcome \in [Commands -> Outcomes]
  BY DEF Answered, Session
<1>2. CASE CommandOf[c] = "start"
  <2>1. Decided(s, c, "accepted") \in Session
    BY DecidedFacts DEF Outcomes
  <2>2. n = [Decided(s, c, "accepted") EXCEPT !.start = TRUE]
    BY <1>2 DEF Chosen, Started
  <2>3. n \in Session
    BY <2>1, <2>2 DEF Session
  <2>4. /\ n.outcome = [s.outcome EXCEPT ![c] = "accepted"]
        /\ n.phase = s.phase /\ n.seq = s.seq /\ n.live = s.live
    <3>1. "accepted" \in Outcomes
      BY DEF Outcomes
    <3>2. /\ n.outcome = Decided(s, c, "accepted").outcome
          /\ n.phase = Decided(s, c, "accepted").phase
          /\ n.seq = Decided(s, c, "accepted").seq /\ n.live = Decided(s, c, "accepted").live
      BY <2>1, <2>2 DEF Session
    <3>3. QED
      BY <3>1, <3>2, DecidedFacts
  <2>5. QED
    BY <1>1, <1>2, <2>3, <2>4 DEF Moves, CommandFits
<1>3. CASE CommandOf[c] # "start" /\ Applicable(s, c)
  <2>1. CommandOf[c] \in Rescues /\ RescueFits(s, CommandOf[c])
    BY <1>3, ConstantsAssumption DEF Applicable
  <2> DEFINE m == ApplyRescue(s, CommandOf[c])
  <2>2. n = Decided(m, c, "applied")
    BY <1>3 DEF Chosen, Rescued
  <2>3. /\ m \in Session /\ m.outcome = s.outcome /\ m.live = s.live /\ m.seq = s.seq + 1
        /\ m.phase = s.phase \/ m.phase \in NextPhases[s.phase]
        /\ CommandOf[c] \in {"hold", "resume"} => m.phase \in {"warming", "selling"}
        /\ CommandOf[c] = "end" => m.phase = "closing"
        /\ CommandOf[c] = "emergency_end" => m.phase = "ending"
    BY <2>1, RescueFacts
  <2>4. /\ n \in Session /\ n.outcome = [s.outcome EXCEPT ![c] = "applied"]
        /\ n.phase = m.phase /\ n.seq = s.seq + 1 /\ n.live = s.live
    <3>1. "applied" \in Outcomes
      BY DEF Outcomes
    <3> HIDE DEF m
    <3>2. QED
      BY <2>2, <2>3, <3>1, DecidedFacts
  <2>5. QED
    BY <1>1, <1>3, <2>3, <2>4 DEF Moves, CommandFits
<1>4. CASE CommandOf[c] # "start" /\ ~Applicable(s, c)
  <2>1. n = Decided(s, c, "rejected")
    BY <1>4 DEF Chosen, Rescued
  <2>2. /\ n \in Session /\ n.outcome = [s.outcome EXCEPT ![c] = "rejected"]
        /\ n.phase = s.phase /\ n.seq = s.seq /\ n.live = s.live
    <3>1. "rejected" \in Outcomes
      BY DEF Outcomes
    <3>2. QED
      BY <2>1, <3>1, DecidedFacts
  <2>3. QED
    BY <1>1, <1>4, <2>2 DEF Moves, CommandFits
<1>5. QED
  BY <1>2, <1>3, <1>4

(***************************************************************************)
(* A write that lands is a move.                                           *)
(***************************************************************************)
LEMMA WritesMove ==
  ASSUME IInv, NEW t \in Tasks, lock = t, pc[t] \in DOMAIN Stored
  PROVE  Moves(session, write[t])
<1>1. BasedAt(t) /\ session \in Session
  BY DEF IInv, Based, TypeOK
<1>2. CASE pc[t] = "promoting"
  BY <1>1, <1>2, FailedFacts DEF BasedAt
<1>3. CASE pc[t] = "saving"
  BY <1>1, <1>3, ChosenFacts, AppliedFacts, ClosedFacts, FailedFacts DEF BasedAt
<1>4. CASE pc[t] = "applying"
  <2>1. job[t] \in Commands /\ session.outcome[job[t]] = "accepted"
    BY <1>1, <1>4 DEF IInv, JobsFit, BasedAt
  <2>2. write[t] = Decided(session, job[t], "applied")
    BY <1>1, <1>4 DEF BasedAt
  <2>3. /\ write[t].outcome = [session.outcome EXCEPT ![job[t]] = "applied"]
        /\ write[t].phase = session.phase /\ write[t].seq = session.seq
    <3>1. "applied" \in Outcomes
      BY DEF Outcomes
    <3>2. QED
      BY <1>1, <2>1, <2>2, <3>1, DecidedFacts
  <2>4. session.seq \in Nat /\ session.outcome \in [Commands -> Outcomes]
    BY <1>1 DEF Session
  <2>5. QED
    BY <2>1, <2>3, <2>4 DEF Moves
<1>5. QED
  BY <1>2, <1>3, <1>4 DEF Stored

(***************************************************************************)
(* The initial states.                                                     *)
(***************************************************************************)
LEMMA NewFacts ==
  /\ NewSession \in Session /\ ~NewSession.live /\ NewSession.phase = "preparing"
  /\ NewSession.seq = 0 /\ NewSession.outcome = [c \in Commands |-> "none"]
<1>1. [c \in Commands |-> "none"] \in [Commands -> Outcomes]
  BY DEF Outcomes
<1>2. QED
  BY <1>1 DEF NewSession, Session, Phases

LEMMA InvInit == Init => IInv
<1> SUFFICES ASSUME Init PROVE IInv
  OBVIOUS
<1> USE ConstantsAssumption DEF Init
<1>1. TypeOK
  <2>1. pc \in [Tasks -> PC] /\ job \in [Tasks -> Jobs] /\ write \in [Tasks -> Session]
    BY NewFacts DEF PC, Jobs
  <2>2. prior \in [Tasks -> {"none", "held", "closing", "ending"}] /\ effects \in [Commands -> Nat]
    OBVIOUS
  <2>3. closing \in 0..ClosingAttempts /\ faults \in 0..MaxFaults /\ losses \in 0..MaxLosses
    OBVIOUS
  <2>4. QED
    BY <2>1, <2>2, <2>3, NewFacts DEF TypeOK
<1>2. \A t \in Tasks : pc[t] = "idle" /\ ~write[t].live
  BY NewFacts
<1>3. Based /\ JobsFit /\ WritesFit /\ FaultStored
  BY <1>2 DEF Based, BasedAt, JobsFit, WritesFit, FaultStored
<1>4. EffectsOnce
  BY <1>2 DEF EffectsOnce, InEffect
<1>5. OpenedFirst /\ Silence
  BY <1>2, NewFacts DEF OpenedFirst, Silence
<1>6. QED
  BY <1>1, <1>3, <1>4, <1>5 DEF IInv

(***************************************************************************)
(* Tasks that enter, leave, or do nothing.                                 *)
(***************************************************************************)
Same(u) == pc'[u] = pc[u] /\ job'[u] = job[u] /\ write'[u] = write[u]

TaskTypes ==
  /\ pc \in [Tasks -> PC] /\ job \in [Tasks -> Jobs] /\ write \in [Tasks -> Session]
  /\ prior \in [Tasks -> {"none", "held", "closing", "ending"}]

LEMMA TasksKeepTypes ==
  ASSUME TaskTypes, NEW t \in Tasks
  PROVE  /\ Rest(t) => TaskTypes'
         /\ \A j \in Jobs, at \in PC, s \in Session : Intend(t, j, at, s) => TaskTypes'
<1>1. "idle" \in PC /\ "none" \in Jobs
  BY DEF PC, Jobs
<1>2. QED
  BY <1>1, NewFacts DEF TaskTypes, Rest, Intend

\* What the lock holder decided on stands while nobody writes the session.
LEMMA BasedStays ==
  ASSUME NEW t \in Tasks, Based, UNCHANGED <<session, attached>>, aired => aired',
         \A u \in Tasks \ {t} : Same(u) /\ (lock' = u => lock = u),
         lock' = t => BasedAt(t)'
  PROVE  Based'
<1>1. ASSUME NEW u \in Tasks \ {t}, lock' = u PROVE BasedAt(u)'
  <2>1. BasedAt(u) /\ Same(u)
    BY <1>1 DEF Based
  <2>2. QED
    BY <2>1 DEF BasedAt, Same, Answered, Startable, Chosen, Started, Rescued, Applicable
<1>2. QED
  BY <1>1 DEF Based

LEMMA Leaving ==
  ASSUME IInv, NEW t \in Tasks, Leave(t), UNCHANGED <<session, attached, aired, losses>>,
         activated' => activated
  PROVE  /\ Based' /\ JobsFit' /\ WritesFit' /\ FaultStored' /\ TaskTypes'
         /\ lock' \in Tasks \cup {Free}
         /\ effects' = effects => EffectsOnce' /\ OpenedFirst'
         /\ losses = 0 => \A u \in Tasks : pc'[u] # "idle" => lock' = u
<1> USE ConstantsAssumption
<1>1. /\ pc \in [Tasks -> PC] /\ job \in [Tasks -> Jobs] /\ write \in [Tasks -> Session]
      /\ lock \in Tasks \cup {Free}
  BY DEF IInv, TypeOK
<1>2. pc'[t] = "idle" /\ job'[t] = "none" /\ write'[t] = NewSession /\ lock' # t
  BY <1>1 DEF Leave, Rest, Release
<1>3. \A u \in Tasks \ {t} : Same(u) /\ (lock' = u <=> lock = u)
  BY <1>1 DEF Leave, Rest, Release, Same
<1>4. Based'
  BY <1>2, <1>3, BasedStays DEF IInv
<1>5. JobsFit' /\ WritesFit' /\ FaultStored'
  <2>1. JobsFit'
    BY <1>2, <1>3 DEF IInv, JobsFit, Same
  <2>2. WritesFit'
    BY <1>2, <1>3 DEF IInv, WritesFit, Same, CommandFits
  <2>3. FaultStored'
    BY <1>2, <1>3 DEF IInv, FaultStored, Same
  <2>4. QED
    BY <2>1, <2>2, <2>3
<1>6. ASSUME effects' = effects PROVE EffectsOnce' /\ OpenedFirst'
  <2>1. EffectsOnce'
    BY <1>2, <1>3, <1>6 DEF IInv, EffectsOnce, InEffect, Same
  <2>2. OpenedFirst'
    BY <1>2, <1>3, <1>6, NewFacts DEF IInv, OpenedFirst, Opened, Same
  <2>3. QED
    BY <2>1, <2>2
<1>7. losses = 0 => \A u \in Tasks : pc'[u] # "idle" => lock' = u
  BY <1>2, <1>3 DEF IInv, Silence, Same
<1>8. TaskTypes' /\ lock' \in Tasks \cup {Free}
  BY <1>1, TasksKeepTypes DEF IInv, TypeOK, TaskTypes, Leave, Release
<1>9. QED
  BY <1>4, <1>5, <1>6, <1>7, <1>8

LEMMA Entering ==
  ASSUME IInv, NEW t \in Tasks, NEW j \in Jobs, NEW at \in {"promoting", "staging"},
         NEW s \in Session, Intend(t, j, at, s),
         \/ pc[t] = "idle" /\ lock = Free /\ lock' = t
         \/ pc[t] = "promoted" /\ lock' = lock,
         UNCHANGED <<session, attached, aired, activated, effects, losses>>,
         lock' = t => BasedAt(t)',
         at = "promoting" => j \in Commands /\ s.phase = "failed",
         t = Recorder => j = "record",
         at = "staging" /\ j = "record" => s.phase = "failed",
         at = "staging" /\ j \in Commands => CommandFits(s, j),
         s.live => Opened
  PROVE  /\ Based' /\ JobsFit' /\ WritesFit' /\ FaultStored' /\ TaskTypes'
         /\ lock' \in Tasks \cup {Free} /\ EffectsOnce' /\ OpenedFirst'
         /\ losses = 0 => \A u \in Tasks : pc'[u] # "idle" => lock' = u
<1> USE ConstantsAssumption
<1>1. /\ pc \in [Tasks -> PC] /\ job \in [Tasks -> Jobs] /\ write \in [Tasks -> Session]
      /\ lock \in Tasks \cup {Free}
  BY DEF IInv, TypeOK
<1>2. pc'[t] = at /\ job'[t] = j /\ write'[t] = s
  BY <1>1 DEF Intend
<1>3. \A u \in Tasks \ {t} : Same(u) /\ (lock' = u => lock = u)
  BY <1>1 DEF Intend, Same
<1>4. Based'
  BY <1>3, BasedStays DEF IInv
<1>5. JobsFit'
  BY <1>2, <1>3 DEF IInv, JobsFit, Same
<1>6. WritesFit'
  BY <1>2, <1>3 DEF IInv, WritesFit, Same, CommandFits
<1>7. FaultStored'
  BY <1>2, <1>3 DEF IInv, FaultStored, Same
<1>8. EffectsOnce'
  BY <1>2, <1>3 DEF IInv, EffectsOnce, InEffect, Same
<1>9. OpenedFirst'
  BY <1>2, <1>3 DEF IInv, OpenedFirst, Opened, Same
<1>10. losses = 0 => \A u \in Tasks : pc'[u] # "idle" => lock' = u
  BY <1>2, <1>3 DEF IInv, Silence, Same
<1>11. TaskTypes' /\ lock' \in Tasks \cup {Free}
  <2>1. at \in PC
    BY DEF PC
  <2>2. QED
    BY <1>1, <2>1, TasksKeepTypes DEF IInv, TypeOK, TaskTypes
<1>12. QED
  BY <1>4, <1>5, <1>6, <1>7, <1>8, <1>9, <1>10, <1>11

\* A task that decided a command.
LEMMA Preparing ==
  ASSUME IInv, NEW t \in Tasks, NEW c \in Commands, Prepare(t, c), t # Recorder,
         \/ pc[t] = "idle" /\ lock = Free /\ lock' = t
         \/ pc[t] = "promoted" /\ lock' = lock,
         UNCHANGED <<session, attached, aired, activated, effects, losses>>
  PROVE  /\ Based' /\ JobsFit' /\ WritesFit' /\ FaultStored' /\ TaskTypes'
         /\ lock' \in Tasks \cup {Free} /\ EffectsOnce' /\ OpenedFirst'
         /\ losses = 0 => \A u \in Tasks : pc'[u] # "idle" => lock' = u
<1> USE ConstantsAssumption
<1> DEFINE s == Chosen(session, c)
<1>1. ~Answered(session, c) /\ Intend(t, c, "staging", s)
  BY DEF Prepare
<1>2. session \in Session
  BY DEF IInv, TypeOK
<1>3. s \in Session /\ s.live = session.live /\ CommandFits(s, c)
  BY <1>1, <1>2, ChosenFacts
<1>4. c \in Jobs /\ c # "record"
  BY DEF Jobs
<1>5. s.live => Opened
  BY <1>3 DEF IInv, OpenedFirst
<1>6. BasedAt(t)'
  <2>1. pc'[t] = "staging" /\ job'[t] = c /\ write'[t] = s
    BY <1>1 DEF Intend, IInv, TypeOK
  <2>2. Answered(session, c)' = Answered(session, c) /\ s' = s
    BY DEF Answered, Startable, Chosen, Started, Rescued, Applicable
  <2>3. QED
    BY <1>1, <2>1, <2>2 DEF BasedAt, Answered, Startable, Chosen, Started, Rescued, Applicable
<1> HIDE DEF s
<1>7. QED
  BY <1>1, <1>3, <1>4, <1>5, <1>6, Entering

(***************************************************************************)
(* A write that lands.                                                     *)
(***************************************************************************)
LEMMA LandInv ==
  ASSUME IInv, NEW t \in Tasks, Land(t)
  PROVE  IInv'
<1> USE ConstantsAssumption
<1>1. /\ pc \in [Tasks -> PC] /\ job \in [Tasks -> Jobs] /\ write \in [Tasks -> Session]
      /\ lock = t /\ session \in Session /\ BasedAt(t)
  BY DEF IInv, TypeOK, Land, Based
<1>2. /\ session' = write[t] /\ UNCHANGED <<lock, job, write, prior, speech, pending, attached,
                                           closing, effects, faults, losses>>
      /\ \A u \in Tasks \ {t} : pc'[u] = pc[u]
  BY <1>1 DEF Land
<1>3. \/ pc[t] = "promoting" /\ pc'[t] = "promoted"
      \/ pc[t] = "saving" /\ pc'[t] = "saved"
      \/ pc[t] = "applying" /\ pc'[t] = "applied"
  BY <1>1 DEF Land, Stored
<1>4. Moves(session, session')
  BY <1>1, <1>2, WritesMove DEF Land
<1>5. TypeOK'
  <2>1. session' \in Session
    BY <1>1, <1>2
  <2>2. pc' \in [Tasks -> PC]
    BY <1>1 DEF Land, Stored, PC
  <2>3. QED
    BY <1>2, <2>1, <2>2 DEF IInv, TypeOK, speech
<1>6. Based'
  BY <1>1, <1>2, <1>3 DEF Based, BasedAt
<1>7. JobsFit'
  BY <1>2, <1>3 DEF IInv, JobsFit
<1>8. WritesFit'
  BY <1>2, <1>3 DEF IInv, WritesFit, CommandFits
<1>9. FaultStored'
  <2>1. session.phase \in Terminal => session'.phase \in Terminal
    BY <1>1, <1>4, PhasesMove DEF Moves
  <2>2. pc'[t] = "promoted" \/ (pc'[t] = "saved" /\ job'[t] = "record") => session'.phase \in Terminal
    BY <1>2, <1>3 DEF IInv, WritesFit, Terminal
  <2>3. QED
    BY <1>2, <2>1, <2>2 DEF IInv, FaultStored
<1>10. EffectsOnce'
  <2>1. \A c \in Commands : session.outcome[c] \in Taken => session'.outcome[c] \in Taken
    BY <1>4 DEF Moves, Taken
  <2>2. ASSUME NEW c \in Commands, InEffect(t, c)'
        PROVE  session.outcome[c] = "none" /\ session'.outcome[c] \in Taken
    <3>1. pc[t] = "saving" /\ job[t] = c /\ session'.outcome[c] \in Taken
      BY <1>2, <1>3, <2>2 DEF InEffect
    <3>2. c \notin {"none", "report", "closing", "record"}
      OBVIOUS
    <3>3. ~Answered(session, c)
      BY <1>1, <3>1, <3>2 DEF BasedAt
    <3>4. QED
      BY <3>1, <3>3 DEF Answered
  <2>3. \A c \in Commands, u \in Tasks \ {t} : InEffect(u, c)' <=> InEffect(u, c)
    BY <1>2 DEF InEffect
  <2>4. "none" \notin Taken
    BY DEF Taken
  <2>5. QED
    BY <1>2, <2>1, <2>2, <2>3, <2>4 DEF IInv, EffectsOnce, speech
<1>11. OpenedFirst'
  BY <1>1, <1>2 DEF IInv, OpenedFirst, Opened, speech
<1>12. Silence'
  <2>1. session.phase \in Late => session'.phase \in Late
    BY <1>4, PhasesMove DEF Moves
  <2>2. \A u \in Tasks : pc'[u] # "idle" => pc[u] # "idle"
    BY <1>2, <1>3
  <2>3. QED
    BY <1>2, <2>1, <2>2 DEF IInv, Silence, speech
<1>13. QED
  BY <1>5, <1>6, <1>7, <1>8, <1>9, <1>10, <1>11, <1>12 DEF IInv

(***************************************************************************)
(* Every step keeps the invariant.                                         *)
(***************************************************************************)
LEMMA AbandonInv ==
  ASSUME IInv, NEW t \in Tasks, Abandon(t), faults' \in 0..MaxFaults
  PROVE  IInv'
<1> USE ConstantsAssumption
<1>1. /\ Leave(t) /\ fence' = Restored(t)
      /\ UNCHANGED <<session, broken, pending, attached, activated, aired, turn, silenced,
                     effects, losses>>
  BY DEF Abandon
<1>2. /\ Based' /\ JobsFit' /\ WritesFit' /\ FaultStored' /\ TaskTypes'
      /\ lock' \in Tasks \cup {Free} /\ EffectsOnce' /\ OpenedFirst'
      /\ losses = 0 => \A u \in Tasks : pc'[u] # "idle" => lock' = u
  BY <1>1, Leaving
<1>3. TypeOK'
  <2>1. closing' \in 0..ClosingAttempts
    BY DEF Abandon, IInv, TypeOK
  <2>2. fence' \in {"none", "held", "closing", "ending"}
    BY <1>1 DEF IInv, TypeOK, Restored
  <2>3. QED
    BY <1>1, <1>2, <2>1, <2>2 DEF IInv, TypeOK, TaskTypes
<1>4. ASSUME losses = 0, silenced PROVE fence' # "none"
  <2>1. fence # "none" /\ session.phase \in Late
    BY <1>4 DEF IInv, Silence
  <2>2. CASE job[t] \in Commands /\ pc[t] \in {"saving", "saved"} /\ CommandOf[job[t]] = "hold"
             /\ write[t].outcome[job[t]] = "applied"
    <3>1. lock = t /\ BasedAt(t)
      BY <1>4, <2>2 DEF IInv, Silence, Based
    <3>2. write[t].phase \in {"warming", "selling"}
      BY <2>2 DEF IInv, WritesFit, CommandFits
    <3>3. CASE pc[t] = "saved"
      BY <2>1, <3>1, <3>2, <3>3 DEF BasedAt, Late
    <3>4. CASE pc[t] = "saving"
      <4>1. ~Answered(session, job[t]) /\ write[t] = Chosen(session, job[t])
        BY <2>2, <3>1, <3>4 DEF BasedAt
      <4>2. session \in Session
        BY DEF IInv, TypeOK
      <4>3. Moves(session, write[t])
        BY <2>2, <4>1, <4>2, ChosenFacts
      <4>4. QED
        BY <2>1, <3>2, <4>3, PhasesMove DEF Moves, Late
    <3>5. QED
      BY <2>2, <3>3, <3>4
  <2>3. CASE fence' = fence
    BY <2>1, <2>3
  <2>4. QED
    BY <1>1, <2>2, <2>3 DEF Restored
<1>5. Silence'
  BY <1>1, <1>2, <1>4 DEF IInv, Silence
<1>6. QED
  BY <1>2, <1>3, <1>5 DEF IInv

LEMMA InvStep == IInv /\ [Next]_vars => IInv'
<1> SUFFICES ASSUME IInv, [Next]_vars PROVE IInv'
  OBVIOUS
<1> USE ConstantsAssumption
<1>1. ASSUME NEW t \in Requests, NEW c \in Commands, Request(t, c) PROVE IInv'
  <2>1. t \in Tasks /\ t # Recorder /\ session \in Session
    BY DEF Tasks, IInv, TypeOK
  <2>2. pc[t] = "idle" /\ lock = Free /\ UNCHANGED <<session, speech, attached, effects, faults, losses>>
    BY <1>1 DEF Request
  <2>3. CASE pending /\ session.phase \notin Terminal
    <3>1. Intend(t, c, "promoting", Failed(session)) /\ lock' = t /\ UNCHANGED <<pending, closing>>
      BY <1>1, <2>3 DEF Request
    <3>2. /\ Failed(session) \in Session /\ Failed(session).phase = "failed"
          /\ Failed(session).live = session.live
      BY <2>1, <2>3, FailedFacts
    <3>3. BasedAt(t)'
      BY <2>1, <2>2, <2>3, <3>1 DEF BasedAt, Intend, IInv, TypeOK, Failed
    <3>4. Failed(session).live => Opened
      BY <3>2 DEF IInv, OpenedFirst
    <3>5. c \in Jobs
      BY DEF Jobs
    <3>6. /\ Based' /\ JobsFit' /\ WritesFit' /\ FaultStored' /\ TaskTypes'
          /\ lock' \in Tasks \cup {Free} /\ EffectsOnce' /\ OpenedFirst'
          /\ losses = 0 => \A u \in Tasks : pc'[u] # "idle" => lock' = u
      BY <2>1, <2>2, <3>1, <3>2, <3>3, <3>4, <3>5, Entering DEF speech
    <3>7. QED
      BY <2>2, <3>1, <3>6 DEF IInv, TypeOK, TaskTypes, Silence, speech
  <2>4. CASE ~(pending /\ session.phase \notin Terminal)
    <3>1. /\ Answer(t, c) \/ (Prepare(t, c) /\ lock' = t) 
          /\ pending' = FALSE
      BY <1>1, <2>4 DEF Request
    <3>2. /\ Based' /\ JobsFit' /\ WritesFit' /\ FaultStored' /\ TaskTypes'
          /\ lock' \in Tasks \cup {Free} /\ EffectsOnce' /\ OpenedFirst'
          /\ losses = 0 => \A u \in Tasks : pc'[u] # "idle" => lock' = u
      <4>1. CASE Answer(t, c)
        BY <2>1, <2>2, <4>1, Leaving DEF Answer, speech
      <4>2. CASE Prepare(t, c) /\ lock' = t
        BY <2>1, <2>2, <4>2, Preparing DEF speech
      <4>3. QED
        BY <3>1, <4>1, <4>2
    <3>3. closing' \in 0..ClosingAttempts
      BY <3>1 DEF Answer, Prepare, IInv, TypeOK
    <3>4. QED
      BY <2>2, <3>1, <3>2, <3>3 DEF IInv, TypeOK, TaskTypes, Silence, speech
  <2>5. QED
    BY <2>3, <2>4
<1>2. ASSUME NEW t \in Tasks, Promoted(t) PROVE IInv'
  <2> DEFINE c == job[t]
  <2>1. /\ pc[t] = "promoted" /\ pending' = FALSE
        /\ Answer(t, c) \/ (Prepare(t, c) /\ UNCHANGED lock)
        /\ UNCHANGED <<session, speech, attached, effects, faults, losses>>
    BY <1>2 DEF Promoted
  <2>2. c \in Commands /\ t # Recorder
    BY <2>1 DEF IInv, JobsFit
  <2> HIDE DEF c
  <2>3. /\ Based' /\ JobsFit' /\ WritesFit' /\ FaultStored' /\ TaskTypes'
        /\ lock' \in Tasks \cup {Free} /\ EffectsOnce' /\ OpenedFirst'
        /\ losses = 0 => \A u \in Tasks : pc'[u] # "idle" => lock' = u
    <3>1. CASE Answer(t, c)
      BY <2>1, <3>1, Leaving DEF Answer, speech
    <3>2. CASE Prepare(t, c) /\ UNCHANGED lock
      BY <2>1, <2>2, <3>2, Preparing DEF speech
    <3>3. QED
      BY <2>1, <3>1, <3>2
  <2>4. closing' \in 0..ClosingAttempts
    BY <2>1 DEF Answer, Prepare, IInv, TypeOK
  <2>5. QED
    BY <2>1, <2>3, <2>4 DEF IInv, TypeOK, TaskTypes, Silence, speech
<1>3. ASSUME NEW t \in Tasks, Staged(t) PROVE IInv'
  <2>1. /\ pc[t] = "staging" /\ pc' = [pc EXCEPT ![t] = "saving"]
        /\ fence' \in {fence, "held"} /\ (prior' = prior \/ prior' = [prior EXCEPT ![t] = fence])
        /\ UNCHANGED <<session, lock, job, write, broken, pending, attached, activated, aired, turn,
                       closing, silenced, effects, faults, losses>>
    BY <1>3 DEF Staged
  <2>2. pc \in [Tasks -> PC] /\ pc'[t] = "saving" /\ \A u \in Tasks \ {t} : Same(u)
    BY <2>1 DEF IInv, TypeOK, Same
  <2>3. TypeOK'
    BY <2>1 DEF IInv, TypeOK, PC
  <2>4. Based'
    <3>1. ASSUME lock' = t PROVE BasedAt(t)'
      <4>1. BasedAt(t)
        BY <2>1, <3>1 DEF IInv, Based
      <4>2. QED
        BY <2>1, <2>2, <4>1 DEF BasedAt, Answered, Startable, Chosen, Started, Rescued, Applicable
    <3>2. QED
      BY <2>1, <2>2, <3>1, BasedStays DEF IInv
  <2>5. JobsFit' /\ FaultStored'
    BY <2>1, <2>2 DEF IInv, JobsFit, FaultStored, Same
  <2>6. WritesFit'
    BY <2>1, <2>2 DEF IInv, WritesFit, CommandFits, Same
  <2>7. EffectsOnce'
    BY <2>1, <2>2 DEF IInv, EffectsOnce, InEffect, Same
  <2>8. OpenedFirst'
    BY <2>1 DEF IInv, OpenedFirst, Opened
  <2>9. Silence'
    BY <2>1, <2>2 DEF IInv, Silence, Same
  <2>10. QED
    BY <2>3, <2>4, <2>5, <2>6, <2>7, <2>8, <2>9 DEF IInv
<1>4. ASSUME NEW t \in Tasks, Land(t) PROVE IInv'
  BY <1>4, LandInv
<1>5. ASSUME NEW t \in Tasks, Refused(t) \/ WriteFails(t) PROVE IInv'
  <2>1. Abandon(t)
    BY <1>5 DEF Refused, WriteFails
  <2>2. faults' \in 0..MaxFaults
    BY <1>5 DEF Refused, WriteFails, IInv, TypeOK
  <2>3. QED
    BY <2>1, <2>2, AbandonInv
<1>6. ASSUME NEW t \in Tasks, NEW c \in Commands, Rescue(t, c) PROVE IInv'
  <2>1. Leave(t) /\ UNCHANGED <<session, attached, aired, losses>> /\ (activated' => activated)
    BY <1>6 DEF Rescue, speech
  <2>2. /\ Based' /\ JobsFit' /\ WritesFit' /\ FaultStored' /\ TaskTypes'
        /\ lock' \in Tasks \cup {Free}
        /\ effects' = effects => EffectsOnce' /\ OpenedFirst'
        /\ losses = 0 => \A u \in Tasks : pc'[u] # "idle" => lock' = u
    BY <2>1, Leaving
  <2>3. /\ pc[t] = "saved" /\ job[t] = c /\ CommandOf[c] \in Rescues /\ Leave(t)
        /\ UNCHANGED <<session, broken, activated, aired, pending, attached, faults, losses>>
    BY <1>6 DEF Rescue
  <2>4. CASE write[t].outcome[c] # "applied"
    <3>1. UNCHANGED <<fence, turn, silenced, closing, effects>>
      BY <1>6, <2>4 DEF Rescue
    <3>2. QED
      BY <2>2, <2>3, <3>1 DEF IInv, TypeOK, TaskTypes, Silence
  <2>5. CASE write[t].outcome[c] = "applied"
    <3>1. /\ fence' = FenceAfter(CommandOf[c]) /\ turn' = (turn /\ ~Cuts(CommandOf[c]))
          /\ silenced' = (silenced \/ CommandOf[c] \in {"end", "emergency_end"})
          /\ closing' \in {ClosingAttempts, closing}
          /\ effects' = [effects EXCEPT ![c] = @ + 1]
      BY <1>6, <2>5 DEF Rescue, Counted
    <3>2. InEffect(t, c) /\ effects[c] = 0 /\ session.outcome[c] \in Taken
      BY <2>3, <2>5 DEF IInv, EffectsOnce, InEffect, Taken
    <3>3. /\ effects \in [Commands -> Nat] /\ effects'[c] = 1
          /\ \A d \in Commands \ {c} : effects'[d] = effects[d]
      BY <3>1, <3>2 DEF IInv, TypeOK
    <3>4. ~InEffect(t, c)' /\ \A u \in Tasks \ {t}, d \in Commands : InEffect(u, d)' <=> InEffect(u, d)
      BY <2>3 DEF InEffect, Leave, Rest, IInv, TypeOK
    <3>5. \A d \in Commands : ~InEffect(t, d)'
      BY <2>3 DEF InEffect, Leave, Rest, IInv, TypeOK
    <3>6. EffectsOnce'
      BY <2>3, <3>2, <3>3, <3>4, <3>5 DEF IInv, EffectsOnce
    <3>7. Opened => Opened'
      BY <3>2, <3>3 DEF Opened
    <3>8. OpenedFirst'
      <4>1. \A u \in Tasks : write'[u].live => write[u].live
        BY <2>3, NewFacts DEF Leave, Rest, IInv, TypeOK
      <4>2. QED
        BY <2>3, <3>7, <4>1 DEF IInv, OpenedFirst
    <3>9. fence' \in {"none", "held", "closing", "ending"}
      BY <2>3, <3>1 DEF FenceAfter, Rescues, IInv, TypeOK
    <3>10. TypeOK'
      <4>1. turn' \in BOOLEAN /\ silenced' \in BOOLEAN
        BY <3>1, Zenon DEF Cuts
      <4>2. closing' \in 0..ClosingAttempts /\ effects' \in [Commands -> Nat]
        BY <3>1 DEF IInv, TypeOK
      <4>3. QED
        BY <2>2, <2>3, <3>9, <4>1, <4>2 DEF IInv, TypeOK, TaskTypes
    <3>11. ASSUME losses = 0, silenced' PROVE fence' # "none" /\ session.phase \in Late
      <4>1. session = write[t]
        BY <2>3, <3>11 DEF IInv, Silence, Based, BasedAt
      <4>2. CommandFits(session, c) /\ session.outcome[c] = "applied"
        BY <2>3, <2>5, <4>1 DEF IInv, WritesFit
      <4>3. CASE CommandOf[c] \in {"end", "emergency_end"}
        BY <3>1, <4>2, <4>3 DEF CommandFits, Late, FenceAfter
      <4>4. CASE CommandOf[c] \notin {"end", "emergency_end"}
        <5>1. silenced
          BY <3>1, <3>11, <4>4
        <5>2. fence # "none" /\ session.phase \in Late
          BY <3>11, <5>1 DEF IInv, Silence
        <5>3. CommandOf[c] = "interrupt"
          BY <2>3, <4>2, <4>4, <5>2 DEF CommandFits, Late, Rescues
        <5>4. QED
          BY <3>1, <5>2, <5>3 DEF FenceAfter
      <4>5. QED
        BY <4>3, <4>4
    <3>12. Silence'
      BY <2>2, <2>3, <3>11 DEF Silence
    <3>13. QED
      BY <2>2, <3>6, <3>8, <3>10, <3>12 DEF IInv
  <2>6. QED
    BY <2>4, <2>5
<1>7. ASSUME NEW t \in Tasks, NEW c \in Commands, Activate(t, c) PROVE IInv'
  <2>1. /\ pc[t] = "saved" /\ job[t] = c /\ CommandOf[c] = "start"
        /\ UNCHANGED <<session, fence, broken, aired, turn, silenced, pending, attached, closing,
                       faults, losses>>
    BY <1>7 DEF Activate
  <2>2. CASE ~attached
    <3>1. Leave(t) /\ UNCHANGED <<activated, effects>>
      BY <1>7, <2>2 DEF Activate
    <3>2. /\ Based' /\ JobsFit' /\ WritesFit' /\ FaultStored' /\ TaskTypes'
          /\ lock' \in Tasks \cup {Free} /\ EffectsOnce' /\ OpenedFirst'
          /\ losses = 0 => \A u \in Tasks : pc'[u] # "idle" => lock' = u
      BY <2>1, <3>1, Leaving
    <3>3. QED
      BY <2>1, <3>1, <3>2 DEF IInv, TypeOK, TaskTypes, Silence
  <2>3. CASE attached
    <3> DEFINE s == Decided(write[t], c, "applied")
    <3>1. /\ Intend(t, c, "applying", s) /\ lock' = lock /\ activated' = TRUE
          /\ effects' = [effects EXCEPT ![c] = @ + 1]
      BY <1>7, <2>3 DEF Activate, Counted
    <3>2. CommandFits(write[t], c)
      BY <2>1 DEF IInv, WritesFit
    <3>3. InEffect(t, c) /\ effects[c] = 0 /\ session.outcome[c] \in Taken
      BY <2>1, <3>2 DEF IInv, EffectsOnce, InEffect, Taken, CommandFits
    <3>4. /\ effects \in [Commands -> Nat] /\ effects'[c] = 1
          /\ \A d \in Commands \ {c} : effects'[d] = effects[d]
      BY <3>1, <3>3 DEF IInv, TypeOK
    <3>5. write[t] \in Session /\ s \in Session /\ s.live = write[t].live
      BY DecidedFacts DEF IInv, TypeOK, Outcomes
    <3>6. /\ pc'[t] = "applying" /\ job'[t] = c /\ write'[t] = s
          /\ \A u \in Tasks \ {t} : Same(u)
      BY <3>1 DEF Intend, Same, IInv, TypeOK
    <3>7. TaskTypes'
      BY <3>1, <3>5, TasksKeepTypes DEF IInv, TypeOK, TaskTypes, Jobs, PC
    <3>8. TypeOK'
      BY <2>1, <3>1, <3>7 DEF IInv, TypeOK, TaskTypes
    <3>9. Based'
      <4>1. ASSUME lock' = t PROVE BasedAt(t)'
        <5>1. session = write[t]
          BY <2>1, <3>1, <4>1 DEF IInv, Based, BasedAt
        <5>2. session.outcome[c] = "accepted"
          BY <2>1, <3>2, <5>1 DEF CommandFits
        <5>3. QED
          BY <2>1, <3>6, <5>1, <5>2 DEF BasedAt, Decided
      <4>2. QED
        BY <2>1, <3>1, <3>6, <4>1, BasedStays DEF IInv
    <3> HIDE DEF s
    <3>10. JobsFit'
      BY <2>1, <3>6 DEF IInv, JobsFit, Same
    <3>11. WritesFit'
      BY <3>6 DEF IInv, WritesFit, CommandFits, Same
    <3>12. FaultStored'
      BY <2>1, <3>6 DEF IInv, FaultStored, Same
    <3>13. EffectsOnce'
      <4>1. \A d \in Commands : ~InEffect(t, d)'
        BY <3>6 DEF InEffect
      <4>2. \A u \in Tasks \ {t}, d \in Commands : InEffect(u, d)' <=> InEffect(u, d)
        BY <3>6 DEF InEffect, Same
      <4>3. QED
        BY <2>1, <3>3, <3>4, <4>1, <4>2 DEF IInv, EffectsOnce
    <3>14. OpenedFirst'
      <4>1. Opened'
        BY <2>1, <3>4 DEF Opened
      <4>2. QED
        BY <4>1 DEF OpenedFirst
    <3>15. Silence'
      BY <2>1, <3>1, <3>6 DEF IInv, Silence, Same
    <3>16. QED
      BY <3>8, <3>9, <3>10, <3>11, <3>12, <3>13, <3>14, <3>15 DEF IInv
  <2>4. QED
    BY <2>2, <2>3
<1>8. ASSUME NEW t \in Tasks, Applied(t) \/ Reported(t) PROVE IInv'
  <2>1. Leave(t) /\ UNCHANGED <<session, attached, aired, losses>> /\ (activated' => activated)
    BY <1>8 DEF Applied, Reported, speech
  <2>2. /\ Based' /\ JobsFit' /\ WritesFit' /\ FaultStored' /\ TaskTypes'
        /\ lock' \in Tasks \cup {Free}
        /\ effects' = effects => EffectsOnce' /\ OpenedFirst'
        /\ losses = 0 => \A u \in Tasks : pc'[u] # "idle" => lock' = u
    BY <2>1, Leaving
  <2>3. UNCHANGED <<session, speech, pending, attached, closing, effects, faults, losses>>
    BY <1>8 DEF Applied, Reported
  <2>4. QED
    BY <2>2, <2>3 DEF IInv, TypeOK, TaskTypes, Silence, speech
<1>9. ASSUME NEW t \in Tasks, Finished(t) PROVE IInv'
  <2>1. Leave(t) /\ UNCHANGED <<session, attached, aired, losses>> /\ (activated' => activated)
    BY <1>9 DEF Finished, speech
  <2>2. /\ Based' /\ JobsFit' /\ WritesFit' /\ FaultStored' /\ TaskTypes'
        /\ lock' \in Tasks \cup {Free}
        /\ effects' = effects => EffectsOnce' /\ OpenedFirst'
        /\ losses = 0 => \A u \in Tasks : pc'[u] # "idle" => lock' = u
    BY <2>1, Leaving
  <2>3. /\ fence' = "ending" /\ closing' \in {0, closing}
        /\ UNCHANGED <<session, broken, activated, aired, turn, silenced, pending, attached,
                       effects, faults, losses>>
    BY <1>9 DEF Finished
  <2>4. QED
    BY <2>2, <2>3 DEF IInv, TypeOK, TaskTypes, Silence
<1>10. ASSUME NEW t \in Tasks, Finish(t) PROVE IInv'
  <2>1. /\ pc[t] = "idle" /\ lock = Free /\ t # Recorder
        /\ UNCHANGED <<session, speech, pending, attached, effects, faults, losses>>
    BY <1>10 DEF Finish
  <2>2. CASE session.phase = "closing"
    <3>1. lock' = t /\ Intend(t, "closing", "staging", Closed(session)) /\ UNCHANGED closing
      BY <1>10, <2>2 DEF Finish
    <3>2. session \in Session /\ Closed(session) \in Session /\ Closed(session).live = session.live
      BY <2>2, ClosedFacts DEF IInv, TypeOK
    <3>3. BasedAt(t)'
      BY <2>1, <2>2, <3>1 DEF BasedAt, Intend, IInv, TypeOK, Closed
    <3>4. Closed(session).live => Opened
      BY <3>2 DEF IInv, OpenedFirst
    <3>5. /\ Based' /\ JobsFit' /\ WritesFit' /\ FaultStored' /\ TaskTypes'
          /\ lock' \in Tasks \cup {Free} /\ EffectsOnce' /\ OpenedFirst'
          /\ losses = 0 => \A u \in Tasks : pc'[u] # "idle" => lock' = u
      BY <2>1, <3>1, <3>2, <3>3, <3>4, Entering DEF speech, Jobs
    <3>6. QED
      BY <2>1, <3>1, <3>5 DEF IInv, TypeOK, TaskTypes, Silence, speech
  <2>3. CASE session.phase # "closing"
    <3>1. closing' = 0 /\ UNCHANGED <<session, lock, task, speech, pending, attached, effects, faults,
                                      losses>>
      BY <1>10, <2>3 DEF Finish
    <3>2. TypeOK'
      BY <3>1 DEF IInv, TypeOK, task, speech
    <3>3. Based'
      BY <3>1, BasedStays DEF IInv, Same, task, speech, Tasks
    <3>4. QED
      BY <3>1, <3>2, <3>3 DEF IInv, JobsFit, WritesFit, CommandFits, EffectsOnce, InEffect,
        FaultStored, OpenedFirst, Opened, Silence, task, speech
  <2>4. QED
    BY <2>2, <2>3
<1>11. ASSUME NEW t \in Requests, NEW r \in Reports, Report(t, r) PROVE IInv'
  <2> DEFINE s == Apply(session, r.kind, r.phase, r.seq, r.healthy)
  <2>1. /\ pc[t] = "idle" /\ lock = Free /\ lock' = t /\ t \in Tasks /\ t # Recorder
        /\ Accepts(session, r.kind, r.phase, r.seq) /\ (r.kind = "first_ai_broadcast" => aired)
        /\ Intend(t, "report", "staging", s)
        /\ UNCHANGED <<session, speech, pending, attached, closing, effects, faults, losses>>
    BY <1>11 DEF Report, Tasks
  <2>2. session \in Session /\ s \in Session /\ (s.live => session.live \/ r.kind = "first_ai_broadcast")
    BY <2>1, AppliedFacts DEF IInv, TypeOK
  <2>3. s.live => Opened
    BY <2>1, <2>2 DEF IInv, OpenedFirst
  <2>4. BasedAt(t)'
    <3>1. pc'[t] = "staging" /\ job'[t] = "report" /\ write'[t] = s
      BY <2>1 DEF Intend, IInv, TypeOK
    <3>2. QED
      BY <2>1, <3>1 DEF BasedAt, speech
  <2> HIDE DEF s
  <2>5. /\ Based' /\ JobsFit' /\ WritesFit' /\ FaultStored' /\ TaskTypes'
        /\ lock' \in Tasks \cup {Free} /\ EffectsOnce' /\ OpenedFirst'
        /\ losses = 0 => \A u \in Tasks : pc'[u] # "idle" => lock' = u
    BY <2>1, <2>2, <2>3, <2>4, Entering DEF speech, Jobs
  <2>6. QED
    BY <2>1, <2>5 DEF IInv, TypeOK, TaskTypes, Silence, speech
<1>12. CASE Sweep
  <2>1. /\ pc[Recorder] = "idle" /\ lock = Free /\ Recorder \in Tasks
        /\ UNCHANGED <<session, speech, attached, closing, effects, faults, losses>>
    BY <1>12 DEF Sweep, Tasks
  <2>2. CASE session.phase \notin Terminal
    <3>1. lock' = Recorder /\ Intend(Recorder, "record", "staging", Failed(session)) /\ UNCHANGED pending
      BY <1>12, <2>2 DEF Sweep
    <3>2. /\ session \in Session /\ Failed(session) \in Session /\ Failed(session).phase = "failed"
          /\ Failed(session).live = session.live
      BY <2>2, FailedFacts DEF IInv, TypeOK
    <3>3. BasedAt(Recorder)'
      BY <2>1, <2>2, <3>1 DEF BasedAt, Intend, IInv, TypeOK, Failed
    <3>4. Failed(session).live => Opened
      BY <3>2 DEF IInv, OpenedFirst
    <3>5. /\ Based' /\ JobsFit' /\ WritesFit' /\ FaultStored' /\ TaskTypes'
          /\ lock' \in Tasks \cup {Free} /\ EffectsOnce' /\ OpenedFirst'
          /\ losses = 0 => \A u \in Tasks : pc'[u] # "idle" => lock' = u
      BY <2>1, <3>1, <3>2, <3>3, <3>4, Entering DEF speech, Jobs
    <3>6. QED
      BY <2>1, <3>1, <3>5 DEF IInv, TypeOK, TaskTypes, Silence, speech
  <2>3. CASE session.phase \in Terminal
    <3>1. /\ pending' = FALSE
          /\ UNCHANGED <<session, lock, task, speech, attached, closing, effects, faults,
                                          losses>>
      BY <1>12, <2>3 DEF Sweep
    <3>2. TypeOK'
      BY <3>1 DEF IInv, TypeOK, task, speech
    <3>3. Based'
      BY <2>1, <3>1, BasedStays DEF IInv, Same, task, speech
    <3>4. QED
      BY <3>1, <3>2, <3>3 DEF IInv, JobsFit, WritesFit, CommandFits, EffectsOnce, InEffect,
        FaultStored, OpenedFirst, Opened, Silence, task, speech
  <2>4. QED
    BY <2>2, <2>3
<1>13. CASE Recorded
  <2>1. /\ Recorder \in Tasks /\ Leave(Recorder) /\ pending' = FALSE
        /\ UNCHANGED <<session, speech, attached, closing, effects, faults, losses>>
    BY <1>13 DEF Recorded, Tasks
  <2>2. /\ Based' /\ JobsFit' /\ WritesFit' /\ FaultStored' /\ TaskTypes'
        /\ lock' \in Tasks \cup {Free} /\ EffectsOnce' /\ OpenedFirst'
        /\ losses = 0 => \A u \in Tasks : pc'[u] # "idle" => lock' = u
    BY <2>1, Leaving DEF speech
  <2>3. QED
    BY <2>1, <2>2 DEF IInv, TypeOK, TaskTypes, Silence, speech
<1>14. CASE Busy \/ Fail \/ Speak \/ FallSilent \/ UNCHANGED vars
  <2>1. /\ UNCHANGED <<session, lock, task, attached, silenced, effects, faults, losses>>
        /\ fence' \in {fence, "ending"} /\ (aired => aired')
        /\ (aired' \/ activated' => aired \/ activated)
    BY <1>14 DEF Busy, Fail, Speak, FallSilent, vars, speech
  <2>2. TypeOK'
    <3>1. closing' \in 0..ClosingAttempts
      BY <1>14 DEF Busy, Fail, Speak, FallSilent, vars, speech, IInv, TypeOK
    <3>2. /\ broken' \in BOOLEAN /\ pending' \in BOOLEAN /\ activated' \in BOOLEAN
          /\ aired' \in BOOLEAN /\ turn' \in BOOLEAN
      BY <1>14, Zenon DEF Busy, Fail, Speak, FallSilent, vars, speech, IInv, TypeOK
    <3>3. QED
      BY <2>1, <3>1, <3>2 DEF IInv, TypeOK, task
  <2>3. Based'
    BY <2>1, BasedStays DEF IInv, Same, task, Tasks
  <2>4. JobsFit' /\ WritesFit' /\ FaultStored' /\ EffectsOnce'
    BY <2>1 DEF IInv, JobsFit, WritesFit, CommandFits, EffectsOnce, InEffect, FaultStored, task
  <2>5. OpenedFirst' /\ Silence'
    BY <2>1 DEF IInv, OpenedFirst, Opened, Silence, task
  <2>6. QED
    BY <2>2, <2>3, <2>4, <2>5 DEF IInv
<1>15. CASE LeaseExpires
  <2>1. /\ lock' = Free /\ losses' = losses + 1 /\ losses < MaxLosses
        /\ UNCHANGED <<session, task, speech, pending, attached, closing, effects, faults>>
    BY <1>15 DEF LeaseExpires
  <2>2. TypeOK'
    BY <2>1 DEF IInv, TypeOK, task, speech
  <2>3. Based'
    BY <2>1 DEF Based
  <2>4. JobsFit' /\ WritesFit' /\ FaultStored' /\ EffectsOnce'
    BY <2>1 DEF IInv, JobsFit, WritesFit, CommandFits, EffectsOnce, InEffect, FaultStored, task
  <2>5. OpenedFirst'
    BY <2>1 DEF IInv, OpenedFirst, Opened, task, speech
  <2>6. Silence'
    BY <2>1 DEF IInv, TypeOK, Silence
  <2>7. QED
    BY <2>2, <2>3, <2>4, <2>5, <2>6 DEF IInv
<1>16. CASE Restart
  <2>1. \A t \in Tasks : pc'[t] = "idle" /\ ~write'[t].live
    BY <1>16, NewFacts DEF Restart
  <2>2. UNCHANGED <<session, effects, losses>> /\ ~aired' /\ ~activated' /\ ~silenced'
    BY <1>16 DEF Restart
  <2>3. TypeOK'
    <3>1. pc' \in [Tasks -> PC] /\ job' \in [Tasks -> Jobs] /\ write' \in [Tasks -> Session]
      BY <1>16, NewFacts DEF Restart, PC, Jobs
    <3>2. prior' \in [Tasks -> {"none", "held", "closing", "ending"}] /\ faults' \in 0..MaxFaults
      BY <1>16 DEF Restart, IInv, TypeOK
    <3>3. /\ lock' \in Tasks \cup {Free} /\ closing' \in 0..ClosingAttempts
          /\ fence' \in {"none", "held", "closing", "ending"}
      BY <1>16 DEF Restart
    <3>4. /\ broken' \in BOOLEAN /\ pending' \in BOOLEAN /\ attached' \in BOOLEAN
          /\ activated' \in BOOLEAN /\ aired' \in BOOLEAN /\ turn' \in BOOLEAN
          /\ silenced' \in BOOLEAN
      BY <1>16, Zenon DEF Restart
    <3>5. QED
      BY <2>2, <3>1, <3>2, <3>3, <3>4 DEF IInv, TypeOK
  <2>4. Based' /\ JobsFit' /\ WritesFit' /\ FaultStored'
    BY <2>1 DEF Based, BasedAt, JobsFit, WritesFit, FaultStored
  <2>5. EffectsOnce'
    BY <2>1, <2>2 DEF IInv, EffectsOnce, InEffect
  <2>6. OpenedFirst' /\ Silence'
    BY <2>1, <2>2 DEF IInv, OpenedFirst, Opened, Silence
  <2>7. QED
    BY <2>3, <2>4, <2>5, <2>6 DEF IInv
<1>17. QED
  BY <1>1, <1>2, <1>3, <1>4, <1>5, <1>6, <1>7, <1>8, <1>9, <1>10, <1>11, <1>12, <1>13, <1>14, <1>15, <1>16
  DEF Next, Continue

\* The session, what the tasks are about to write, and the speech always stand in these
\* relations.
THEOREM Invariance == Spec => []IInv
<1>1. Init => IInv
  BY InvInit
<1>2. IInv /\ [Next]_vars => IInv'
  BY InvStep
<1>3. QED
  BY <1>1, <1>2, PTL DEF Spec

(***************************************************************************)
(* What the system promises.                                               *)
(***************************************************************************)
\* Every variable keeps its type.
THEOREM TypeCorrect == Spec => []TypeOK
<1>1. IInv => TypeOK
  BY DEF IInv
<1>2. QED
  BY <1>1, Invariance, PTL

\* A command takes effect at most once, and only after its outcome is stored, for any
\* number of tasks, retries, lost replies, lost leases and restarts.
THEOREM CommandsActOnce == Spec => []OneEffectPerCommand
<1>1. IInv => OneEffectPerCommand
  BY DEF IInv, EffectsOnce, Taken, OneEffectPerCommand
<1>2. QED
  BY <1>1, Invariance, PTL

\* A first broadcast is on record only if the opening of an accepted start was scheduled.
THEOREM LiveIsEarned == Spec => []LiveMeansOpened
<1>1. IInv => LiveMeansOpened
  <2> SUFFICES ASSUME IInv, session.live PROVE LiveMeansOpened
    BY DEF LiveMeansOpened
  <2>1. PICK c \in Commands : CommandOf[c] = "start" /\ effects[c] = 1
    BY DEF IInv, OpenedFirst, Opened
  <2>2. session.outcome[c] # "none"
    BY <2>1 DEF IInv, EffectsOnce, Taken
  <2>3. QED
    BY <2>1, <2>2 DEF LiveMeansOpened
<1>2. QED
  BY <1>1, Invariance, PTL

\* While no lease was lost, speech stays fenced once an end took effect.
THEOREM EndsStaySilent == Spec => []EndIsSilent
<1>1. IInv => EndIsSilent
  BY DEF IInv, Silence, EndIsSilent
<1>2. QED
  BY <1>1, Invariance, PTL

\* A fatal fault is dropped only when the session is stored as over, or the process is gone.
THEOREM FaultsAreKept == Spec => FaultIsKept
<1>1. ASSUME IInv, [Next]_vars, pending, ~pending' PROVE session'.phase \in Terminal \/ ~attached'
  <2>1. ASSUME NEW t \in Tasks, Promoted(t) PROVE session'.phase \in Terminal
    BY <1>1, <2>1 DEF Promoted, IInv, FaultStored
  <2>2. ASSUME NEW t \in Requests, NEW c \in Commands, Request(t, c)
        PROVE  session'.phase \in Terminal
    BY <1>1, <2>2 DEF Request
  <2>3. CASE Sweep
    BY <1>1, <2>3 DEF Sweep
  <2>4. CASE Recorded
    <3>1. Recorder \in Tasks /\ pc[Recorder] = "saved" /\ session' = session
      BY <2>4 DEF Recorded, Tasks
    <3>2. job[Recorder] = "record"
      BY <1>1, <3>1 DEF IInv, JobsFit
    <3>3. QED
      BY <1>1, <3>1, <3>2 DEF IInv, FaultStored
  <2>5. CASE Restart
    BY <2>5 DEF Restart
  <2>6. \A t \in Tasks : ~Staged(t) /\ ~Land(t) /\ ~Refused(t) /\ ~WriteFails(t) /\ ~Finish(t)
    BY <1>1 DEF Staged, Land, Refused, WriteFails, Abandon, Finish
  <2>7. \A t \in Tasks : ~Applied(t) /\ ~Reported(t) /\ ~Finished(t)
    BY <1>1 DEF Applied, Reported, Finished
  <2>8. \A t \in Tasks, c \in Commands : ~Rescue(t, c) /\ ~Activate(t, c)
    BY <1>1 DEF Rescue, Activate
  <2>9. \A t \in Requests, r \in Reports : ~Report(t, r)
    BY <1>1 DEF Report
  <2>10. ~Busy /\ ~Fail /\ ~Speak /\ ~FallSilent /\ ~LeaseExpires /\ ~UNCHANGED vars
    BY <1>1 DEF Busy, Fail, Speak, FallSilent, LeaseExpires, vars
  <2>11. QED
    BY <1>1, <2>1, <2>2, <2>3, <2>4, <2>5, <2>6, <2>7, <2>8, <2>9, <2>10 DEF Next, Continue
<1>2. IInv /\ [Next]_vars
      => [pending /\ ~pending' => session'.phase \in Terminal \/ ~attached']_vars
  BY <1>1
<1>3. QED
  BY <1>2, Invariance, PTL DEF Spec, FaultIsKept

\* The stored session moves as the lifecycle allows: phases only forward and under higher
\* numbers, terminal phases final, each command decided once.
THEOREM LifecycleIsKept == Spec => ImplementsLifecycle
<1>1. Init => Lifecycle!Init
  BY NewFacts DEF Init, Lifecycle!Init
<1>2. IInv /\ [Next]_vars => [Lifecycle!Step]_<<session.phase, session.seq, session.outcome>>
  <2> SUFFICES ASSUME IInv, [Next]_vars, session' # session PROVE Lifecycle!Step
    OBVIOUS
  <2>1. PICK t \in Tasks : Land(t)
    <3>1. \A t \in Tasks : /\ ~Promoted(t) /\ ~Staged(t) /\ ~Refused(t) /\ ~WriteFails(t)
                           /\ ~Finish(t) /\ ~Applied(t) /\ ~Reported(t) /\ ~Finished(t)
      BY DEF Promoted, Staged, Refused, WriteFails, Abandon, Finish, Applied, Reported, Finished
    <3>2. \A t \in Tasks, c \in Commands : ~Rescue(t, c) /\ ~Activate(t, c)
      BY DEF Rescue, Activate
    <3>3. \A t \in Requests : /\ \A c \in Commands : ~Request(t, c)
                              /\ \A r \in Reports : ~Report(t, r)
      BY DEF Request, Report
    <3>4. /\ ~Busy /\ ~Fail /\ ~Sweep /\ ~Recorded /\ ~Speak /\ ~FallSilent /\ ~LeaseExpires
          /\ ~Restart /\ ~UNCHANGED vars
      BY DEF Busy, Fail, Sweep, Recorded, Speak, FallSilent, LeaseExpires, Restart, vars
    <3>5. QED
      BY <3>1, <3>2, <3>3, <3>4 DEF Next, Continue
  <2>2. session' = write[t] /\ Moves(session, session')
    BY <2>1, WritesMove DEF Land
  <2>3. session' \in Session /\ session \in Session
    BY <2>2 DEF IInv, TypeOK
  <2>4. session'.seq \in Nat /\ session'.outcome \in [Commands -> Outcomes]
    BY <2>3 DEF Session
  <2>5. NextPhases = Lifecycle!NextPhases
    BY DEF NextPhases, Lifecycle!NextPhases
  <2>6. QED
    BY <2>2, <2>4, <2>5 DEF Moves, Outcomes, Lifecycle!Step, Lifecycle!Decided
<1>3. QED
  BY <1>1, <1>2, Invariance, PTL DEF Spec, ImplementsLifecycle, Lifecycle!Spec

(***************************************************************************)
(* A session stored as held, as long as no write failed, no process        *)
(* restarted and no lease was lost.                                        *)
(***************************************************************************)
Intact == faults = 0 /\ losses = 0

\* The task carries a command of the kind that was granted.
Carries(t, kind) ==
  /\ job[t] \in Commands /\ CommandOf[job[t]] = kind /\ write[t].outcome[job[t]] = "applied"

\* The fence goes up before a hold is written, and comes down only for a resume, of which
\* the session that was written is not held.
HeldFence ==
  /\ \A t \in Tasks : pc[t] = "saved" /\ Carries(t, "resume") => ~write[t].held
  /\ Intact =>
       /\ session.held => fence # "none"
       /\ \A t \in Tasks : pc[t] = "saving" /\ Carries(t, "hold") => fence # "none"

\* Only a hold makes a session held, and a resume makes it not held.
LEMMA ChosenHeld ==
  ASSUME NEW s \in Session, NEW c \in Commands, ~Answered(s, c)
  PROVE  LET n == Chosen(s, c)
         IN  /\ n.held /\ ~s.held => CommandOf[c] = "hold" /\ n.outcome[c] = "applied"
             /\ CommandOf[c] = "resume" /\ n.outcome[c] = "applied" => ~n.held
<1> DEFINE n == Chosen(s, c)
<1>1. CASE CommandOf[c] = "start"
  <2>1. n.held = s.held
    BY <1>1 DEF Chosen, Started, Decided, Session
  <2>2. QED
    BY <1>1, <2>1
<1>2. CASE CommandOf[c] # "start" /\ Applicable(s, c)
  <2> DEFINE m == ApplyRescue(s, CommandOf[c])
  <2>1. CommandOf[c] \in Rescues /\ RescueFits(s, CommandOf[c])
    BY <1>2, ConstantsAssumption DEF Applicable
  <2>2. m \in Session /\ m.outcome = s.outcome
    BY <2>1, RescueFacts
  <2>3. n = Decided(m, c, "applied")
    BY <1>2 DEF Chosen, Rescued
  <2>4. m.held <=> (CommandOf[c] = "hold"
                    \/ (s.held /\ CommandOf[c] \notin {"resume", "end", "emergency_end"}))
    BY DEF ApplyRescue, Session
  <2> HIDE DEF m
  <2>5. n.held = m.held /\ n.outcome = [m.outcome EXCEPT ![c] = "applied"]
    BY <2>2, <2>3 DEF Decided, Session
  <2>6. n.outcome[c] = "applied"
    BY <2>2, <2>5 DEF Session
  <2>7. QED
    BY <2>4, <2>5, <2>6
<1>3. CASE CommandOf[c] # "start" /\ ~Applicable(s, c)
  <2>1. n = Decided(s, c, "rejected")
    BY <1>3 DEF Chosen, Rescued
  <2>2. n.held = s.held /\ n.outcome[c] = "rejected"
    BY <2>1 DEF Decided, Session
  <2>3. QED
    BY <2>2
<1>4. QED
  BY <1>1, <1>2, <1>3

\* The same of a write that lands.
LEMMA LandHeld ==
  ASSUME IInv, NEW t \in Tasks, lock = t, pc[t] \in DOMAIN Stored
  PROVE  /\ write[t].held /\ ~session.held => pc[t] = "saving" /\ Carries(t, "hold")
         /\ pc[t] = "saving" /\ Carries(t, "resume") => ~write[t].held
<1>1. BasedAt(t) /\ session \in Session
  BY DEF IInv, Based, TypeOK
<1>2. \A s \in Session : Failed(s).held = s.held /\ Closed(s).held = s.held
  BY DEF Failed, Closed, Session
<1>3. CASE pc[t] = "promoting"
  BY <1>1, <1>2, <1>3 DEF BasedAt
<1>4. CASE pc[t] = "applying"
  <2>1. write[t].held = session.held
    BY <1>1, <1>4 DEF BasedAt, Decided, Session
  <2>2. QED
    BY <1>4, <2>1
<1>5. CASE pc[t] = "saving"
  <2>1. CASE job[t] \in Commands /\ ~Answered(session, job[t]) /\ write[t] = Chosen(session, job[t])
    BY <1>1, <1>5, <2>1, ChosenHeld DEF Carries
  <2>2. CASE job[t] \in {"report", "closing", "record"} /\ write[t].held = session.held
    <3>1. ~Carries(t, "resume")
      BY <2>2, ConstantsAssumption DEF Carries
    <3>2. QED
      BY <2>2, <3>1
  <2>3. \A r \in Reports :
          Apply(session, r.kind, r.phase, r.seq, r.healthy).held = session.held
    BY <1>1 DEF Apply, Session
  <2>4. QED
    BY <1>1, <1>2, <1>5, <2>1, <2>2, <2>3 DEF BasedAt
<1>6. QED
  BY <1>3, <1>4, <1>5 DEF Stored

\* No task comes to its write, and the fence stays if it was up.
LEMMA HeldStays ==
  ASSUME HeldFence, UNCHANGED session,
         \A u \in Tasks : pc'[u] \in {"saving", "saved"} => Same(u),
         Intact' => Intact /\ (fence # "none" => fence' # "none")
  PROVE  HeldFence'
  BY DEF HeldFence, Carries, Same

\* Where a task enters or leaves.
LEMMA ComingAndGoing ==
  ASSUME IInv, NEW t \in Tasks
  PROVE  /\ Leave(t) => \A u \in Tasks : pc'[u] \in {"saving", "saved"} => Same(u)
         /\ \A j, s : \A at \in {"promoting", "staging", "applying"} :
              Intend(t, j, at, s) => \A u \in Tasks : pc'[u] \in {"saving", "saved"} => Same(u)
<1>1. pc \in [Tasks -> PC] /\ job \in [Tasks -> Jobs] /\ write \in [Tasks -> Session]
  BY DEF IInv, TypeOK
<1>2. QED
  BY <1>1 DEF Leave, Rest, Intend, Same

LEMMA HeldStep ==
  ASSUME IInv, HeldFence, [Next]_vars
  PROVE  HeldFence'
<1>1. /\ pc \in [Tasks -> PC] /\ job \in [Tasks -> Jobs] /\ write \in [Tasks -> Session]
      /\ faults \in Nat /\ losses \in Nat
  BY ConstantsAssumption DEF IInv, TypeOK
<1>2. ASSUME NEW t \in Tasks, Land(t) PROVE HeldFence'
  <2>1. /\ lock = t /\ pc[t] \in DOMAIN Stored /\ session' = write[t]
        /\ pc' = [pc EXCEPT ![t] = Stored[pc[t]]]
        /\ UNCHANGED <<job, write, fence, faults, losses>>
    BY <1>2 DEF Land, speech
  <2>2. /\ write[t].held /\ ~session.held => pc[t] = "saving" /\ Carries(t, "hold")
        /\ pc[t] = "saving" /\ Carries(t, "resume") => ~write[t].held
    BY <2>1, LandHeld
  <2>3. /\ pc'[t] = "saved" => pc[t] = "saving"
        /\ pc'[t] # "saving" /\ \A u \in Tasks \ {t} : pc'[u] = pc[u]
    BY <1>1, <2>1 DEF Stored
  <2>4. QED
    BY <2>1, <2>2, <2>3 DEF HeldFence, Carries, Intact
<1>3. ASSUME NEW t \in Tasks, Staged(t) PROVE HeldFence'
  <2>1. /\ pc' = [pc EXCEPT ![t] = "saving"]
        /\ fence' = "held" \/ fence' = fence
        /\ Carries(t, "hold") => fence' = "held"
        /\ UNCHANGED <<session, job, write, faults, losses>>
    BY <1>3 DEF Staged, Carries
  <2>2. pc'[t] = "saving" /\ \A u \in Tasks \ {t} : pc'[u] = pc[u]
    BY <1>1, <2>1
  <2>3. QED
    BY <2>1, <2>2 DEF HeldFence, Carries, Intact
<1>4. ASSUME NEW t \in Tasks, NEW c \in Commands, Rescue(t, c) PROVE HeldFence'
  <2>1. /\ pc[t] = "saved" /\ job[t] = c /\ CommandOf[c] \in Rescues /\ Leave(t)
        /\ UNCHANGED <<session, faults, losses>>
        /\ fence' = fence \/ (fence' = FenceAfter(CommandOf[c]) /\ write[t].outcome[c] = "applied")
    BY <1>4 DEF Rescue
  <2>2. \A u \in Tasks : pc'[u] \in {"saving", "saved"} => Same(u) /\ u # t
    BY <1>1, <2>1 DEF Leave, Rest, Same
  <2>3. CASE Intact
    <3>1. \A u \in Tasks : pc[u] # "idle" => lock = u
      BY <2>3 DEF Intact, IInv, Silence
    <3>2. session = write[t] /\ \A u \in Tasks \ {t} : pc[u] = "idle"
      BY <2>1, <3>1 DEF IInv, Based, BasedAt
    <3>3. \A u \in Tasks : pc'[u] \notin {"saving", "saved"}
      BY <2>2, <3>2 DEF Same
    <3>4. session.held => fence' # "none"
      BY <2>1, <2>3, <3>2 DEF HeldFence, Carries, FenceAfter, Rescues
    <3>5. QED
      BY <2>1, <3>3, <3>4 DEF HeldFence
  <2>4. CASE ~Intact
    <3>1. ~Intact'
      BY <2>1, <2>4 DEF Intact
    <3>2. QED
      BY <2>1, <2>2, <3>1, HeldStays
  <2>5. QED
    BY <2>3, <2>4
<1>5. ASSUME NEW t \in Tasks, Refused(t) \/ WriteFails(t) PROVE HeldFence'
  <2>1. Leave(t) /\ UNCHANGED <<session, losses>>
    BY <1>5 DEF Refused, WriteFails, Abandon
  <2>2. ~Intact'
    <3>1. CASE Refused(t)
      <4>1. pc[t] # "idle" /\ lock # t /\ UNCHANGED losses
        BY <2>1, <3>1 DEF Refused, Stored
      <4>2. losses # 0
        BY <4>1 DEF IInv, Silence
      <4>3. QED
        BY <4>1, <4>2 DEF Intact
    <3>2. CASE WriteFails(t)
      BY <1>1, <3>2 DEF WriteFails, Intact
    <3>3. QED
      BY <1>5, <3>1, <3>2
  <2>3. QED
    BY <2>1, <2>2, ComingAndGoing, HeldStays
<1>6. ASSUME NEW t \in Tasks, NEW c \in Commands,
             Answer(t, c) \/ Prepare(t, c), UNCHANGED <<session, fence, faults, losses>>
      PROVE  HeldFence'
  BY <1>6, ComingAndGoing, HeldStays DEF Answer, Prepare, Intact
<1>7. ASSUME NEW t \in Requests, NEW c \in Commands, Request(t, c) PROVE HeldFence'
  <2>1. t \in Tasks /\ UNCHANGED <<session, fence, faults, losses>>
    BY <1>7 DEF Request, Tasks, speech
  <2>2. CASE Intend(t, c, "promoting", Failed(session))
    BY <2>1, <2>2, ComingAndGoing, HeldStays DEF Intact
  <2>3. QED
    BY <1>6, <1>7, <2>1, <2>2 DEF Request
<1>8. ASSUME NEW t \in Tasks, Promoted(t) PROVE HeldFence'
  <2>1. job[t] \in Commands
    BY <1>8 DEF Promoted, IInv, JobsFit
  <2>2. QED
    BY <1>6, <1>8, <2>1 DEF Promoted, speech
<1>9. ASSUME NEW t \in Tasks, NEW c \in Commands, Activate(t, c) PROVE HeldFence'
  <2>1. UNCHANGED <<session, fence, faults, losses>>
    BY <1>9 DEF Activate
  <2>2. Leave(t) \/ Intend(t, c, "applying", Decided(write[t], c, "applied"))
    BY <1>9 DEF Activate
  <2>3. QED
    BY <2>1, <2>2, ComingAndGoing, HeldStays DEF Intact
<1>10. ASSUME NEW t \in Tasks, Applied(t) \/ Reported(t) \/ Finished(t) PROVE HeldFence'
  <2>1. Leave(t) /\ UNCHANGED <<session, faults, losses>> /\ fence' \in {fence, "ending"}
    BY <1>10 DEF Applied, Reported, Finished, speech
  <2>2. QED
    BY <2>1, ComingAndGoing, HeldStays DEF Intact
<1>11. ASSUME NEW t \in Tasks, Finish(t) PROVE HeldFence'
  <2>1. UNCHANGED <<session, fence, faults, losses>>
    BY <1>11 DEF Finish, speech
  <2>2. Intend(t, "closing", "staging", Closed(session)) \/ UNCHANGED task
    BY <1>11 DEF Finish
  <2>3. CASE UNCHANGED task
    BY <2>1, <2>3, HeldStays DEF Intact, task, Same
  <2>4. QED
    BY <2>1, <2>2, <2>3, ComingAndGoing, HeldStays DEF Intact
<1>12. ASSUME NEW t \in Requests, NEW r \in Reports, Report(t, r) PROVE HeldFence'
  <2>1. /\ t \in Tasks /\ UNCHANGED <<session, fence, faults, losses>>
        /\ Intend(t, "report", "staging", Apply(session, r.kind, r.phase, r.seq, r.healthy))
    BY <1>12 DEF Report, Tasks, speech
  <2>2. QED
    BY <2>1, ComingAndGoing, HeldStays DEF Intact
<1>13. CASE Sweep \/ Recorded
  <2>1. Recorder \in Tasks /\ UNCHANGED <<session, fence, faults, losses>>
    BY <1>13 DEF Sweep, Recorded, Tasks, speech
  <2>2. \/ Leave(Recorder) \/ UNCHANGED task
        \/ Intend(Recorder, "record", "staging", Failed(session))
    BY <1>13 DEF Sweep, Recorded
  <2>3. CASE UNCHANGED task
    BY <2>1, <2>3, HeldStays DEF Intact, task, Same
  <2>4. QED
    BY <2>1, <2>2, <2>3, ComingAndGoing, HeldStays DEF Intact
<1>14. CASE Busy \/ Fail \/ Speak \/ FallSilent \/ UNCHANGED vars
  <2>1. UNCHANGED <<session, task, faults, losses>> /\ fence' \in {fence, "ending"}
    BY <1>14 DEF Busy, Fail, Speak, FallSilent, vars, speech
  <2>2. QED
    BY <2>1, HeldStays DEF Intact, task, Same
<1>15. CASE LeaseExpires \/ Restart
  <2>1. ~Intact' /\ UNCHANGED session
    BY <1>1, <1>15 DEF LeaseExpires, Restart, Intact
  <2>2. \A u \in Tasks : pc'[u] \in {"saving", "saved"} => Same(u)
    BY <1>15 DEF LeaseExpires, Restart, task, Same
  <2>3. QED
    BY <2>1, <2>2, HeldStays
<1>16. QED
  BY <1>2, <1>3, <1>4, <1>5, <1>7, <1>8, <1>9, <1>10, <1>11, <1>12, <1>13, <1>14, <1>15
  DEF Next, Continue

\* A turn starts only by Speak, which looks at the fence.
LEMMA OnlySpeakStarts ==
  ASSUME [Next]_vars, ~turn, turn'
  PROVE  fence = "none" /\ UNCHANGED <<faults, losses>>
<1>1. CASE Speak
  BY <1>1 DEF Speak
<1>2. \A t \in Tasks : /\ ~Promoted(t) /\ ~Staged(t) /\ ~Land(t) /\ ~Refused(t) /\ ~WriteFails(t)
                       /\ ~Finish(t) /\ ~Applied(t) /\ ~Reported(t) /\ ~Finished(t)
  BY DEF Promoted, Staged, Land, Refused, WriteFails, Abandon, Finish, Applied, Reported,
     Finished, speech
<1>3. \A t \in Tasks, c \in Commands : ~Rescue(t, c) /\ ~Activate(t, c)
  BY DEF Rescue, Activate
<1>4. \A t \in Requests : /\ \A c \in Commands : ~Request(t, c)
                          /\ \A r \in Reports : ~Report(t, r)
  BY DEF Request, Report, speech
<1>5. /\ ~Busy /\ ~Fail /\ ~Sweep /\ ~Recorded /\ ~FallSilent /\ ~LeaseExpires
      /\ ~Restart /\ ~UNCHANGED vars
  BY DEF Busy, Fail, Sweep, Recorded, FallSilent, LeaseExpires, Restart, vars, speech
<1>6. QED
  BY <1>1, <1>2, <1>3, <1>4, <1>5 DEF Next, Continue

\* Until the first failed write, restart or lost lease no turn starts while the session is
\* stored as held.
HeldUntilAFault == [][Intact /\ session.held /\ ~turn => ~turn']_vars

\* A hold that no fault disturbs keeps its session silent, whatever other requests,
\* commands and reports race with it.
THEOREM HeldStaysSilent == Spec => HeldUntilAFault
<1>1. Init => HeldFence
  BY DEF Init, HeldFence, NewSession
<1>2. IInv /\ HeldFence /\ [Next]_vars => HeldFence'
  BY HeldStep
<1>3. IInv /\ HeldFence /\ [Next]_vars => [Intact /\ session.held /\ ~turn => ~turn']_vars
  BY OnlySpeakStarts DEF HeldFence
<1>4. QED
  BY <1>1, <1>2, <1>3, Invariance, PTL DEF Spec, HeldUntilAFault

\* In an execution without them a session stored as held never starts a turn.
THEOREM HoldsAreSilent ==
  ASSUME MaxFaults = 0, MaxLosses = 0
  PROVE  Spec => HeldIsSilent
<1>1. IInv => Intact
  BY DEF IInv, TypeOK, Intact
<1>2. Intact /\ [Intact /\ session.held /\ ~turn => ~turn']_vars
      => [session.held /\ ~turn => ~turn']_vars
  OBVIOUS
<1>3. QED
  BY <1>1, <1>2, Invariance, HeldStaysSilent, PTL DEF HeldUntilAFault, HeldIsSilent
=============================================================================
