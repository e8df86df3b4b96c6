-------------------------- MODULE ExecutionContract --------------------------
(***************************************************************************)
(* The pure rules of one execution (application/execution_contract.py):    *)
(* its phases, which evidence and which commands a state accepts, and what *)
(* they make of it.                                                        *)
(***************************************************************************)
EXTENDS Integers

Phases == {"preparing", "ready", "warming", "selling", "closing", "ending", "ended", "failed"}

Terminal == {"ended", "failed"}

\* The phases a state may go to next.
NextPhases ==
  [preparing |-> {"ready", "ending", "failed"},
   ready |-> {"warming", "ending", "failed"},
   warming |-> {"selling", "closing", "ending", "failed"},
   selling |-> {"closing", "ending", "failed"},
   closing |-> {"ending", "failed"},
   ending |-> {"ended", "failed"},
   ended |-> {},
   failed |-> {}]

Kinds == {"runtime_ready", "first_ai_broadcast", "health", "phase_changed"}

\* What evidence of a kind asks of the state besides its phase and number; a
\* second runtime_ready renews the media readiness, only before the start.
KindFits(state, kind, phase) ==
  CASE kind = "runtime_ready" ->
         /\ phase = "ready"
         /\ state.phase = "preparing" \/ (state.phase = "ready" /\ state.ready /\ ~state.start)
    [] kind = "first_ai_broadcast" ->
         state.ready /\ phase \in {"warming", "selling"} /\ state.start /\ ~state.live
    [] kind = "health" -> phase = state.phase
    [] kind = "phase_changed" -> phase \in {"ready", "warming", "selling"} => state.ready

Accepts(state, kind, phase, seq) ==
  /\ seq > state.seq /\ state.phase \notin Terminal /\ KindFits(state, kind, phase)
  /\ phase # state.phase => phase \in NextPhases[state.phase]

Apply(state, kind, phase, seq, healthy) ==
  [state EXCEPT
     !.phase = phase, !.seq = seq,
     !.ready = @ \/ kind = "runtime_ready",
     !.live = @ \/ kind = "first_ai_broadcast",
     !.healthy = IF kind = "health" THEN healthy ELSE @]

Rescues == {"hold", "resume", "interrupt", "end", "emergency_end"}

RescuePhases ==
  [hold |-> {"warming", "selling"},
   resume |-> {"warming", "selling"},
   interrupt |-> {"warming", "selling", "closing"},
   end |-> {"warming", "selling"},
   emergency_end |-> {"warming", "selling", "closing"}]

\* Mutant: the phase is not asked for.
FitsAnyPhase(state, command) ==
  /\ state.phase \notin Terminal
  /\ command = "hold" => ~state.held
  /\ command = "resume" => state.held

\* The command is within its phases, and a hold or a resume changes something.
RescueFits(state, command) ==
  /\ state.phase \in RescuePhases[command]
  /\ command = "hold" => ~state.held
  /\ command = "resume" => state.held

ApplyRescue(state, command) ==
  [state EXCEPT
     !.seq = @ + 1,
     !.held = IF command = "hold" THEN TRUE
              ELSE @ /\ command \notin {"resume", "end", "emergency_end"},
     !.phase = IF command = "end" THEN "closing"
               ELSE IF command = "emergency_end" THEN "ending" ELSE @]
=============================================================================
