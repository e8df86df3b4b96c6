------------------------------ MODULE Execution ------------------------------
(***************************************************************************)
(* The control of one execution by one runtime process                     *)
(* (api/v1/execution.py, application/runtime_failures.py): rescue commands *)
(* and the start, evidence reports, the completion of closing, and fatal   *)
(* faults.  Each is a task that takes the session's lease lock, reads the  *)
(* session, writes it back with a fenced write and then acts on the speech *)
(* in memory.  A reply may be lost after its write landed, a lease may run *)
(* out in the middle of a task, and the process may restart, which keeps   *)
(* the stored session and nothing else.                                    *)
(***************************************************************************)
EXTENDS ExecutionContract, FiniteSets

CONSTANTS
  Commands,         \* command ids
  CommandOf,        \* what each of them asks for; one of them is the start
  Requests,         \* request tasks: API calls in progress at the same time
  Closer,           \* the task that completes closing
  Recorder,         \* the sweep that records a fatal fault
  Free,             \* nobody holds the session lock
  ClosingAttempts,  \* attempts of the closing task before it parks
  Reports,          \* evidence of the API, each sent any number of times in any order
  MaxFaults,        \* bound: lost or failed writes, and restarts
  MaxLosses         \* bound: leases that run out under a task

Tasks == Requests \cup {Closer, Recorder}

ASSUME ConstantsAssumption ==
  /\ CommandOf \in [Commands -> Rescues \cup {"start"}]
  /\ Commands \cap {"none", "report", "closing", "record"} = {}
  /\ Closer \notin Requests /\ Recorder \notin Requests /\ Closer # Recorder
  /\ Free \notin Tasks
  /\ Reports \subseteq [kind : Kinds, phase : Phases, seq : Nat, healthy : BOOLEAN]
  /\ ClosingAttempts \in Nat \ {0}
  /\ MaxFaults \in Nat /\ MaxLosses \in Nat

VARIABLES
  session,    \* the stored session
  lock,       \* the task whose lease the store honours
  pc, job,    \* where each task is, and what it is for
  write,      \* the session it writes
  prior,      \* the fence a hold found before it set its own
  fence,      \* speech fence: "none", "held", "closing" or "ending"
  broken,     \* speech is refused since a fatal fault
  pending,    \* a fatal fault that is not recorded yet
  attached,   \* the coordinator drives the session
  activated, aired,  \* the opening is scheduled; some of it was played
  turn,       \* an utterance is being played
  closing,    \* attempts the closing task has left; 0: no task
  silenced,   \* history: an end took effect in this process
  effects,    \* history: how often each command took effect
  faults, losses

task == <<pc, job, write, prior>>
speech == <<fence, broken, activated, aired, turn, silenced>>
vars == <<session, lock, task, speech, pending, attached, closing, effects, faults, losses>>

Outcomes == {"none", "accepted", "applied", "rejected"}

Session ==
  [phase : Phases, seq : Nat, ready : BOOLEAN, healthy : BOOLEAN, start : BOOLEAN,
   live : BOOLEAN, held : BOOLEAN, outcome : [Commands -> Outcomes]]

NewSession ==
  [phase |-> "preparing", seq |-> 0, ready |-> FALSE, healthy |-> TRUE, start |-> FALSE,
   live |-> FALSE, held |-> FALSE, outcome |-> [c \in Commands |-> "none"]]

Jobs == Commands \cup {"none", "report", "closing", "record"}

\* promoting: a command first records a pending fault. staging: between its
\* decision and its write. applying: the second write of a start.
PC == {"idle", "promoting", "promoted", "staging", "saving", "saved", "applying", "applied"}

Init ==
  /\ session = NewSession /\ lock = Free
  /\ pc = [t \in Tasks |-> "idle"] /\ job = [t \in Tasks |-> "none"]
  /\ write = [t \in Tasks |-> NewSession] /\ prior = [t \in Tasks |-> "none"]
  /\ fence = "none" /\ broken = FALSE /\ pending = FALSE /\ attached = TRUE
  /\ activated = FALSE /\ aired = FALSE /\ turn = FALSE /\ closing = 0
  /\ silenced = FALSE /\ effects = [c \in Commands |-> 0]
  /\ faults = 0 /\ losses = 0

(***************************************************************************)
(* Tasks.  A task enters by taking the lock and reading the session; it    *)
(* leaves by giving the lock back, if it still has it.                     *)
(***************************************************************************)
Release(t) == lock' = IF lock = t THEN Free ELSE lock

Rest(t) ==
  /\ pc' = [pc EXCEPT ![t] = "idle"] /\ job' = [job EXCEPT ![t] = "none"]
  /\ write' = [write EXCEPT ![t] = NewSession] /\ prior' = [prior EXCEPT ![t] = "none"]

Leave(t) == Release(t) /\ Rest(t)

\* The task goes on with the session it is going to write.
Intend(t, j, at, state) ==
  /\ pc' = [pc EXCEPT ![t] = at] /\ job' = [job EXCEPT ![t] = j]
  /\ write' = [write EXCEPT ![t] = state] /\ UNCHANGED prior

(***************************************************************************)
(* Decisions: the session each kind of task writes, from the one it read.  *)
(***************************************************************************)
Decided(state, c, o) == [state EXCEPT !.outcome[c] = o]

\* Hold and resume also need the coordinator.
Applicable(state, c) ==
  /\ RescueFits(state, CommandOf[c])
  /\ CommandOf[c] \in {"hold", "resume"} => attached

\* A rescue command is stored with its outcome, a refused one too.
Rescued(state, c) ==
  IF Applicable(state, c) THEN Decided(ApplyRescue(state, CommandOf[c]), c, "applied")
  ELSE Decided(state, c, "rejected")

\* The checks of a start, on the stored session and on this process.
Startable(state) ==
  state.phase = "ready" /\ state.ready /\ state.healthy /\ attached

Started(state, c) == [Decided(state, c, "accepted") EXCEPT !.start = TRUE]

\* Mutant: a rescue is not looked up among the outcomes.
AnswersStarts(state, c) ==
  CommandOf[c] = "start" /\ (state.outcome[c] # "none" \/ ~Startable(state))

\* A command that writes nothing: it is replayed, or is a start that may not
\* begin, which is refused without a trace.
Answered(state, c) ==
  state.outcome[c] # "none" \/ (CommandOf[c] = "start" /\ ~Startable(state))

Chosen(state, c) == IF CommandOf[c] = "start" THEN Started(state, c) ELSE Rescued(state, c)

\* A replayed rescue finds closing without its task, and starts the task again.
Restarts(state, c) ==
  /\ CommandOf[c] # "start" /\ state.outcome[c] # "none"
  /\ state.phase = "closing" /\ closing = 0

Failed(state) == [state EXCEPT !.phase = "failed", !.seq = @ + 1]

Closed(state) == [state EXCEPT !.phase = "ending", !.seq = @ + 1]

(***************************************************************************)
(* request_execution_command.                                              *)
(***************************************************************************)
Answer(t, c) ==
  /\ Answered(session, c) /\ Leave(t)
  /\ closing' = IF Restarts(session, c) THEN ClosingAttempts ELSE closing

Prepare(t, c) ==
  /\ ~Answered(session, c) /\ Intend(t, c, "staging", Chosen(session, c))
  /\ UNCHANGED closing

\* A pending fault that can still be recorded goes first.
Request(t, c) ==
  /\ t \in Requests /\ pc[t] = "idle" /\ lock = Free
  /\ IF pending /\ session.phase \notin Terminal
     THEN /\ Intend(t, c, "promoting", Failed(session)) /\ lock' = t
          /\ UNCHANGED <<pending, closing>>
     ELSE /\ Answer(t, c) \/ (Prepare(t, c) /\ lock' = t)
          /\ pending' = FALSE
  /\ UNCHANGED <<session, speech, attached, effects, faults, losses>>

\* The fault is stored; the command is decided on what is stored now.
Promoted(t) ==
  /\ pc[t] = "promoted" /\ pending' = FALSE
  /\ Answer(t, job[t]) \/ (Prepare(t, job[t]) /\ UNCHANGED lock)
  /\ UNCHANGED <<session, speech, attached, effects, faults, losses>>

\* The usage facts are staged. A hold now sets its fence, ahead of the write.
Staged(t) ==
  /\ pc[t] = "staging" /\ pc' = [pc EXCEPT ![t] = "saving"]
  /\ IF job[t] \in Commands /\ CommandOf[job[t]] = "hold" /\ write[t].outcome[job[t]] = "applied"
     THEN prior' = [prior EXCEPT ![t] = fence] /\ fence' = "held"
     ELSE UNCHANGED <<prior, fence>>
  /\ UNCHANGED <<session, lock, job, write, broken, pending, attached, activated, aired, turn,
                 closing, silenced, effects, faults, losses>>

(***************************************************************************)
(* The fenced write (_save).                                               *)
(***************************************************************************)
Stored == [promoting |-> "promoted", saving |-> "saved", applying |-> "applied"]

\* Mutant: the write does not look at the lease.
LandUnfenced(t) ==
  /\ pc[t] \in DOMAIN Stored
  /\ session' = write[t] /\ pc' = [pc EXCEPT ![t] = Stored[pc[t]]]
  /\ UNCHANGED <<lock, job, write, prior, speech, pending, attached, closing, effects,
                 faults, losses>>

Land(t) ==
  /\ pc[t] \in DOMAIN Stored /\ lock = t
  /\ session' = write[t] /\ pc' = [pc EXCEPT ![t] = Stored[pc[t]]]
  /\ UNCHANGED <<lock, job, write, prior, speech, pending, attached, closing, effects,
                 faults, losses>>

\* A hold whose write failed puts the fence back that it found.
Restored(t) ==
  IF job[t] \in Commands /\ pc[t] \in {"saving", "saved"} /\ CommandOf[job[t]] = "hold"
     /\ write[t].outcome[job[t]] = "applied"
  THEN prior[t] ELSE fence

\* Mutant: the sweep forgets a fault whose attempt failed.
AbandonAndDrop(t) ==
  /\ Leave(t) /\ fence' = Restored(t) /\ pending' = (pending /\ t # Recorder)
  /\ closing' = IF t = Closer /\ closing > 0 THEN closing - 1 ELSE closing
  /\ UNCHANGED <<session, broken, attached, activated, aired, turn, silenced, effects, losses>>

\* The task ends with an error; the closing task counts an attempt.
Abandon(t) ==
  /\ Leave(t) /\ fence' = Restored(t)
  /\ closing' = IF t = Closer /\ closing > 0 THEN closing - 1 ELSE closing
  /\ UNCHANGED <<session, broken, pending, attached, activated, aired, turn, silenced,
                 effects, losses>>

\* The lease is no longer the task's: the write is refused.
Refused(t) == pc[t] \in DOMAIN Stored /\ lock # t /\ Abandon(t) /\ UNCHANGED faults

\* The usage facts cannot be staged, the write fails, or its reply is lost
\* after it landed.
WriteFails(t) ==
  /\ pc[t] \in DOMAIN Stored \cup {"staging", "saved", "promoted", "applied"} /\ faults < MaxFaults
  /\ Abandon(t) /\ faults' = faults + 1

(***************************************************************************)
(* After the write: the effect, still under the lock if the lease lasted.  *)
(***************************************************************************)
Counted(c) == effects' = [effects EXCEPT ![c] = @ + 1]

\* _apply_rescue_effect: fences speech, or lifts the fence, and cuts the turn.
FenceAfter(command) ==
  [hold |-> "held", resume |-> "none", interrupt |-> fence,
   end |-> "closing", emergency_end |-> "ending"][command]

Cuts(command) == command \in {"interrupt", "end", "emergency_end"}

Rescue(t, c) ==
  /\ pc[t] = "saved" /\ job[t] = c /\ CommandOf[c] \in Rescues
  /\ IF write[t].outcome[c] = "applied"
     THEN /\ fence' = FenceAfter(CommandOf[c]) /\ turn' = (turn /\ ~Cuts(CommandOf[c]))
          /\ silenced' = (silenced \/ CommandOf[c] \in {"end", "emergency_end"})
          /\ closing' = IF CommandOf[c] = "end" THEN ClosingAttempts ELSE closing
          /\ Counted(c)
     ELSE UNCHANGED <<fence, turn, silenced, closing, effects>>
  /\ Leave(t)
  /\ UNCHANGED <<session, broken, activated, aired, pending, attached, faults, losses>>

\* _request_start: one opening is scheduled, and the outcome is written again;
\* a coordinator that went away leaves the start accepted.
Activate(t, c) ==
  /\ pc[t] = "saved" /\ job[t] = c /\ CommandOf[c] = "start"
  /\ IF attached
     THEN /\ Intend(t, c, "applying", Decided(write[t], c, "applied")) /\ UNCHANGED lock
          /\ activated' = TRUE /\ Counted(c)
     ELSE Leave(t) /\ UNCHANGED <<activated, effects>>
  /\ UNCHANGED <<session, fence, broken, aired, turn, silenced, pending, attached, closing,
                 faults, losses>>

Applied(t) ==
  /\ pc[t] = "applied" /\ Leave(t)
  /\ UNCHANGED <<session, speech, pending, attached, closing, effects, faults, losses>>

(***************************************************************************)
(* record_execution_evidence: the API reports what it saw, under a number  *)
(* it chose.  The first broadcast needs the media receipt of the opening.  *)
(***************************************************************************)
Report(t, r) ==
  /\ t \in Requests /\ pc[t] = "idle" /\ lock = Free /\ lock' = t
  /\ Accepts(session, r.kind, r.phase, r.seq)
  /\ r.kind = "first_ai_broadcast" => aired
  /\ r.kind = "runtime_ready" => attached
  /\ Intend(t, "report", "staging", Apply(session, r.kind, r.phase, r.seq, r.healthy))
  /\ UNCHANGED <<session, speech, pending, attached, closing, effects, faults, losses>>

Reported(t) ==
  /\ pc[t] = "saved" /\ job[t] = "report" /\ Leave(t)
  /\ UNCHANGED <<session, speech, pending, attached, closing, effects, faults, losses>>

(***************************************************************************)
(* _finish_closing_once, by the closing task or by a read of the session   *)
(* that finds closing and no task (get_execution).                         *)
(***************************************************************************)
\* Mutant: a read does not complete a closing whose task is gone.
FinishByTask(t) ==
  /\ t = Closer /\ pc[t] = "idle" /\ lock = Free /\ closing > 0
  /\ IF session.phase = "closing"
     THEN lock' = t /\ Intend(t, "closing", "staging", Closed(session)) /\ UNCHANGED closing
     ELSE closing' = 0 /\ UNCHANGED <<lock, task>>
  /\ UNCHANGED <<session, speech, pending, attached, effects, faults, losses>>

Finish(t) ==
  /\ pc[t] = "idle" /\ lock = Free
  /\ IF t = Closer THEN closing > 0 ELSE t \in Requests /\ closing = 0 /\ session.phase = "closing"
  /\ IF session.phase = "closing"
     THEN lock' = t /\ Intend(t, "closing", "staging", Closed(session)) /\ UNCHANGED closing
     ELSE closing' = 0 /\ UNCHANGED <<lock, task>>
  /\ UNCHANGED <<session, speech, pending, attached, effects, faults, losses>>

Finished(t) ==
  /\ pc[t] = "saved" /\ job[t] = "closing" /\ Leave(t)
  /\ fence' = "ending" /\ closing' = IF t = Closer THEN 0 ELSE closing
  /\ UNCHANGED <<session, broken, activated, aired, turn, silenced, pending, attached, effects,
                 faults, losses>>

\* Mutant: an attempt is taken off a task that parked.
BusyParked ==
  /\ pc[Closer] = "idle" /\ lock # Free /\ closing' = closing - 1
  /\ UNCHANGED <<session, lock, task, speech, pending, attached, effects, faults, losses>>

\* The closing task gives up waiting for the lock: one attempt less.
Busy ==
  /\ pc[Closer] = "idle" /\ closing > 0 /\ lock # Free /\ closing' = closing - 1
  /\ UNCHANGED <<session, lock, task, speech, pending, attached, effects, faults, losses>>

(***************************************************************************)
(* RuntimeFailures: a fatal fault fences speech at once, and its record is *)
(* retried by the sweep until it is stored.                                *)
(***************************************************************************)
Fail ==
  /\ attached /\ ~pending /\ pending' = TRUE
  /\ fence' = "ending" /\ broken' = TRUE /\ turn' = FALSE /\ activated' = FALSE
  /\ UNCHANGED <<session, lock, task, aired, silenced, attached, closing, effects, faults, losses>>

Sweep ==
  /\ pending /\ pc[Recorder] = "idle" /\ lock = Free
  /\ IF session.phase \notin Terminal
     THEN lock' = Recorder /\ Intend(Recorder, "record", "staging", Failed(session))
          /\ UNCHANGED pending
     ELSE pending' = FALSE /\ UNCHANGED <<lock, task>>
  /\ UNCHANGED <<session, speech, attached, closing, effects, faults, losses>>

Recorded ==
  /\ pc[Recorder] = "saved" /\ Leave(Recorder) /\ pending' = FALSE
  /\ UNCHANGED <<session, speech, attached, closing, effects, faults, losses>>

(***************************************************************************)
(* Speech, as far as control decides about it: a turn starts only past the *)
(* fence, and only after the start.                                        *)
(***************************************************************************)
Speak ==
  /\ attached /\ activated /\ ~turn /\ fence = "none" /\ ~broken
  /\ turn' = TRUE /\ aired' = TRUE
  /\ UNCHANGED <<session, lock, task, fence, broken, activated, silenced, pending, attached,
                 closing, effects, faults, losses>>

FallSilent ==
  /\ turn /\ turn' = FALSE
  /\ UNCHANGED <<session, lock, task, fence, broken, activated, aired, silenced, pending,
                 attached, closing, effects, faults, losses>>

(***************************************************************************)
(* The environment.                                                        *)
(***************************************************************************)
LeaseExpires ==
  /\ lock # Free /\ losses < MaxLosses /\ losses' = losses + 1 /\ lock' = Free
  /\ UNCHANGED <<session, task, speech, pending, attached, closing, effects, faults>>

\* The process restarts: it has no coordinator for the session any more.
Restart ==
  /\ faults < MaxFaults /\ faults' = faults + 1 /\ lock' = Free
  /\ pc' = [t \in Tasks |-> "idle"] /\ job' = [t \in Tasks |-> "none"]
  /\ write' = [t \in Tasks |-> NewSession] /\ prior' = [t \in Tasks |-> "none"]
  /\ fence' = "none" /\ broken' = FALSE /\ pending' = FALSE /\ attached' = FALSE
  /\ activated' = FALSE /\ aired' = FALSE /\ turn' = FALSE /\ closing' = 0 /\ silenced' = FALSE
  /\ UNCHANGED <<session, effects, losses>>

Continue(t) ==
  \/ Promoted(t) \/ Staged(t) \/ Land(t) \/ Refused(t)
  \/ \E c \in Commands : Rescue(t, c) \/ Activate(t, c)
  \/ Applied(t) \/ Reported(t) \/ Finished(t)

Next ==
  \/ \E t \in Tasks : Continue(t) \/ WriteFails(t) \/ Finish(t)
  \/ \E t \in Requests, c \in Commands : Request(t, c)
  \/ \E t \in Requests, r \in Reports : Report(t, r)
  \/ Busy \/ Fail \/ Sweep \/ Recorded \/ Speak \/ FallSilent \/ LeaseExpires \/ Restart

(***************************************************************************)
(* Tasks run on, the sweep runs, and the API reads a session it sees       *)
(* closing; the lock is short, so whoever keeps asking for it gets it.     *)
(***************************************************************************)
Fairness ==
  /\ \A t \in Tasks : WF_vars(Continue(t))
  /\ SF_vars(Finish(Closer)) /\ SF_vars(\E t \in Requests : Finish(t))
  /\ SF_vars(Sweep) /\ WF_vars(Recorded)

Spec == Init /\ [][Next]_vars /\ Fairness
-----------------------------------------------------------------------------
TypeOK ==
  /\ session \in Session /\ lock \in Tasks \cup {Free}
  /\ pc \in [Tasks -> PC] /\ job \in [Tasks -> Jobs] /\ write \in [Tasks -> Session]
  /\ prior \in [Tasks -> {"none", "held", "closing", "ending"}]
  /\ fence \in {"none", "held", "closing", "ending"}
  /\ broken \in BOOLEAN /\ pending \in BOOLEAN /\ attached \in BOOLEAN
  /\ activated \in BOOLEAN /\ aired \in BOOLEAN /\ turn \in BOOLEAN
  /\ closing \in 0..ClosingAttempts /\ silenced \in BOOLEAN
  /\ effects \in [Commands -> Nat] /\ faults \in 0..MaxFaults /\ losses \in 0..MaxLosses

\* A command takes effect at most once, whatever is retried, lost or restarted,
\* and only after the stored session says so.
OneEffectPerCommand ==
  \A c \in Commands :
    /\ effects[c] <= 1
    /\ effects[c] = 1 => session.outcome[c] \in {"accepted", "applied"}

\* Once an end took effect no turn starts any more: the fence stays up against
\* the effects of holds, resumes and failed writes that were on their way.
EndIsSilent == losses = 0 /\ silenced => fence # "none"

\* The API is told of a first broadcast only when the opening of the accepted
\* start was scheduled, once.
LiveMeansOpened ==
  session.live =>
    \E c \in Commands : CommandOf[c] = "start" /\ session.outcome[c] # "none" /\ effects[c] = 1

\* A fatal fault is given up only with the session stored as over, or with the
\* process that saw it.
FaultIsKept ==
  [][pending /\ ~pending' => session'.phase \in Terminal \/ ~attached']_vars

\* Closing ends: by its task, or after a restart by the next read.
ClosingEnds == session.phase = "closing" ~> session.phase # "closing"

\* A session stored as held starts no turn.
HeldIsSilent == [][session.held /\ ~turn => ~turn']_vars

Lifecycle == INSTANCE ExecutionLifecycle
  WITH phase <- session.phase, number <- session.seq, outcome <- session.outcome

\* The stored session moves as the execution contract promises, although tasks
\* write sessions they read earlier.
ImplementsLifecycle == Lifecycle!Spec
=============================================================================
