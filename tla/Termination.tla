----------------------------- MODULE Termination -----------------------------
(***************************************************************************)
(* How an execution is brought to its end: the budget lease watcher        *)
(* (application/budget_lease.py), the stop of a session (api/v1/           *)
(* sessions.py, terminal_guard.py), the avatar monitor (avatar_lifecycle.  *)
(* py), and the terminal record (terminal_outcomes.py).  A stop releases   *)
(* the media, stores the record, stages the usage fact that is still owed  *)
(* and only then deletes the session; each of these may fail, be cut off   *)
(* by a deadline, or lose its reply, and what is left over is found again  *)
(* by the next stop or by the watcher.  Commands and lease renewals are    *)
(* single steps here: their own steps are those of Execution.              *)
(***************************************************************************)
EXTENDS Integers

CONSTANTS
  Watcher,      \* the lease watcher
  Monitor,      \* the avatar monitor
  Api,          \* stop requests of the API, one at a time
  Free,         \* nobody holds the session lock
  NoSession,    \* the session is deleted
  NoRecord,     \* no terminal record is stored, or built
  MaxCleanups,  \* teardowns tried before their failure is recorded
  UnstageableAfter,  \* refusals after which a fact is left to an operator
  MaxFaults,    \* bound: failures, cut-offs and restarts
  MaxLosses     \* bound: leases on the session lock that run out under a task

Tasks == {Watcher, Monitor, Api}

ASSUME ConstantsAssumption ==
  /\ Watcher # Monitor /\ Watcher # Api /\ Monitor # Api /\ Free \notin Tasks
  /\ MaxCleanups \in Nat \ {0} /\ UnstageableAfter \in Nat \ {0}
  /\ MaxFaults \in Nat /\ MaxLosses \in Nat

VARIABLES
  session,  \* the stored session, with its markers
  record,   \* the terminal record of the execution
  lock,
  pc, seen, \* where each task is, and the record it built
  media,    \* the avatar runs, and somebody pays for it
  receipt,  \* what this process knows of the release of the media
  lease,    \* the stored budget lease, by the clock: "none", "paid" or "spent"
  sick,     \* the monitor has a reason to stop the avatar
  owed,     \* history: a lease ended the execution and its fact is not staged
  faults, losses

vars == <<session, record, lock, pc, seen, media, receipt, lease, sick, owed, faults, losses>>

Session ==
  [phase : {"live", "ending", "failed"},    \* ending: an end was applied
   ended : BOOLEAN,
   cause : {"none", "control_lost", "media_failed"},
   mark : {"none", "pending", "settling"},  \* what the watcher still has to do
   fact : BOOLEAN,                          \* a terminal usage fact not staged yet
   refusals : 0..UnstageableAfter,          \* times it was refused for good (422)
   flag : BOOLEAN,                          \* a stop tore down and could not finish
   attempts : 0..MaxCleanups]

Record ==
  [outcome : {"ended", "control_lost", "media_failed", "runtime_lost"},
   cleanup : {"succeeded", "failed", "pending"}]

\* The values that stand for the lack of a session or a record are neither.
ASSUME NullsAssumption == NoSession \notin Session /\ NoRecord \notin Record

PC == {"idle", "expire", "save", "inline", "settle", "release", "enter", "locked", "teardown",
       "persist", "keep", "delete"}

Init ==
  /\ session = [phase |-> "live", ended |-> FALSE, cause |-> "none", mark |-> "none",
                fact |-> FALSE, refusals |-> 0, flag |-> FALSE, attempts |-> 0]
  /\ record = NoRecord /\ lock = Free
  /\ pc = [t \in Tasks |-> "idle"] /\ seen = [t \in Tasks |-> NoRecord]
  /\ media = TRUE /\ receipt = "none" /\ lease = "none" /\ sick = FALSE /\ owed = FALSE
  /\ faults = 0 /\ losses = 0

Exists == session # NoSession

Expired == lease = "spent"

\* The fact is marked unstageable: nobody tries it again, the session waits for an operator.
Parked == Exists /\ session.fact /\ session.refusals = UnstageableAfter

Goto(t, at) == pc' = [pc EXCEPT ![t] = at] /\ UNCHANGED seen

\* The task ends or gives up; it frees the lock if it still has it.
Leave(t) ==
  /\ pc' = [pc EXCEPT ![t] = "idle"] /\ seen' = [seen EXCEPT ![t] = NoRecord]
  /\ lock' = IF lock = t THEN Free ELSE lock

Fault == faults < MaxFaults /\ faults' = faults + 1

\* A fenced write: it changes the session only under the lock.
Marked(t, s) == session' = IF Exists /\ lock = t THEN s ELSE session

(***************************************************************************)
(* build_terminal_record: only what the stored session proves; a session   *)
(* that is gone yields runtime_lost.                                       *)
(***************************************************************************)
OutcomeNow(default) ==
  IF ~Exists THEN "runtime_lost"
  ELSE IF session.ended /\ session.phase # "failed" THEN "ended"
  ELSE IF session.cause # "none" THEN session.cause ELSE default

(***************************************************************************)
(* The lease watcher: it looks without the lock and decides under it.      *)
(***************************************************************************)
Check ==
  /\ pc[Watcher] = "idle" /\ Exists
  /\ \/ session.phase = "failed" /\ session.mark = "pending" /\ Goto(Watcher, "release")
     \/ session.phase = "failed" /\ session.mark = "settling" /\ Goto(Watcher, "settle")
     \/ session.phase = "live" /\ Expired /\ Goto(Watcher, "expire")
  /\ UNCHANGED <<session, record, lock, media, receipt, lease, sick, owed, faults, losses>>

\* Mutant: what the watcher saw before it got the lock decides.
ExpireUnchecked ==
  /\ pc[Watcher] = "expire" /\ lock = Free
  /\ IF Exists /\ session.phase = "live"
     THEN lock' = Watcher /\ Goto(Watcher, "save")
     ELSE UNCHANGED lock /\ Goto(Watcher, "idle")
  /\ UNCHANGED <<session, record, media, receipt, lease, sick, owed, faults, losses>>

\* A renewal, an end or a stop may have come first.
Expire ==
  /\ pc[Watcher] = "expire" /\ lock = Free
  /\ IF Exists /\ session.phase = "live" /\ Expired
     THEN lock' = Watcher /\ Goto(Watcher, "save")
     ELSE UNCHANGED lock /\ Goto(Watcher, "idle")
  /\ UNCHANGED <<session, record, media, receipt, lease, sick, owed, faults, losses>>

ControlLost ==
  [session EXCEPT !.phase = "failed", !.cause = "control_lost", !.mark = "pending", !.fact = TRUE]

\* The failure, its marker and the usage fact are one write.
SaveLost ==
  /\ pc[Watcher] = "save" /\ lock = Watcher
  /\ session' = ControlLost /\ owed' = TRUE /\ lock' = Free /\ Goto(Watcher, "inline")
  /\ UNCHANGED <<record, media, receipt, lease, sick, faults, losses>>

\* The write is refused, or fails, or its reply is lost.
SaveLostFails ==
  /\ pc[Watcher] = "save"
  /\ \/ lock # Watcher /\ UNCHANGED <<session, owed, faults>>
     \/ Fault /\ UNCHANGED <<session, owed>>
     \/ lock = Watcher /\ Fault /\ session' = ControlLost /\ owed' = TRUE
  /\ Leave(Watcher) /\ UNCHANGED <<record, media, receipt, lease, sick, losses>>

Staged(s) == [s EXCEPT !.fact = FALSE, !.refusals = 0]

\* A bounded first attempt at staging the fact; a failure, or a refusal, is only
\* logged, and the stop follows in any case.
Inline ==
  /\ pc[Watcher] = "inline" /\ Goto(Watcher, "release")
  /\ \/ lock = Free /\ Exists /\ session.fact /\ session' = Staged(session) /\ owed' = FALSE
     \/ UNCHANGED <<session, owed>>
  /\ UNCHANGED <<record, lock, media, receipt, lease, sick, faults, losses>>

\* Cleanup and record are done; only the fact is owed.
Settle ==
  /\ pc[Watcher] = "settle" /\ lock = Free /\ lock' = Watcher /\ Goto(Watcher, "keep")
  /\ UNCHANGED <<session, record, media, receipt, lease, sick, owed, faults, losses>>

(***************************************************************************)
(* stop_session_internal, by whoever ends the session.                     *)
(***************************************************************************)
Stop ==
  /\ pc[Api] = "idle" /\ Goto(Api, "release")
  /\ UNCHANGED <<session, record, lock, media, receipt, lease, sick, owed, faults, losses>>

\* An earlier stop is known to have torn the session down, or a lease failure is
\* pending: an avatar nobody knows is then a released one.
Retried == receipt = "error" \/ (Exists /\ (session.flag \/ session.mark = "pending"))

AfterRelease(t) == [release |-> "enter", locked |-> "teardown"][pc[t]]

\* _release_media, ahead of the lock and again under it; the avatar service may
\* refuse any number of times.
ReleaseMedia(t) ==
  /\ pc[t] \in {"release", "locked"}
  /\ \/ receipt = "stopped" /\ Goto(t, AfterRelease(t)) /\ UNCHANGED <<lock, media, receipt>>
     \/ /\ receipt # "stopped" /\ (media \/ Retried) /\ Goto(t, AfterRelease(t))
        /\ media' = FALSE /\ receipt' = "stopped" /\ UNCHANGED lock
     \/ /\ receipt # "stopped" /\ media /\ Goto(t, AfterRelease(t))
        /\ receipt' = "error" /\ UNCHANGED <<lock, media>>
     \/ /\ receipt # "stopped" /\ ~media /\ ~Retried /\ Leave(t)
        /\ receipt' = "none" /\ UNCHANGED media
  /\ UNCHANGED <<session, record, lease, sick, owed, faults, losses>>

\* Mutant: a stop does not wait for the lock.
EnterOpen(t) ==
  /\ pc[t] = "enter" /\ Goto(t, "locked")
  /\ UNCHANGED <<session, record, lock, media, receipt, lease, sick, owed, faults, losses>>

Enter(t) ==
  /\ pc[t] = "enter" /\ lock = Free /\ lock' = t /\ Goto(t, "locked")
  /\ UNCHANGED <<session, record, media, receipt, lease, sick, owed, faults, losses>>

Built(t, default, cleanup) ==
  /\ pc' = [pc EXCEPT ![t] = "persist"]
  /\ seen' = [seen EXCEPT ![t] = [outcome |-> OutcomeNow(default), cleanup |-> cleanup]]

Attempt == IF Exists THEN session.attempts + 1 ELSE 1

\* Mutant: what the avatar's release returned is forgotten.
TeardownBlind(t) ==
  /\ pc[t] = "teardown" /\ Built(t, "control_lost", "succeeded")
  /\ UNCHANGED <<session, record, lock, media, receipt, lease, sick, owed, faults, losses>>

\* Mutant: a teardown is tried again without an end.
TeardownForever(t) ==
  /\ pc[t] = "teardown"
  /\ \/ /\ receipt # "error" /\ Built(t, "control_lost", "succeeded")
        /\ UNCHANGED <<session, lock>>
     \/ /\ receipt = "error" /\ Leave(t)
        /\ Marked(t, [session EXCEPT !.attempts = @ + 1, !.flag = TRUE])
  /\ UNCHANGED <<record, media, receipt, lease, sick, owed, faults, losses>>

\* teardown_then_persist: a teardown that failed is left to the next stop, until
\* there were enough of them; then the record says so.
Teardown(t) ==
  /\ pc[t] = "teardown"
  /\ \/ /\ receipt # "error" /\ Built(t, "control_lost", "succeeded")
        /\ UNCHANGED <<session, lock, faults>>
     \/ /\ IF receipt = "error" THEN UNCHANGED faults ELSE Fault
        /\ IF Exists /\ Attempt < MaxCleanups
           THEN /\ Leave(t)
                /\ Marked(t, [session EXCEPT !.attempts = @ + 1, !.flag = TRUE])
           ELSE Built(t, "control_lost", "failed") /\ UNCHANGED <<session, lock>>
  /\ UNCHANGED <<record, media, receipt, lease, sick, owed, losses>>

\* The first record of an execution stays.
Kept(r) == record' = IF record = NoRecord THEN r ELSE record

\* Mutant: a record that could not be stored does not hold the stop up.
PersistAnyway(t) ==
  /\ pc[t] = "persist"
  /\ \/ Kept(seen[t]) /\ UNCHANGED faults
     \/ Fault /\ UNCHANGED record
  /\ Goto(t, "keep")
  /\ UNCHANGED <<session, lock, media, receipt, lease, sick, owed, losses>>

\* persist_before_delete: a failed store, or a lost reply, keeps the session.
Persist(t) ==
  /\ pc[t] = "persist"
  /\ \/ Kept(seen[t]) /\ Goto(t, "keep") /\ UNCHANGED <<session, lock, faults>>
     \/ /\ Kept(seen[t]) \/ UNCHANGED record
        /\ Fault /\ Leave(t) /\ Marked(t, [session EXCEPT !.flag = TRUE])
  /\ UNCHANGED <<media, receipt, lease, sick, owed, losses>>

\* Mutant: a fact that cannot be staged goes with its session.
KeepNothing(t) ==
  /\ pc[t] = "keep" /\ Goto(t, "delete")
  /\ \/ Exists /\ session.fact /\ lock = t /\ session' = Staged(session) /\ owed' = FALSE
        /\ UNCHANGED faults
     \/ Fault /\ UNCHANGED <<session, owed>>
     \/ ~(Exists /\ session.fact) /\ UNCHANGED <<session, owed, faults>>
  /\ UNCHANGED <<record, lock, media, receipt, lease, sick, losses>>

\* The stop is over: a receipt of released media has served its purpose.  The
\* watcher's second visit, which built no record, leaves receipts alone.
Done(t) ==
  /\ Leave(t) /\ sick' = (sick /\ t # Monitor)
  /\ receipt' = IF receipt = "stopped" /\ seen[t] # NoRecord THEN "none" ELSE receipt

Settling(s) == [s EXCEPT !.mark = "settling"]

\* Mutant: a refusal is not counted.
RefusedUncounted(s) == Settling(s)

\* A refusal is counted in the session; the last one marks the fact unstageable.
Refused(s) == [Settling(s) EXCEPT !.refusals = @ + 1]

\* Staging, or the fenced write after it, fails; so may the write of the markers.
StagingFails(t) ==
  \/ lock # t /\ UNCHANGED <<session, faults>>
  \/ lock = t /\ Fault /\ session' \in {session, Settling(session)}
  \/ lock = t /\ session' = Refused(session) /\ UNCHANGED faults

\* keep_for_unstaged: the fact is staged, or the session stays for the watcher, or,
\* when it was refused too often, for an operator.
Keep(t) ==
  /\ pc[t] = "keep"
  /\ \/ ~(Exists /\ session.fact) /\ Goto(t, "delete")
        /\ UNCHANGED <<session, lock, receipt, sick, owed, faults>>
     \/ /\ Exists /\ session.fact /\ ~Parked /\ lock = t
        /\ session' = Staged(session) /\ owed' = FALSE /\ Goto(t, "delete")
        /\ UNCHANGED <<lock, receipt, sick, faults>>
     \/ Exists /\ session.fact /\ ~Parked /\ StagingFails(t) /\ Done(t) /\ UNCHANGED owed
     \/ Parked /\ Done(t) /\ UNCHANGED <<session, owed, faults>>
  /\ UNCHANGED <<record, media, lease, losses>>

\* delete_owned: a lost lease keeps the session.
Delete(t) ==
  /\ pc[t] = "delete"
  /\ IF lock = t THEN session' = NoSession /\ Done(t)
     ELSE UNCHANGED <<session, receipt, sick>> /\ Leave(t)
  /\ UNCHANGED <<record, media, lease, owed, faults, losses>>

\* A watcher's completion runs into its deadline; a release in progress may
\* still have its effect.
Cut ==
  /\ pc[Watcher] \in {"release", "enter", "locked", "teardown", "persist", "keep", "delete"}
  /\ Fault /\ Leave(Watcher)
  /\ media' \in IF pc[Watcher] \in {"release", "locked"} THEN {media, FALSE} ELSE {media}
  /\ UNCHANGED <<session, record, receipt, lease, sick, owed, losses>>

(***************************************************************************)
(* The avatar monitor.                                                     *)
(***************************************************************************)
MediaLost ==
  IF Exists /\ session.phase # "failed"
  THEN [session EXCEPT !.phase = "failed", !.cause = "media_failed"] ELSE session

\* The avatar has to go: the failure is stored, then the session is stopped.  A
\* write that fails releases the media and is tried again, for the same reason; a
\* receipt left by another stop is no reason.
Condemn ==
  /\ pc[Monitor] = "idle" /\ lock = Free /\ sick' = TRUE
  /\ sick \/ (media /\ receipt = "none")
  /\ \/ session' = MediaLost /\ Goto(Monitor, "release") /\ UNCHANGED <<media, receipt, faults>>
     \/ /\ Exists /\ Fault /\ session' \in {session, MediaLost}
        /\ media' = FALSE /\ receipt' = "stopped" /\ UNCHANGED <<pc, seen>>
  /\ UNCHANGED <<record, lock, lease, owed, losses>>

\* Mutant: a receipt goes with its session.
RetryOfSessions ==
  /\ pc[Monitor] = "idle" /\ ~sick /\ receipt \in {"error", "stopped"} /\ Exists
  /\ media' = FALSE /\ receipt' = "stopped" /\ Goto(Monitor, "release")
  /\ UNCHANGED <<session, record, lock, lease, sick, owed, faults, losses>>

\* What an earlier stop could not release is released, and the stop resumed; a
\* release that fails again changes nothing.
RetryMedia ==
  /\ pc[Monitor] = "idle" /\ ~sick /\ receipt \in {"error", "stopped"}
  /\ media' = FALSE /\ receipt' = IF Exists THEN "stopped" ELSE "none"
  /\ Goto(Monitor, IF Exists THEN "release" ELSE "idle")
  /\ UNCHANGED <<session, record, lock, lease, sick, owed, faults, losses>>

(***************************************************************************)
(* A process of the deployment that shuts down records every execution     *)
(* without a record; it takes no lock, and the cleanup has not happened.   *)
(* What may change between its read and its write is its outcome only, and *)
(* the first record stays: one step.                                       *)
(***************************************************************************)
Sweep ==
  /\ record = NoRecord
  /\ record' = [outcome |-> OutcomeNow("runtime_lost"), cleanup |-> "pending"]
  /\ UNCHANGED <<session, lock, pc, seen, media, receipt, lease, sick, owed, faults, losses>>

(***************************************************************************)
(* The environment.                                                        *)
(***************************************************************************)
\* accept_lease: another lease replaces the stored one.
Renew ==
  /\ lock = Free /\ Exists /\ session.phase # "failed" /\ lease' = "paid"
  /\ UNCHANGED <<session, record, lock, pc, seen, media, receipt, sick, owed, faults, losses>>

RunOut ==
  /\ lease = "paid" /\ lease' = "spent"
  /\ UNCHANGED <<session, record, lock, pc, seen, media, receipt, sick, owed, faults, losses>>

End ==
  /\ lock = Free /\ Exists /\ session.phase = "live"
  /\ session' = [session EXCEPT !.phase = "ending", !.ended = TRUE]
  /\ UNCHANGED <<record, lock, pc, seen, media, receipt, lease, sick, owed, faults, losses>>

LockExpires ==
  /\ lock # Free /\ losses < MaxLosses /\ losses' = losses + 1 /\ lock' = Free
  /\ UNCHANGED <<session, record, pc, seen, media, receipt, lease, sick, owed, faults>>

\* The process restarts; its avatar is gone with it.
Restart ==
  /\ Fault /\ lock' = Free
  /\ pc' = [t \in Tasks |-> "idle"] /\ seen' = [t \in Tasks |-> NoRecord]
  /\ media' = FALSE /\ receipt' = "none" /\ sick' = FALSE
  /\ UNCHANGED <<session, record, lease, owed, losses>>

\* A task that waits for the session lock.
Waits(t) == Enter(t) \/ (t = Watcher /\ (Expire \/ Settle))

\* A task that does not wait.
Works(t) ==
  \/ ReleaseMedia(t) \/ Teardown(t) \/ Persist(t) \/ Keep(t) \/ Delete(t)
  \/ t = Watcher /\ (SaveLost \/ SaveLostFails \/ Inline)

Next ==
  \/ \E t \in Tasks : Waits(t) \/ Works(t)
  \/ Check \/ Stop \/ Cut \/ Condemn \/ RetryMedia \/ Sweep
  \/ Renew \/ RunOut \/ End \/ LockExpires \/ Restart

(***************************************************************************)
(* The watcher sweeps for ever and the monitor retries; tasks run on; the  *)
(* session lock is short, so whoever keeps asking for it gets it.          *)
(***************************************************************************)
Fairness ==
  /\ WF_vars(Check) /\ SF_vars(sick /\ Condemn) /\ WF_vars(RetryMedia)
  /\ \A t \in Tasks : SF_vars(Waits(t)) /\ WF_vars(Works(t))

Spec == Init /\ [][Next]_vars /\ Fairness
-----------------------------------------------------------------------------
TypeOK ==
  /\ session \in Session \cup {NoSession} /\ record \in Record \cup {NoRecord}
  /\ lock \in Tasks \cup {Free} /\ pc \in [Tasks -> PC]
  /\ seen \in [Tasks -> Record \cup {NoRecord}]
  /\ media \in BOOLEAN /\ receipt \in {"none", "error", "stopped"}
  /\ lease \in {"none", "paid", "spent"} /\ sick \in BOOLEAN /\ owed \in BOOLEAN
  /\ faults \in 0..MaxFaults /\ losses \in 0..MaxLosses

\* The session is deleted only once the terminal record is stored, whichever
\* stop got how far before it failed, was cut off or lost its lease.
RecordBeforeDelete == ~Exists => record # NoRecord

\* The usage fact of a lease failure does not go with its session.
FactIsNotLost == ~Exists => ~owed

\* A record says that the cleanup succeeded only when nobody pays any more.
CleanupIsTrue == record # NoRecord /\ record.cleanup = "succeeded" => ~media

\* Paid time is not cut short: the watcher ends an execution only when the lease
\* that is stored at that moment has run out.
OnlySpentLeasesEnd ==
  [][Exists /\ session.cause = "none" /\ session' # NoSession /\ session'.cause = "control_lost"
     => Expired]_vars

\* A stop records what the session says when the record is stored, unless its
\* lock was lost; an end or a failure in between is not missed.
RecordIsCurrent ==
  [][\A t \in Tasks :
       losses = 0 /\ pc[t] = "persist" /\ record = NoRecord /\ record' = seen[t]
       => record'.outcome = OutcomeNow("control_lost")]_vars

Settled == session.mark = "none" \/ (Parked /\ record # NoRecord)

\* A lease failure is completed, after any failures, deadlines and restarts on the way:
\* the session goes, unless its usage fact was refused as often as it takes to leave it
\* to an operator; then all but the fact is done, and so it stays.
ControlLostSettles == <>[](Exists => Settled)

\* Media is released in the end, and for good, although the stop that failed to do it
\* is over.
MediaIsReleased == <>[](record # NoRecord /\ record.cleanup = "failed" => ~media)
=============================================================================
