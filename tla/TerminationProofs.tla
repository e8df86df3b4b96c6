--------------------------- MODULE TerminationProofs ---------------------------
(***************************************************************************)
(* Proofs about Termination, for any number of faults, lost lock leases    *)
(* and teardowns.                                                          *)
(*                                                                         *)
(* The argument: what a task knows of the session is true as long as it    *)
(* has the lock (SaveReady, SeenTrue, NothingOwed), what it knows of the   *)
(* media and of the record is true without it (MediaTrue, RecordStored),   *)
(* because media is only ever released and a record only ever stored.      *)
(***************************************************************************)
EXTENDS Termination, TLAPS

\* Tasks between their first step under the lock and the last.
Inside == {"save", "locked", "teardown", "persist", "keep", "delete"}

HoldersHold == losses = 0 => \A t \in Tasks : pc[t] \in Inside => lock = t

SaveReady ==
  pc[Watcher] = "save" /\ lock = Watcher => Exists /\ session.phase = "live" /\ Expired

RecordStored ==
  /\ record = NoRecord =>
       /\ Exists /\ session.mark # "settling"
       /\ \A t \in Tasks : pc[t] \notin {"settle", "keep", "delete"}
  /\ \A t \in Tasks : pc[t] = "persist" => seen[t] # NoRecord

SeenTrue ==
  \A t \in Tasks : pc[t] = "persist" /\ lock = t => seen[t].outcome = OutcomeNow("control_lost")

NothingOwed ==
  /\ owed => Exists /\ session.fact
  /\ \A t \in Tasks : pc[t] = "delete" /\ lock = t => ~(Exists /\ session.fact)

MediaTrue ==
  media =>
    /\ receipt # "stopped"
    /\ \A t \in Tasks : pc[t] \in {"enter", "locked", "teardown"} => receipt = "error"
    /\ \A t \in Tasks : pc[t] = "persist" => seen[t].cleanup # "succeeded"
    /\ record # NoRecord => record.cleanup # "succeeded"

IInv ==
  /\ TypeOK /\ HoldersHold /\ SaveReady /\ RecordStored /\ SeenTrue /\ NothingOwed /\ MediaTrue

(***************************************************************************)
(* The inductive invariant.                                                *)
(***************************************************************************)
LEMMA InvInit == Init => IInv
<1> SUFFICES ASSUME Init PROVE IInv
  OBVIOUS
<1> USE ConstantsAssumption, NullsAssumption DEF Init
<1>1. TypeOK
  <2>1. session \in Session
    BY SMT DEF Session
  <2>2. pc \in [Tasks -> PC] /\ seen \in [Tasks -> Record \cup {NoRecord}]
    BY DEF PC
  <2>3. faults \in 0..MaxFaults /\ losses \in 0..MaxLosses
    OBVIOUS
  <2>4. QED
    BY <2>1, <2>2, <2>3 DEF TypeOK
<1>2. HoldersHold /\ SaveReady /\ SeenTrue
  BY DEF HoldersHold, SaveReady, SeenTrue, Inside, Tasks
<1>3. Exists /\ session.mark = "none"
  <2>1. session \in Session
    BY SMT DEF Session
  <2>2. QED
    BY <2>1 DEF Exists
<1>4. RecordStored /\ NothingOwed /\ MediaTrue
  BY <1>3 DEF RecordStored, NothingOwed, MediaTrue
<1>5. QED
  BY <1>1, <1>2, <1>4 DEF IInv

(***************************************************************************)
(* What the writes to the session, and the moves of a task, keep.          *)
(***************************************************************************)
LEMMA EditsAreSessions ==
  ASSUME session \in Session
  PROVE  /\ ControlLost \in Session /\ Staged(session) \in Session /\ MediaLost \in Session
         /\ [session EXCEPT !.flag = TRUE] \in Session
         /\ Settling(session) \in Session
         /\ session.refusals # UnstageableAfter => Refused(session) \in Session
         /\ [session EXCEPT !.phase = "ending", !.ended = TRUE] \in Session
         /\ session.attempts + 1 < MaxCleanups
              => [session EXCEPT !.attempts = @ + 1, !.flag = TRUE] \in Session
<1>1. MediaLost \in Session
  BY DEF Session, MediaLost
<1>2. [session EXCEPT !.phase = "ending", !.ended = TRUE] \in Session
  BY DEF Session
<1>3. ASSUME session.attempts + 1 < MaxCleanups
      PROVE  [session EXCEPT !.attempts = @ + 1, !.flag = TRUE] \in Session
  <2>1. session.attempts + 1 \in 0..MaxCleanups
    BY <1>3, ConstantsAssumption DEF Session
  <2>2. QED
    BY <2>1 DEF Session
<1>4. Settling(session) \in Session /\ Staged(session) \in Session
  <2>1. 0 \in 0..UnstageableAfter
    BY ConstantsAssumption
  <2>2. Settling(session) \in Session
    BY DEF Session, Settling
  <2>3. Staged(session) \in Session
    BY <2>1 DEF Session, Staged
  <2>4. QED
    BY <2>2, <2>3
<1>5. ASSUME session.refusals # UnstageableAfter
      PROVE  Refused(session) \in Session
  <2>1. session.refusals + 1 \in 0..UnstageableAfter
    BY <1>5, ConstantsAssumption DEF Session
  <2>2. QED
    BY <2>1, <1>4 DEF Session, Settling, Refused
<1>6. QED
  BY <1>1, <1>2, <1>3, <1>4, <1>5 DEF Session, ControlLost

\* What they say.
LEMMA EditsSay ==
  ASSUME session \in Session
  PROVE  /\ ControlLost.mark = "pending" /\ ControlLost.fact
         /\ ControlLost.phase = "failed" /\ ControlLost.cause = "control_lost"
         /\ Staged(session).mark = session.mark /\ ~Staged(session).fact
         /\ Staged(session).cause = session.cause
         /\ MediaLost.mark = session.mark /\ MediaLost.fact = session.fact
         /\ \A s \in {[session EXCEPT !.flag = TRUE],
                      [session EXCEPT !.attempts = @ + 1, !.flag = TRUE]} :
              /\ s.mark = session.mark /\ s.fact = session.fact
              /\ s.phase = session.phase /\ s.ended = session.ended /\ s.cause = session.cause
         /\ \A s \in {Settling(session), Refused(session)} :
              /\ s.mark = "settling" /\ s.fact = session.fact
              /\ s.phase = session.phase /\ s.ended = session.ended /\ s.cause = session.cause
BY DEF Session, ControlLost, Staged, MediaLost, Settling, Refused

LEMMA Moves ==
  ASSUME TypeOK, NEW t \in Tasks
  PROVE  /\ Leave(t) => /\ pc' \in [Tasks -> PC] /\ seen' \in [Tasks -> Record \cup {NoRecord}]
                        /\ lock' \in Tasks \cup {Free}
         /\ \A at \in PC : Goto(t, at) =>
              pc' \in [Tasks -> PC] /\ seen' \in [Tasks -> Record \cup {NoRecord}]
         /\ \A d \in {"control_lost"}, c \in {"succeeded", "failed"} : Built(t, d, c) =>
              pc' \in [Tasks -> PC] /\ seen' \in [Tasks -> Record \cup {NoRecord}]
<1>1. pc \in [Tasks -> PC] /\ seen \in [Tasks -> Record \cup {NoRecord}] /\ lock \in Tasks \cup {Free}
  BY DEF TypeOK
<1>2. {"idle", "persist"} \subseteq PC
  BY DEF PC
<1>3. \A d \in {"control_lost"}, c \in {"succeeded", "failed"} :
        [outcome |-> OutcomeNow(d), cleanup |-> c] \in Record
  BY DEF OutcomeNow, Record, TypeOK, Session, Exists
<1>4. QED
  BY <1>1, <1>2, <1>3 DEF Leave, Goto, Built

LEMMA InvStep == IInv /\ [Next]_vars => IInv'
<1> SUFFICES ASSUME IInv, [Next]_vars PROVE IInv'
  OBVIOUS
<1> USE ConstantsAssumption, NullsAssumption DEF IInv
<1>1. CASE Check
  <2>1. TypeOK'
    BY <1>1 DEF Check, TypeOK, Exists, Goto, Expired, Session, Record, Tasks, PC
  <2>2. HoldersHold'
    BY <1>1 DEF Check, TypeOK, Exists, Goto, Expired, HoldersHold, Tasks, Inside
  <2>3. SaveReady'
    BY <1>1 DEF Check, TypeOK, Exists, Goto, Expired, SaveReady
  <2>4. RecordStored'
    BY <1>1 DEF Check, TypeOK, Exists, Goto, Expired, RecordStored, Tasks
  <2>5. SeenTrue'
    BY <1>1 DEF Check, TypeOK, Exists, Goto, Expired, SeenTrue, Tasks, OutcomeNow
  <2>6. NothingOwed'
    BY <1>1 DEF Check, TypeOK, Exists, Goto, Expired, NothingOwed, Tasks
  <2>7. MediaTrue'
    BY <1>1 DEF Check, TypeOK, Exists, Goto, Expired, MediaTrue, Tasks
  <2>8. QED
    BY <2>1, <2>2, <2>3, <2>4, <2>5, <2>6, <2>7
<1>2. CASE Expire
  <2>1. TypeOK'
    BY <1>2 DEF Expire, TypeOK, Exists, Expired, Goto, Session, Record, Tasks, PC
  <2>2. HoldersHold'
    BY <1>2 DEF Expire, TypeOK, Exists, Expired, Goto, HoldersHold, Tasks, Inside
  <2>3. SaveReady'
    BY <1>2 DEF Expire, TypeOK, Exists, Expired, Goto, SaveReady
  <2>4. RecordStored'
    BY <1>2 DEF Expire, TypeOK, Exists, Expired, Goto, RecordStored, Tasks
  <2>5. SeenTrue'
    BY <1>2 DEF Expire, TypeOK, Exists, Expired, Goto, SeenTrue, Tasks, OutcomeNow
  <2>6. NothingOwed'
    BY <1>2 DEF Expire, TypeOK, Exists, Expired, Goto, NothingOwed, Tasks
  <2>7. MediaTrue'
    BY <1>2 DEF Expire, TypeOK, Exists, Expired, Goto, MediaTrue, Tasks
  <2>8. QED
    BY <2>1, <2>2, <2>3, <2>4, <2>5, <2>6, <2>7
<1>3. CASE SaveLost
  <2>1. TypeOK'
    BY <1>3, EditsAreSessions DEF SaveLost, TypeOK, Goto, SaveReady, Exists, PC, Tasks
  <2>2. HoldersHold'
    BY <1>3 DEF SaveLost, TypeOK, ControlLost, Goto, HoldersHold, Tasks, Inside
  <2>3. SaveReady'
    BY <1>3 DEF SaveLost, TypeOK, ControlLost, Goto, SaveReady, Exists, Expired, Tasks, Session
  <2>4. RecordStored'
    BY <1>3 DEF SaveLost, TypeOK, ControlLost, Goto, RecordStored, Exists, Tasks, SaveReady, Session
  <2>5. SeenTrue'
    BY <1>3 DEF SaveLost, TypeOK, ControlLost, Goto, SeenTrue, Tasks, OutcomeNow, Exists
  <2>6. NothingOwed'
    <3>1. session \in Session /\ lock' = Free /\ session' = ControlLost
      BY <1>3 DEF SaveLost, SaveReady, Exists, TypeOK
    <3>2. session' # NoSession /\ session'.fact
      BY <3>1, EditsAreSessions, EditsSay
    <3>3. Free \notin Tasks
      OBVIOUS
    <3>4. QED
      BY <3>1, <3>2, <3>3 DEF NothingOwed, Exists
  <2>7. MediaTrue'
    BY <1>3 DEF SaveLost, TypeOK, ControlLost, Goto, MediaTrue, Tasks
  <2>8. QED
    BY <2>1, <2>2, <2>3, <2>4, <2>5, <2>6, <2>7
<1>4. CASE SaveLostFails
  <2>0. /\ pc[Watcher] = "save" /\ Leave(Watcher) /\ record' = record
        /\ \/ session' = session /\ owed' = owed
           \/ session \in Session /\ session' = ControlLost /\ lock = Watcher
    BY <1>4 DEF SaveLostFails, SaveReady, TypeOK, Exists
  <2>1. TypeOK'
    <3>1. session' \in Session \cup {NoSession}
      BY <1>4, EditsAreSessions DEF TypeOK, SaveLostFails, SaveReady, Exists
    <3>2. /\ pc' \in [Tasks -> PC] /\ seen' \in [Tasks -> Record \cup {NoRecord}]
          /\ lock' \in Tasks \cup {Free}
      BY <1>4, Moves DEF TypeOK, SaveLostFails, Done, PC, Tasks
    <3>3. /\ record' \in Record \cup {NoRecord} /\ media' \in BOOLEAN
          /\ receipt' \in {"none", "error", "stopped"}
      BY <1>4 DEF TypeOK, SaveLostFails, Kept, Done, RecordStored
    <3>4. lease' \in {"none", "paid", "spent"} /\ sick' \in BOOLEAN /\ owed' \in BOOLEAN
      BY <1>4, Zenon DEF TypeOK, SaveLostFails, Done
    <3>5. faults' \in 0..MaxFaults /\ losses' \in 0..MaxLosses
      <4>1. losses' = losses /\ (faults' = faults \/ Fault)
        BY <1>4, Zenon DEF SaveLostFails
      <4>2. QED
        BY <4>1 DEF TypeOK, Fault
    <3>6. QED
      BY <3>1, <3>2, <3>3, <3>4, <3>5 DEF TypeOK
  <2>2. HoldersHold'
    BY <1>4 DEF SaveLostFails, TypeOK, Fault, ControlLost, Leave, HoldersHold, Tasks, Inside
  <2>3. SaveReady'
    BY <1>4 DEF SaveLostFails, TypeOK, Fault, ControlLost, Leave, SaveReady, Exists, Expired,
       Tasks, Session
  <2>4. RecordStored'
    BY <2>0, EditsAreSessions, EditsSay DEF TypeOK, RecordStored, Exists, Leave, Tasks
  <2>5. SeenTrue'
    BY <1>4 DEF SaveLostFails, TypeOK, Fault, ControlLost, Leave, SeenTrue, Tasks, OutcomeNow,
       Exists
  <2>6. NothingOwed'
    BY <2>0, EditsAreSessions, EditsSay, NullsAssumption DEF TypeOK, NothingOwed, Exists,
       Leave, Tasks
  <2>7. MediaTrue'
    BY <1>4 DEF SaveLostFails, TypeOK, Fault, ControlLost, Leave, MediaTrue, Tasks
  <2>8. QED
    BY <2>1, <2>2, <2>3, <2>4, <2>5, <2>6, <2>7
<1>5. CASE Inline
  <2>0. /\ Goto(Watcher, "release") /\ UNCHANGED <<record, lock, media, receipt>>
        /\ \/ session' = session /\ owed' = owed
           \/ session \in Session /\ session' = Staged(session) /\ ~owed'
    BY <1>5 DEF Inline, TypeOK, Exists
  <2>1. TypeOK'
    <3>1. session' \in Session \cup {NoSession}
      BY <1>5, EditsAreSessions DEF TypeOK, Inline, Marked, Exists, Attempt
    <3>2. /\ pc' \in [Tasks -> PC] /\ seen' \in [Tasks -> Record \cup {NoRecord}]
          /\ lock' \in Tasks \cup {Free}
      BY <1>5, Moves DEF TypeOK, Inline, Done, PC, Tasks
    <3>3. /\ record' \in Record \cup {NoRecord} /\ media' \in BOOLEAN
          /\ receipt' \in {"none", "error", "stopped"}
      BY <1>5 DEF TypeOK, Inline, Kept, Done, RecordStored
    <3>4. lease' \in {"none", "paid", "spent"} /\ sick' \in BOOLEAN /\ owed' \in BOOLEAN
      BY <1>5, Zenon DEF TypeOK, Inline, Done
    <3>5. faults' \in 0..MaxFaults /\ losses' \in 0..MaxLosses
      <4>1. losses' = losses /\ (faults' = faults \/ Fault)
        BY <1>5, Zenon DEF Inline
      <4>2. QED
        BY <4>1 DEF TypeOK, Fault
    <3>6. QED
      BY <3>1, <3>2, <3>3, <3>4, <3>5 DEF TypeOK
  <2>2. HoldersHold'
    BY <1>5 DEF Inline, TypeOK, Goto, Exists, Staged, Fault, HoldersHold, Tasks, Inside
  <2>3. SaveReady'
    BY <1>5 DEF Inline, TypeOK, Goto, Exists, Staged, Fault, SaveReady, Expired
  <2>4. RecordStored'
    BY <2>0, EditsAreSessions, EditsSay DEF TypeOK, RecordStored, Exists, Goto, Tasks
  <2>5. SeenTrue'
    BY <1>5 DEF Inline, TypeOK, Goto, Exists, Staged, Fault, SeenTrue, Tasks, OutcomeNow
  <2>6. NothingOwed'
    BY <1>5 DEF Inline, TypeOK, Goto, Exists, Staged, Fault, NothingOwed, Tasks
  <2>7. MediaTrue'
    BY <1>5 DEF Inline, TypeOK, Goto, Exists, Staged, Fault, MediaTrue, Tasks
  <2>8. QED
    BY <2>1, <2>2, <2>3, <2>4, <2>5, <2>6, <2>7
<1>6. CASE Settle
  <2>1. TypeOK'
    BY <1>6 DEF Settle, TypeOK, Goto, Session, Record, Tasks, PC
  <2>2. HoldersHold'
    BY <1>6 DEF Settle, TypeOK, Goto, HoldersHold, Tasks, Inside
  <2>3. SaveReady'
    BY <1>6 DEF Settle, TypeOK, Goto, SaveReady, Exists, Expired
  <2>4. RecordStored'
    BY <1>6 DEF Settle, TypeOK, Goto, RecordStored, Exists, Tasks
  <2>5. SeenTrue'
    BY <1>6 DEF Settle, TypeOK, Goto, SeenTrue, Tasks, OutcomeNow, Exists
  <2>6. NothingOwed'
    BY <1>6 DEF Settle, TypeOK, Goto, NothingOwed, Exists, Tasks
  <2>7. MediaTrue'
    BY <1>6 DEF Settle, TypeOK, Goto, MediaTrue, Tasks
  <2>8. QED
    BY <2>1, <2>2, <2>3, <2>4, <2>5, <2>6, <2>7
<1>7. CASE Stop
  <2>1. TypeOK'
    BY <1>7 DEF Stop, TypeOK, Goto, Session, Record, Tasks, PC
  <2>2. HoldersHold'
    BY <1>7 DEF Stop, TypeOK, Goto, HoldersHold, Tasks, Inside
  <2>3. SaveReady'
    BY <1>7 DEF Stop, TypeOK, Goto, SaveReady, Exists, Expired
  <2>4. RecordStored'
    BY <1>7 DEF Stop, TypeOK, Goto, RecordStored, Exists, Tasks
  <2>5. SeenTrue'
    BY <1>7 DEF Stop, TypeOK, Goto, SeenTrue, Tasks, OutcomeNow, Exists
  <2>6. NothingOwed'
    BY <1>7 DEF Stop, TypeOK, Goto, NothingOwed, Exists, Tasks
  <2>7. MediaTrue'
    BY <1>7 DEF Stop, TypeOK, Goto, MediaTrue, Tasks
  <2>8. QED
    BY <2>1, <2>2, <2>3, <2>4, <2>5, <2>6, <2>7
<1>8. ASSUME NEW t \in Tasks, ReleaseMedia(t) PROVE IInv'
  <2>1. TypeOK'
    <3>1. session' \in Session \cup {NoSession}
      BY <1>8, EditsAreSessions DEF TypeOK, ReleaseMedia, Marked, Exists, Attempt
    <3>2. /\ pc' \in [Tasks -> PC] /\ seen' \in [Tasks -> Record \cup {NoRecord}]
          /\ lock' \in Tasks \cup {Free}
      <4>1. AfterRelease(t) \in PC
        BY <1>8 DEF ReleaseMedia, AfterRelease, PC
      <4>2. QED
        BY <4>1, <1>8, Moves DEF TypeOK, ReleaseMedia
    <3>3. /\ record' \in Record \cup {NoRecord} /\ media' \in BOOLEAN
          /\ receipt' \in {"none", "error", "stopped"}
      BY <1>8 DEF TypeOK, ReleaseMedia, Kept, Done, RecordStored
    <3>4. lease' \in {"none", "paid", "spent"} /\ sick' \in BOOLEAN /\ owed' \in BOOLEAN
      BY <1>8, Zenon DEF TypeOK, ReleaseMedia, Done
    <3>5. faults' \in 0..MaxFaults /\ losses' \in 0..MaxLosses
      <4>1. losses' = losses /\ (faults' = faults \/ Fault)
        BY <1>8, Zenon DEF ReleaseMedia
      <4>2. QED
        BY <4>1 DEF TypeOK, Fault
    <3>6. QED
      BY <3>1, <3>2, <3>3, <3>4, <3>5 DEF TypeOK
  <2>2. HoldersHold'
    BY <1>8 DEF ReleaseMedia, TypeOK, Goto, AfterRelease, Retried, Exists, Leave, HoldersHold,
       Tasks, Inside
  <2>3. SaveReady'
    BY <1>8 DEF ReleaseMedia, TypeOK, Goto, AfterRelease, Retried, Exists, Leave, SaveReady,
       Expired, Tasks, Session
  <2>4. RecordStored'
    BY <1>8 DEF ReleaseMedia, TypeOK, Goto, AfterRelease, Retried, Exists, Leave, RecordStored,
       Tasks
  <2>5. SeenTrue'
    BY <1>8 DEF ReleaseMedia, TypeOK, Goto, AfterRelease, Retried, Exists, Leave, SeenTrue,
       Tasks, OutcomeNow
  <2>6. NothingOwed'
    BY <1>8 DEF ReleaseMedia, TypeOK, Goto, AfterRelease, Retried, Exists, Leave, NothingOwed, Tasks
  <2>7. MediaTrue'
    <3>1. media' => media /\ receipt' = "error" /\ Goto(t, AfterRelease(t)) /\ record' = record
      BY <1>8 DEF ReleaseMedia, MediaTrue, TypeOK
    <3>2. pc[t] \in {"release", "locked"} /\ AfterRelease(t) # "persist"
      BY <1>8 DEF ReleaseMedia, AfterRelease
    <3>3. QED
      BY <3>1, <3>2 DEF TypeOK, MediaTrue, Goto
  <2>8. QED
    BY <2>1, <2>2, <2>3, <2>4, <2>5, <2>6, <2>7
<1>9. ASSUME NEW t \in Tasks, Enter(t) PROVE IInv'
  <2>1. TypeOK'
    BY <1>9 DEF Enter, TypeOK, Goto, Session, Record, Tasks, PC
  <2>2. HoldersHold'
    BY <1>9 DEF Enter, TypeOK, Goto, HoldersHold, Tasks, Inside
  <2>3. SaveReady'
    BY <1>9 DEF Enter, TypeOK, Goto, SaveReady, Exists, Expired
  <2>4. RecordStored'
    BY <1>9 DEF Enter, TypeOK, Goto, RecordStored, Exists, Tasks
  <2>5. SeenTrue'
    BY <1>9 DEF Enter, TypeOK, Goto, SeenTrue, Tasks, OutcomeNow, Exists
  <2>6. NothingOwed'
    BY <1>9 DEF Enter, TypeOK, Goto, NothingOwed, Exists, Tasks
  <2>7. MediaTrue'
    BY <1>9 DEF Enter, TypeOK, Goto, MediaTrue, Tasks
  <2>8. QED
    BY <2>1, <2>2, <2>3, <2>4, <2>5, <2>6, <2>7
<1>10. ASSUME NEW t \in Tasks, Teardown(t) PROVE IInv'
  <2>0. /\ pc[t] = "teardown" /\ record' = record /\ owed' = owed
        /\ Leave(t) \/ (lock' = lock /\ \E c \in {"succeeded", "failed"} : Built(t, "control_lost", c))
        /\ \/ session' = session
           \/ /\ session \in Session /\ session' \in Session /\ lock = t
              /\ session' \in {[session EXCEPT !.flag = TRUE],
                                [session EXCEPT !.attempts = @ + 1, !.flag = TRUE]}
    BY <1>10, EditsAreSessions DEF Teardown, TypeOK, Exists, Marked, Attempt
  <2>a. (Exists' <=> Exists) /\ (Exists => session'.mark = session.mark /\ session'.fact = session.fact)
    BY <2>0, EditsSay, NullsAssumption DEF Exists
  <2>1. TypeOK'
    <3>1. session' \in Session \cup {NoSession}
      BY <1>10, EditsAreSessions DEF TypeOK, Teardown, Marked, Exists, Attempt
    <3>2. /\ pc' \in [Tasks -> PC] /\ seen' \in [Tasks -> Record \cup {NoRecord}]
          /\ lock' \in Tasks \cup {Free}
      BY <1>10, Moves DEF TypeOK, Teardown, Done, PC, Tasks
    <3>3. /\ record' \in Record \cup {NoRecord} /\ media' \in BOOLEAN
          /\ receipt' \in {"none", "error", "stopped"}
      BY <1>10 DEF TypeOK, Teardown, Kept, Done, RecordStored
    <3>4. lease' \in {"none", "paid", "spent"} /\ sick' \in BOOLEAN /\ owed' \in BOOLEAN
      BY <1>10, Zenon DEF TypeOK, Teardown, Done
    <3>5. faults' \in 0..MaxFaults /\ losses' \in 0..MaxLosses
      <4>1. losses' = losses /\ (faults' = faults \/ Fault)
        BY <1>10, Zenon DEF Teardown
      <4>2. QED
        BY <4>1 DEF TypeOK, Fault
    <3>6. QED
      BY <3>1, <3>2, <3>3, <3>4, <3>5 DEF TypeOK
  <2>2. HoldersHold'
    BY <1>10 DEF Teardown, TypeOK, Built, OutcomeNow, Exists, Fault, Attempt, Leave, Marked,
       HoldersHold, Tasks, Inside
  <2>3. SaveReady'
    BY <1>10 DEF Teardown, TypeOK, Built, OutcomeNow, Exists, Fault, Attempt, Leave, Marked,
       SaveReady, Expired, Tasks, Session
  <2>4. RecordStored'
    <3>1. \A c \in {"succeeded", "failed"} :
            [outcome |-> OutcomeNow("control_lost"), cleanup |-> c] \in Record
      BY DEF OutcomeNow, Record, TypeOK, Session, Exists
    <3>2. QED
      BY <3>1, <2>0, <2>a DEF TypeOK, RecordStored, Leave, Built
  <2>5. SeenTrue'
    BY <1>10 DEF Teardown, TypeOK, Built, OutcomeNow, Exists, Fault, Attempt, Leave, Marked,
       SeenTrue, Tasks
  <2>6. NothingOwed'
    BY <2>0, <2>a DEF TypeOK, NothingOwed, Leave, Built
  <2>7. MediaTrue'
    BY <1>10 DEF Teardown, TypeOK, Built, OutcomeNow, Exists, Fault, Attempt, Leave, Marked,
       MediaTrue, Tasks
  <2>8. QED
    BY <2>1, <2>2, <2>3, <2>4, <2>5, <2>6, <2>7
<1>11. ASSUME NEW t \in Tasks, Persist(t) PROVE IInv'
  <2>0. /\ pc[t] = "persist" /\ owed' = owed /\ (Kept(seen[t]) \/ UNCHANGED record)
        /\ Leave(t) \/ (Goto(t, "keep") /\ lock' = lock /\ Kept(seen[t]))
        /\ \/ session' = session
           \/ /\ session \in Session /\ session' \in Session /\ lock = t
              /\ session' = [session EXCEPT !.flag = TRUE]
    BY <1>11, EditsAreSessions DEF Persist, TypeOK, Exists, Marked
  <2>a. (Exists' <=> Exists) /\ (Exists => session'.mark = session.mark /\ session'.fact = session.fact)
    BY <2>0, EditsSay, NullsAssumption DEF Exists
  <2>1. TypeOK'
    <3>1. session' \in Session \cup {NoSession}
      BY <1>11, EditsAreSessions DEF TypeOK, Persist, Marked, Exists, Attempt
    <3>2. /\ pc' \in [Tasks -> PC] /\ seen' \in [Tasks -> Record \cup {NoRecord}]
          /\ lock' \in Tasks \cup {Free}
      BY <1>11, Moves DEF TypeOK, Persist, Done, PC, Tasks
    <3>3. /\ record' \in Record \cup {NoRecord} /\ media' \in BOOLEAN
          /\ receipt' \in {"none", "error", "stopped"}
      BY <1>11 DEF TypeOK, Persist, Kept, Done, RecordStored
    <3>4. lease' \in {"none", "paid", "spent"} /\ sick' \in BOOLEAN /\ owed' \in BOOLEAN
      BY <1>11, Zenon DEF TypeOK, Persist, Done
    <3>5. faults' \in 0..MaxFaults /\ losses' \in 0..MaxLosses
      <4>1. losses' = losses /\ (faults' = faults \/ Fault)
        BY <1>11, Zenon DEF Persist
      <4>2. QED
        BY <4>1 DEF TypeOK, Fault
    <3>6. QED
      BY <3>1, <3>2, <3>3, <3>4, <3>5 DEF TypeOK
  <2>2. HoldersHold'
    BY <1>11 DEF Persist, TypeOK, Kept, Goto, Fault, Leave, Marked, Exists, HoldersHold, Tasks,
       Inside
  <2>3. SaveReady'
    BY <1>11 DEF Persist, TypeOK, Kept, Goto, Fault, Leave, Marked, Exists, SaveReady, Expired,
       Tasks, Session
  <2>4. RecordStored'
    BY <2>0, <2>a DEF TypeOK, RecordStored, Leave, Goto, Kept
  <2>5. SeenTrue'
    BY <1>11 DEF Persist, TypeOK, Kept, Goto, Fault, Leave, Marked, Exists, SeenTrue, Tasks,
       OutcomeNow
  <2>6. NothingOwed'
    BY <2>0, <2>a DEF TypeOK, NothingOwed, Leave, Goto
  <2>7. MediaTrue'
    BY <1>11 DEF Persist, TypeOK, Kept, Goto, Fault, Leave, Marked, Exists, MediaTrue, Tasks
  <2>8. QED
    BY <2>1, <2>2, <2>3, <2>4, <2>5, <2>6, <2>7
<1>12. ASSUME NEW t \in Tasks, Keep(t) PROVE IInv'
  <2>0. /\ pc[t] = "keep" /\ UNCHANGED <<record, media, lease, losses>>
        /\ \/ /\ Goto(t, "delete") /\ UNCHANGED <<lock, receipt, sick>>
              /\ \/ ~(Exists /\ session.fact) /\ UNCHANGED <<session, owed>>
                 \/ lock = t /\ session \in Session /\ session' = Staged(session) /\ ~owed'
           \/ /\ Done(t) /\ owed' = owed
              /\ \/ session' = session
                 \/ /\ lock = t /\ session \in Session /\ session' \in Session
                    /\ session' \in {Settling(session), Refused(session)}
        /\ faults' = faults \/ Fault
    BY <1>12, EditsAreSessions DEF Keep, StagingFails, Parked, TypeOK, Exists
  <2>a. session \in Session /\ session' # session => Exists /\ Exists'
    BY <2>0, EditsAreSessions DEF Exists
  <2>1. TypeOK'
    <3>1. session' \in Session \cup {NoSession}
      BY <2>0, EditsAreSessions DEF TypeOK
    <3>2. /\ pc' \in [Tasks -> PC] /\ seen' \in [Tasks -> Record \cup {NoRecord}]
          /\ lock' \in Tasks \cup {Free}
      BY <2>0, Moves DEF TypeOK, Done, PC, Tasks
    <3>3. /\ record' \in Record \cup {NoRecord} /\ media' \in BOOLEAN
          /\ receipt' \in {"none", "error", "stopped"}
      BY <2>0 DEF TypeOK, Done
    <3>4. lease' \in {"none", "paid", "spent"} /\ sick' \in BOOLEAN /\ owed' \in BOOLEAN
      <4>1. owed' \in BOOLEAN
        BY <1>12, Zenon DEF TypeOK, Keep
      <4>2. lease' = lease /\ (sick' = sick \/ sick' = (sick /\ t # Monitor))
        BY <2>0 DEF Done
      <4>3. QED
        BY <4>1, <4>2 DEF TypeOK
    <3>5. faults' \in 0..MaxFaults /\ losses' \in 0..MaxLosses
      BY <2>0 DEF TypeOK, Fault
    <3>6. QED
      BY <3>1, <3>2, <3>3, <3>4, <3>5 DEF TypeOK
  <2>2. HoldersHold'
    BY <2>0 DEF TypeOK, Goto, Done, Leave, HoldersHold, Tasks, Inside
  <2>3. SaveReady'
    BY <2>0, <2>a, EditsSay DEF TypeOK, Goto, Done, Leave, SaveReady, Exists, Expired, Tasks
  <2>4. RecordStored'
    BY <2>0, <2>a, EditsSay DEF TypeOK, Goto, Done, Leave, RecordStored, Exists, Tasks
  <2>5. SeenTrue'
    <3>1. \A u \in Tasks : pc'[u] = "persist" /\ lock' = u =>
            pc[u] = "persist" /\ lock = u /\ u # t /\ seen'[u] = seen[u]
      BY <2>0 DEF TypeOK, Goto, Done, Leave, Tasks
    <3>2. lock # t => session' = session
      BY <2>0
    <3>3. QED
      BY <3>1, <3>2 DEF SeenTrue, OutcomeNow, Exists
  <2>6. NothingOwed'
    BY <2>0, <2>a, EditsSay DEF TypeOK, Goto, Done, Leave, NothingOwed, Exists, Tasks
  <2>7. MediaTrue'
    BY <2>0 DEF TypeOK, Goto, Done, Leave, MediaTrue, Tasks
  <2>8. QED
    BY <2>1, <2>2, <2>3, <2>4, <2>5, <2>6, <2>7
<1>13. ASSUME NEW t \in Tasks, Delete(t) PROVE IInv'
  <2>1. TypeOK'
    BY <1>13 DEF Delete, TypeOK, Done, Leave, PC
  <2>2. HoldersHold'
    BY <1>13 DEF Delete, TypeOK, Done, Leave, HoldersHold, Tasks, Inside
  <2>3. SaveReady'
    BY <1>13 DEF Delete, TypeOK, Done, Leave, SaveReady, Exists, Expired, Tasks, Session
  <2>4. RecordStored'
    BY <1>13 DEF Delete, TypeOK, Done, Leave, RecordStored, Exists, Tasks
  <2>5. SeenTrue'
    BY <1>13 DEF Delete, TypeOK, Done, Leave, SeenTrue, Tasks, OutcomeNow, Exists
  <2>6. NothingOwed'
    BY <1>13 DEF Delete, TypeOK, Done, Leave, NothingOwed, Exists, Tasks
  <2>7. MediaTrue'
    BY <1>13 DEF Delete, TypeOK, Done, Leave, MediaTrue, Tasks
  <2>8. QED
    BY <2>1, <2>2, <2>3, <2>4, <2>5, <2>6, <2>7
<1>14. CASE Cut
  <2>1. TypeOK'
    <3>1. session' \in Session \cup {NoSession}
      BY <1>14, EditsAreSessions DEF TypeOK, Cut, Marked, Exists, Attempt
    <3>2. /\ pc' \in [Tasks -> PC] /\ seen' \in [Tasks -> Record \cup {NoRecord}]
          /\ lock' \in Tasks \cup {Free}
      BY <1>14, Moves DEF TypeOK, Cut, Done, PC, Tasks
    <3>3. /\ record' \in Record \cup {NoRecord} /\ media' \in BOOLEAN
          /\ receipt' \in {"none", "error", "stopped"}
      BY <1>14 DEF TypeOK, Cut, Kept, Done, RecordStored
    <3>4. lease' \in {"none", "paid", "spent"} /\ sick' \in BOOLEAN /\ owed' \in BOOLEAN
      BY <1>14, Zenon DEF TypeOK, Cut, Done
    <3>5. faults' \in 0..MaxFaults /\ losses' \in 0..MaxLosses
      <4>1. losses' = losses /\ (faults' = faults \/ Fault)
        BY <1>14, Zenon DEF Cut
      <4>2. QED
        BY <4>1 DEF TypeOK, Fault
    <3>6. QED
      BY <3>1, <3>2, <3>3, <3>4, <3>5 DEF TypeOK
  <2>2. HoldersHold'
    BY <1>14 DEF Cut, TypeOK, Fault, Leave, HoldersHold, Tasks, Inside
  <2>3. SaveReady'
    BY <1>14 DEF Cut, TypeOK, Fault, Leave, SaveReady, Exists, Expired
  <2>4. RecordStored'
    BY <1>14 DEF Cut, TypeOK, Fault, Leave, RecordStored, Exists, Tasks
  <2>5. SeenTrue'
    BY <1>14 DEF Cut, TypeOK, Fault, Leave, SeenTrue, Tasks, OutcomeNow, Exists
  <2>6. NothingOwed'
    BY <1>14 DEF Cut, TypeOK, Fault, Leave, NothingOwed, Exists, Tasks
  <2>7. MediaTrue'
    BY <1>14 DEF Cut, TypeOK, Fault, Leave, MediaTrue, Tasks
  <2>8. QED
    BY <2>1, <2>2, <2>3, <2>4, <2>5, <2>6, <2>7
<1>15. CASE Condemn
  <2>0. /\ pc[Monitor] = "idle" /\ lock = Free /\ UNCHANGED <<record, lock, owed>>
        /\ (Goto(Monitor, "release") /\ UNCHANGED <<media, receipt>>) \/ (UNCHANGED <<pc, seen>> /\ ~media')
        /\ \/ session' = session
           \/ session \in Session /\ session' = MediaLost /\ session' \in Session
    BY <1>15, EditsAreSessions DEF Condemn, TypeOK, Exists, MediaLost
  <2>1. TypeOK'
    <3>1. session' \in Session \cup {NoSession}
      BY <1>15, EditsAreSessions DEF TypeOK, Condemn, MediaLost, Exists
    <3>2. /\ pc' \in [Tasks -> PC] /\ seen' \in [Tasks -> Record \cup {NoRecord}]
          /\ lock' \in Tasks \cup {Free}
      BY <1>15, Moves DEF TypeOK, Condemn, Done, PC, Tasks
    <3>3. /\ record' \in Record \cup {NoRecord} /\ media' \in BOOLEAN
          /\ receipt' \in {"none", "error", "stopped"}
      BY <1>15 DEF TypeOK, Condemn, Kept, Done, RecordStored
    <3>4. lease' \in {"none", "paid", "spent"} /\ sick' \in BOOLEAN /\ owed' \in BOOLEAN
      BY <1>15, Zenon DEF TypeOK, Condemn, Done
    <3>5. faults' \in 0..MaxFaults /\ losses' \in 0..MaxLosses
      <4>1. losses' = losses /\ (faults' = faults \/ Fault)
        BY <1>15, Zenon DEF Condemn
      <4>2. QED
        BY <4>1 DEF TypeOK, Fault
    <3>6. QED
      BY <3>1, <3>2, <3>3, <3>4, <3>5 DEF TypeOK
  <2>2. HoldersHold'
    BY <1>15 DEF Condemn, TypeOK, MediaLost, Exists, Goto, Fault, HoldersHold, Tasks, Inside
  <2>3. SaveReady'
    BY <1>15 DEF Condemn, TypeOK, MediaLost, Exists, Goto, Fault, SaveReady, Expired, Tasks, Session
  <2>4. RecordStored'
    BY <2>0, EditsSay DEF TypeOK, RecordStored, Exists, Goto, Tasks
  <2>5. SeenTrue'
    BY <1>15 DEF Condemn, TypeOK, MediaLost, Exists, Goto, Fault, SeenTrue, Tasks, OutcomeNow
  <2>6. NothingOwed'
    BY <2>0, EditsSay DEF TypeOK, NothingOwed, Exists, Goto, Tasks
  <2>7. MediaTrue'
    <3>1. media' => media /\ receipt' = receipt /\ Goto(Monitor, "release")
      BY <2>0, Zenon
    <3>2. QED
      BY <3>1, <2>0 DEF TypeOK, MediaTrue, Goto, Tasks
  <2>8. QED
    BY <2>1, <2>2, <2>3, <2>4, <2>5, <2>6, <2>7
<1>16. CASE RetryMedia
  <2>1. TypeOK'
    <3>1. session' \in Session \cup {NoSession}
      BY <1>16, EditsAreSessions DEF TypeOK, RetryMedia, Marked, Exists, Attempt
    <3>2. /\ pc' \in [Tasks -> PC] /\ seen' \in [Tasks -> Record \cup {NoRecord}]
          /\ lock' \in Tasks \cup {Free}
      BY <1>16, Moves DEF TypeOK, RetryMedia, Done, PC, Tasks
    <3>3. /\ record' \in Record \cup {NoRecord} /\ media' \in BOOLEAN
          /\ receipt' \in {"none", "error", "stopped"}
      BY <1>16 DEF TypeOK, RetryMedia, Kept, Done, RecordStored
    <3>4. lease' \in {"none", "paid", "spent"} /\ sick' \in BOOLEAN /\ owed' \in BOOLEAN
      BY <1>16, Zenon DEF TypeOK, RetryMedia, Done
    <3>5. faults' \in 0..MaxFaults /\ losses' \in 0..MaxLosses
      <4>1. losses' = losses /\ (faults' = faults \/ Fault)
        BY <1>16, Zenon DEF RetryMedia
      <4>2. QED
        BY <4>1 DEF TypeOK, Fault
    <3>6. QED
      BY <3>1, <3>2, <3>3, <3>4, <3>5 DEF TypeOK
  <2>2. HoldersHold'
    BY <1>16 DEF RetryMedia, TypeOK, Exists, Goto, HoldersHold, Tasks, Inside
  <2>3. SaveReady'
    BY <1>16 DEF RetryMedia, TypeOK, Exists, Goto, SaveReady, Expired
  <2>4. RecordStored'
    BY <1>16 DEF RetryMedia, TypeOK, Exists, Goto, RecordStored, Tasks
  <2>5. SeenTrue'
    BY <1>16 DEF RetryMedia, TypeOK, Exists, Goto, SeenTrue, Tasks, OutcomeNow
  <2>6. NothingOwed'
    BY <1>16 DEF RetryMedia, TypeOK, Exists, Goto, NothingOwed, Tasks
  <2>7. MediaTrue'
    BY <1>16 DEF RetryMedia, TypeOK, Exists, Goto, MediaTrue, Tasks
  <2>8. QED
    BY <2>1, <2>2, <2>3, <2>4, <2>5, <2>6, <2>7
<1>17. CASE Sweep
  <2>1. TypeOK'
    BY <1>17 DEF Sweep, TypeOK, OutcomeNow, Exists, Session, Record, Tasks, PC
  <2>2. HoldersHold'
    BY <1>17 DEF Sweep, TypeOK, OutcomeNow, Exists, HoldersHold, Tasks, Inside
  <2>3. SaveReady'
    BY <1>17 DEF Sweep, TypeOK, OutcomeNow, Exists, SaveReady, Expired
  <2>4. RecordStored'
    BY <1>17 DEF Sweep, TypeOK, OutcomeNow, Exists, RecordStored, Tasks
  <2>5. SeenTrue'
    BY <1>17 DEF Sweep, TypeOK, OutcomeNow, Exists, SeenTrue, Tasks
  <2>6. NothingOwed'
    BY <1>17 DEF Sweep, TypeOK, OutcomeNow, Exists, NothingOwed, Tasks
  <2>7. MediaTrue'
    BY <1>17 DEF Sweep, TypeOK, OutcomeNow, Exists, MediaTrue, Tasks
  <2>8. QED
    BY <2>1, <2>2, <2>3, <2>4, <2>5, <2>6, <2>7
<1>18. CASE Renew
  <2>1. TypeOK'
    BY <1>18 DEF Renew, TypeOK, Exists, Session, Record, Tasks, PC
  <2>2. HoldersHold'
    BY <1>18 DEF Renew, TypeOK, Exists, HoldersHold, Tasks, Inside
  <2>3. SaveReady'
    BY <1>18 DEF Renew, TypeOK, Exists, SaveReady, Expired, Tasks, Session
  <2>4. RecordStored'
    BY <1>18 DEF Renew, TypeOK, Exists, RecordStored, Tasks
  <2>5. SeenTrue'
    BY <1>18 DEF Renew, TypeOK, Exists, SeenTrue, Tasks, OutcomeNow
  <2>6. NothingOwed'
    BY <1>18 DEF Renew, TypeOK, Exists, NothingOwed, Tasks
  <2>7. MediaTrue'
    BY <1>18 DEF Renew, TypeOK, Exists, MediaTrue, Tasks
  <2>8. QED
    BY <2>1, <2>2, <2>3, <2>4, <2>5, <2>6, <2>7
<1>19. CASE RunOut
  <2>1. TypeOK'
    BY <1>19 DEF RunOut, TypeOK, Session, Record, Tasks, PC
  <2>2. HoldersHold'
    BY <1>19 DEF RunOut, TypeOK, HoldersHold, Tasks, Inside
  <2>3. SaveReady'
    BY <1>19 DEF RunOut, TypeOK, SaveReady, Exists, Expired
  <2>4. RecordStored'
    BY <1>19 DEF RunOut, TypeOK, RecordStored, Exists, Tasks
  <2>5. SeenTrue'
    BY <1>19 DEF RunOut, TypeOK, SeenTrue, Tasks, OutcomeNow, Exists
  <2>6. NothingOwed'
    BY <1>19 DEF RunOut, TypeOK, NothingOwed, Exists, Tasks
  <2>7. MediaTrue'
    BY <1>19 DEF RunOut, TypeOK, MediaTrue, Tasks
  <2>8. QED
    BY <2>1, <2>2, <2>3, <2>4, <2>5, <2>6, <2>7
<1>20. CASE End
  <2>1. TypeOK'
    BY <1>20 DEF End, TypeOK, Exists, Session, Record, Tasks, PC
  <2>2. HoldersHold'
    BY <1>20 DEF End, TypeOK, Exists, HoldersHold, Tasks, Inside
  <2>3. SaveReady'
    BY <1>20 DEF End, TypeOK, Exists, SaveReady, Expired, Tasks, Session
  <2>4. RecordStored'
    BY <1>20 DEF End, TypeOK, Exists, RecordStored, Tasks, SaveReady, Session
  <2>5. SeenTrue'
    BY <1>20 DEF End, TypeOK, Exists, SeenTrue, Tasks, OutcomeNow
  <2>6. NothingOwed'
    BY <1>20 DEF End, TypeOK, Exists, NothingOwed, Tasks, SaveReady, Session
  <2>7. MediaTrue'
    BY <1>20 DEF End, TypeOK, Exists, MediaTrue, Tasks
  <2>8. QED
    BY <2>1, <2>2, <2>3, <2>4, <2>5, <2>6, <2>7
<1>21. CASE LockExpires
  <2>1. TypeOK'
    BY <1>21 DEF LockExpires, TypeOK, Session, Record, Tasks, PC
  <2>2. HoldersHold'
    BY <1>21 DEF LockExpires, TypeOK, HoldersHold, Tasks, Inside
  <2>3. SaveReady'
    BY <1>21 DEF LockExpires, TypeOK, SaveReady, Exists, Expired, Tasks, Session
  <2>4. RecordStored'
    BY <1>21 DEF LockExpires, TypeOK, RecordStored, Exists, Tasks
  <2>5. SeenTrue'
    BY <1>21 DEF LockExpires, TypeOK, SeenTrue, Tasks, OutcomeNow, Exists
  <2>6. NothingOwed'
    BY <1>21 DEF LockExpires, TypeOK, NothingOwed, Exists, Tasks
  <2>7. MediaTrue'
    BY <1>21 DEF LockExpires, TypeOK, MediaTrue, Tasks
  <2>8. QED
    BY <2>1, <2>2, <2>3, <2>4, <2>5, <2>6, <2>7
<1>22. CASE Restart
  <2>1. TypeOK'
    <3>1. session' \in Session \cup {NoSession}
      BY <1>22, EditsAreSessions DEF TypeOK, Restart, Marked, Exists, Attempt
    <3>2. /\ pc' \in [Tasks -> PC] /\ seen' \in [Tasks -> Record \cup {NoRecord}]
          /\ lock' \in Tasks \cup {Free}
      BY <1>22, Moves DEF TypeOK, Restart, Done, PC, Tasks
    <3>3. /\ record' \in Record \cup {NoRecord} /\ media' \in BOOLEAN
          /\ receipt' \in {"none", "error", "stopped"}
      BY <1>22 DEF TypeOK, Restart, Kept, Done, RecordStored
    <3>4. lease' \in {"none", "paid", "spent"} /\ sick' \in BOOLEAN /\ owed' \in BOOLEAN
      BY <1>22, Zenon DEF TypeOK, Restart, Done
    <3>5. faults' \in 0..MaxFaults /\ losses' \in 0..MaxLosses
      <4>1. losses' = losses /\ (faults' = faults \/ Fault)
        BY <1>22, Zenon DEF Restart
      <4>2. QED
        BY <4>1 DEF TypeOK, Fault
    <3>6. QED
      BY <3>1, <3>2, <3>3, <3>4, <3>5 DEF TypeOK
  <2>2. HoldersHold'
    BY <1>22 DEF Restart, TypeOK, Fault, Tasks, HoldersHold, Inside
  <2>3. SaveReady'
    BY <1>22 DEF Restart, TypeOK, Fault, Tasks, SaveReady, Exists, Expired
  <2>4. RecordStored'
    BY <1>22 DEF Restart, TypeOK, Fault, Tasks, RecordStored, Exists
  <2>5. SeenTrue'
    BY <1>22 DEF Restart, TypeOK, Fault, Tasks, SeenTrue, OutcomeNow, Exists
  <2>6. NothingOwed'
    BY <1>22 DEF Restart, TypeOK, Fault, Tasks, NothingOwed, Exists
  <2>7. MediaTrue'
    BY <1>22 DEF Restart, TypeOK, Fault, Tasks, MediaTrue
  <2>8. QED
    BY <2>1, <2>2, <2>3, <2>4, <2>5, <2>6, <2>7
<1>23. CASE UNCHANGED vars
  BY <1>23 DEF vars, TypeOK, HoldersHold, SaveReady, RecordStored, SeenTrue, NothingOwed,
     MediaTrue, Inside, Exists, Expired, OutcomeNow, Goto, Leave, Fault, Marked, Session,
     Record, PC, Tasks, Staged, ControlLost, Retried, AfterRelease, Built, Attempt, Kept, Done,
     MediaLost
<1>24. QED
  BY <1>1, <1>2, <1>3, <1>4, <1>5, <1>6, <1>7, <1>8, <1>9, <1>10, <1>11, <1>12, <1>13, <1>14,
     <1>15, <1>16, <1>17, <1>18, <1>19, <1>20, <1>21, <1>22, <1>23 DEF Next, Waits, Works

THEOREM Invariance == Spec => []IInv
<1>1. Init => IInv
  BY InvInit
<1>2. IInv /\ [Next]_vars => IInv'
  BY InvStep
<1>3. QED
  BY <1>1, <1>2, PTL DEF Spec

(***************************************************************************)
(* What the system promises.                                               *)
(***************************************************************************)
\* Every variable keeps its type.
THEOREM TypeCorrect == Spec => []TypeOK
<1>1. IInv => TypeOK
  BY DEF IInv
<1>2. QED
  BY <1>1, Invariance, PTL

\* A session is deleted only once the terminal record of its execution is stored,
\* after any number of failures, cut-offs, lost locks and restarts.
THEOREM RecordComesFirst == Spec => []RecordBeforeDelete
<1>1. IInv => RecordBeforeDelete
  BY DEF IInv, RecordStored, RecordBeforeDelete
<1>2. QED
  BY <1>1, Invariance, PTL

\* The usage fact of a lease failure is staged before its session goes.
THEOREM FactSurvives == Spec => []FactIsNotLost
<1>1. IInv => FactIsNotLost
  BY DEF IInv, NothingOwed, FactIsNotLost
<1>2. QED
  BY <1>1, Invariance, PTL

\* A record that reports a successful cleanup is true: no avatar is paid for.
THEOREM CleanupReportsTrue == Spec => []CleanupIsTrue
<1>1. IInv => CleanupIsTrue
  BY DEF IInv, MediaTrue, CleanupIsTrue
<1>2. QED
  BY <1>1, Invariance, PTL

\* The watcher ends an execution only when the stored lease is spent.
THEOREM PaidTimeRuns == Spec => OnlySpentLeasesEnd
<1>1. ASSUME IInv, [Next]_vars, Exists, session.cause = "none", session' # NoSession,
             session'.cause = "control_lost"
      PROVE  Expired
  <2> USE DEF IInv, TypeOK, Session, Exists, Goto
  <2>1. session' # session
    BY <1>1
  <2>2. (SaveLost \/ SaveLostFails) => pc[Watcher] = "save" /\ lock = Watcher
    BY <2>1 DEF SaveLost, SaveLostFails
  <2>3. CASE SaveLost \/ SaveLostFails
    BY <1>1, <2>2, <2>3 DEF SaveReady
  <2>4. ~Inline /\ ~Condemn /\ ~End
    BY <1>1 DEF Inline, Staged, Condemn, MediaLost, End
  <2>5. ASSUME NEW t \in Tasks
        PROVE  ~Teardown(t) /\ ~Persist(t) /\ ~Keep(t) /\ ~Delete(t)
    BY <1>1, <2>1, EditsSay DEF Teardown, Persist, Keep, StagingFails, Delete, Marked, Staged
  <2>6. QED
    BY <1>1, <2>1, <2>3, <2>4, <2>5 DEF Next, Waits, Works, Check, Expire, Settle, Stop, Cut,
      RetryMedia, Sweep, Renew, RunOut, LockExpires, Restart, ReleaseMedia, Enter, vars
<1>2. IInv /\ [Next]_vars
      => [Exists /\ session.cause = "none" /\ session' # NoSession /\ session'.cause = "control_lost"
          => Expired]_vars
  BY <1>1
<1>3. QED
  BY <1>2, Invariance, PTL DEF Spec, OnlySpentLeasesEnd

\* The record a stop stores says what the session says at that moment.
THEOREM RecordsAreCurrent == Spec => RecordIsCurrent
<1>1. ASSUME IInv, NEW t \in Tasks, losses = 0, pc[t] = "persist", record' = seen[t]
      PROVE  record'.outcome = OutcomeNow("control_lost")
  BY <1>1 DEF IInv, HoldersHold, SeenTrue, Inside
<1>2. IInv /\ [Next]_vars
      => [\A t \in Tasks :
            losses = 0 /\ pc[t] = "persist" /\ record = NoRecord /\ record' = seen[t]
            => record'.outcome = OutcomeNow("control_lost")]_vars
  BY <1>1
<1>3. QED
  BY <1>2, Invariance, PTL DEF Spec, RecordIsCurrent

(***************************************************************************)
(* A fact that is left to an operator.                                     *)
(***************************************************************************)
\* Only a failed session owes a fact, and a fact is refused only once the record is stored.
RefusedLate ==
  Exists => /\ session.fact => session.phase = "failed"
            /\ session.refusals # 0 => session.phase = "failed" /\ session.mark = "settling"

\* What the writes to a session do to its fact and to the count.
LEMMA EditsCount ==
  ASSUME session \in Session
  PROVE  /\ ControlLost.refusals = session.refusals /\ ControlLost.phase = "failed"
         /\ Staged(session).refusals = 0 /\ ~Staged(session).fact
         /\ Refused(session).mark = "settling" /\ Refused(session).phase = session.phase
         /\ \A s \in {Settling(session), MediaLost, [session EXCEPT !.flag = TRUE],
                      [session EXCEPT !.attempts = @ + 1, !.flag = TRUE]} :
              /\ s.refusals = session.refusals /\ s.mark \in {session.mark, "settling"}
              /\ s.phase \in {session.phase, "failed"} /\ s.fact = session.fact
         /\ LET s == [session EXCEPT !.phase = "ending", !.ended = TRUE] IN
              s.refusals = session.refusals /\ s.fact = session.fact
BY DEF Session, ControlLost, Staged, MediaLost, Settling, Refused

\* All ways in which a step changes the session.
SessionFrom ==
  \/ session' = session
  \/ session' = NoSession /\ (Exists => ~session.fact)
  \/ Exists /\ session.phase = "live" /\ session' = ControlLost
  \/ Exists /\ session.fact /\ session' = Staged(session) /\ ~owed'
  \/ /\ Exists /\ session' \in Session
     /\ session' \in {Settling(session), MediaLost, [session EXCEPT !.flag = TRUE],
                      [session EXCEPT !.attempts = @ + 1, !.flag = TRUE]}
  \/ Exists /\ session.fact /\ ~Parked /\ session' = Refused(session)
  \/ /\ Exists /\ session.phase = "live"
     /\ session' = [session EXCEPT !.phase = "ending", !.ended = TRUE]

LEMMA SessionFrame == IInv /\ [Next]_vars => SessionFrom
<1> SUFFICES ASSUME IInv, [Next]_vars PROVE SessionFrom
  OBVIOUS
<1>0. Exists => session \in Session
  BY DEF IInv, TypeOK, Exists
<1>1. CASE SaveLost \/ SaveLostFails
  BY <1>1 DEF SaveLost, SaveLostFails, IInv, SaveReady, SessionFrom
<1>2. CASE Inline \/ End
  BY <1>2 DEF Inline, End, SessionFrom
<1>3. CASE Condemn
  <2>1. session' = session \/ session' = MediaLost
    BY <1>3 DEF Condemn
  <2>2. Exists \/ MediaLost = session
    BY DEF MediaLost
  <2>3. QED
    BY <1>0, <2>1, <2>2, EditsAreSessions DEF SessionFrom
<1>4. ASSUME NEW t \in Tasks, Teardown(t) \/ Persist(t) PROVE SessionFrom
  <2>1. CASE Teardown(t)
    BY <1>0, <2>1, EditsAreSessions DEF Teardown, Marked, Attempt, SessionFrom
  <2>2. CASE Persist(t)
    BY <1>0, <2>2, EditsAreSessions DEF Persist, Marked, SessionFrom
  <2>3. QED
    BY <1>4, <2>1, <2>2
<1>5. ASSUME NEW t \in Tasks, Keep(t) PROVE SessionFrom
  BY <1>0, <1>5, EditsAreSessions DEF Keep, StagingFails, SessionFrom
<1>6. ASSUME NEW t \in Tasks, Delete(t) PROVE SessionFrom
  BY <1>6 DEF Delete, IInv, NothingOwed, SessionFrom
<1>7. ASSUME NEW t \in Tasks, ReleaseMedia(t) \/ Enter(t) PROVE SessionFrom
  BY <1>7 DEF ReleaseMedia, Enter, SessionFrom
<1>8. CASE \/ Check \/ Expire \/ Settle \/ Stop \/ Cut \/ RetryMedia \/ Sweep
           \/ Renew \/ RunOut \/ LockExpires \/ Restart \/ UNCHANGED vars
  BY <1>8 DEF Check, Expire, Settle, Stop, Cut, RetryMedia, Sweep, Renew, RunOut,
     LockExpires, Restart, vars, SessionFrom
<1>9. QED
  BY <1>1, <1>2, <1>3, <1>4, <1>5, <1>6, <1>7, <1>8 DEF Next, Waits, Works

\* The record of a session whose fact is left to an operator is stored, and it keeps
\* the fact until somebody stages it after all.
ParkedIsDone == Parked => record # NoRecord

ParkedStays == [][Parked => Exists' /\ (Parked' \/ ~owed')]_vars

\* A usage fact that was refused for good is not lost: its session, whose record is
\* stored, stays with it, whatever is stopped, retried or restarted.
THEOREM ParkedFactsStay == Spec => []ParkedIsDone /\ ParkedStays
<1>1. Init => RefusedLate
  BY DEF Init, RefusedLate
<1>2. IInv /\ RefusedLate /\ [Next]_vars => RefusedLate'
  <2> SUFFICES ASSUME IInv, RefusedLate, SessionFrom, Exists' PROVE RefusedLate'
    BY SessionFrame DEF RefusedLate
  <2>1. Exists => session \in Session
    BY DEF IInv, TypeOK, Exists
  <2>2. CASE session' = session
    BY <2>2 DEF RefusedLate, Exists
  <2>3. CASE session' = NoSession /\ (Exists => ~session.fact)
    BY <2>3 DEF Exists
  <2>4. CASE Exists /\ session.phase = "live" /\ session' = ControlLost
    BY <2>1, <2>4, EditsCount DEF RefusedLate
  <2>5. CASE Exists /\ session.fact /\ session' = Staged(session) /\ ~owed'
    BY <2>1, <2>5, EditsCount DEF RefusedLate
  <2>6. CASE /\ Exists /\ session' \in Session
             /\ session' \in {Settling(session), MediaLost, [session EXCEPT !.flag = TRUE],
                              [session EXCEPT !.attempts = @ + 1, !.flag = TRUE]}
    <3>1. /\ session'.refusals = session.refusals
          /\ session'.mark = session.mark \/ session'.mark = "settling"
          /\ session'.phase = session.phase \/ session'.phase = "failed"
          /\ session'.fact = session.fact
      BY <2>1, <2>6, EditsCount
    <3>2. QED
      BY <2>6, <3>1 DEF RefusedLate
  <2>7. CASE Exists /\ session.fact /\ ~Parked /\ session' = Refused(session)
    BY <2>1, <2>7, EditsCount DEF RefusedLate
  <2>8. CASE /\ Exists /\ session.phase = "live"
             /\ session' = [session EXCEPT !.phase = "ending", !.ended = TRUE]
    BY <2>1, <2>8, EditsCount DEF RefusedLate
  <2>9. QED
    BY <2>2, <2>3, <2>4, <2>5, <2>6, <2>7, <2>8 DEF SessionFrom
<1>3. IInv /\ RefusedLate => ParkedIsDone
  BY ConstantsAssumption DEF IInv, RecordStored, RefusedLate, Parked, ParkedIsDone
<1>4. IInv /\ RefusedLate /\ [Next]_vars => [Parked => Exists' /\ (Parked' \/ ~owed')]_vars
  <2> SUFFICES ASSUME IInv, RefusedLate, SessionFrom, Parked PROVE Exists' /\ (Parked' \/ ~owed')
    BY SessionFrame
  <2>1. /\ session \in Session /\ Exists /\ session.phase = "failed"
        /\ session.fact /\ session.refusals = UnstageableAfter
    BY ConstantsAssumption DEF IInv, TypeOK, Parked, Exists, RefusedLate
  <2>2. CASE session' = session
    BY <2>1, <2>2 DEF Parked, Exists
  <2>3. CASE Exists /\ session.fact /\ session' = Staged(session) /\ ~owed'
    BY <2>1, <2>3, EditsAreSessions, NullsAssumption DEF Exists
  <2>4. CASE /\ Exists /\ session' \in Session
             /\ session' \in {Settling(session), MediaLost, [session EXCEPT !.flag = TRUE],
                              [session EXCEPT !.attempts = @ + 1, !.flag = TRUE]}
    <3>1. session'.refusals = session.refusals /\ session'.fact = session.fact
      BY <2>1, <2>4, EditsCount
    <3>2. QED
      BY <2>1, <2>4, <3>1, NullsAssumption DEF Parked, Exists
  <2>5. QED
    BY <2>1, <2>2, <2>3, <2>4 DEF SessionFrom
<1>5. QED
  BY <1>1, <1>2, <1>3, <1>4, Invariance, PTL DEF Spec, ParkedStays
=============================================================================
