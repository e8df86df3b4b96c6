---------------------------- MODULE UsageDelivery ----------------------------
(***************************************************************************)
(* Delivery of the numbered outbox rows to the billing receiver            *)
(* (usage_evidence/sender.py deliver_due and outbox.py claim, finish and   *)
(* purge).  Senders, one per replica, lease due rows in batches and post   *)
(* them one by one.  A post may be answered, refused for now, or time out  *)
(* with its message still on the way; a sender may die between any two     *)
(* steps, or be so slow that its leases run out and another sender takes   *)
(* the same rows.  The receiver accepts an event id once.                  *)
(***************************************************************************)
EXTENDS Integers, FiniteSets, Sequences

CONSTANTS
  Facts,       \* event ids
  Lifecycle,   \* the facts that are numbered; the others are cost rows
  Verdict,     \* what the receiver answers when it answers: 202, 409 or 400/413
  Senders,
  NoSender,    \* no lease
  NoFact,      \* no post in progress
  Batch,       \* rows per claim
  MaxFaults    \* bound: senders that stop, and leases that a live sender loses

Answer == {"accepted", "conflict", "rejected", "retry"}

ASSUME ConstantsAssumption ==
  /\ IsFiniteSet(Facts) /\ Lifecycle \subseteq Facts
  /\ Verdict \in [Facts -> Answer \ {"retry"}]
  /\ NoSender \notin Senders /\ NoFact \notin Facts
  /\ Batch \in Nat \ {0} /\ MaxFaults \in Nat

VARIABLES
  status, number,   \* the rows
  due,              \* next_attempt_at has passed
  lease,            \* lease_token: a sender holds at most one lease of a row
  last,             \* last_usage_sequence of the identity
  batch,            \* each sender: claimed rows not yet delivered
  sending, answer,  \* the row it is posting, and the answer it got
  late,             \* posts whose sender gave up waiting, still on the way
  log,              \* the receiver: event ids in the order of acceptance
  faults

table == <<status, number, due, lease, last>>
sender == <<batch, sending, answer>>
vars == <<table, sender, late, log, faults>>

Status == {"none", "ready", "delivered", "conflict", "rejected", "purged"}

Final == {"delivered", "conflict", "rejected", "purged"}

Init ==
  /\ status = [k \in Facts |-> "none"] /\ number = [k \in Facts |-> 0]
  /\ due = [k \in Facts |-> FALSE] /\ lease = [k \in Facts |-> NoSender] /\ last = 0
  /\ batch = [s \in Senders |-> {}] /\ sending = [s \in Senders |-> NoFact]
  /\ answer = [s \in Senders |-> "none"]
  /\ late = {} /\ log = << >> /\ faults = 0

(***************************************************************************)
(* Rows become deliverable: a lifecycle fact by mark_ready, under the next *)
(* number of its identity; a cost row as it is stored, without one.        *)
(***************************************************************************)
Publish(k) ==
  /\ status[k] = "none" /\ status' = [status EXCEPT ![k] = "ready"]
  /\ due' = [due EXCEPT ![k] = TRUE]
  /\ last' = IF k \in Lifecycle THEN last + 1 ELSE last
  /\ number' = IF k \in Lifecycle THEN [number EXCEPT ![k] = last + 1] ELSE number
  /\ UNCHANGED <<lease, sender, late, log, faults>>

(***************************************************************************)
(* The sender.                                                             *)
(***************************************************************************)
\* Mutant: rows go out as they fall due.
DueOnly(k) == status[k] = "ready" /\ due[k]

\* Mutant: a row that was ever leased is left to that sender.
UnleasedOnly(k) == status[k] = "ready" /\ due[k] /\ lease[k] = NoSender

\* A numbered row waits for its lower-numbered siblings to be final.
Eligible(k) ==
  /\ status[k] = "ready" /\ due[k]
  /\ number[k] # 0 => \A j \in Facts :
       number[j] # 0 /\ number[j] < number[k] => status[j] # "ready"

Claim(s, S) ==
  /\ batch[s] = {} /\ sending[s] = NoFact
  /\ S # {} /\ Cardinality(S) <= Batch /\ \A k \in S : Eligible(k)
  /\ lease' = [k \in Facts |-> IF k \in S THEN s ELSE lease[k]]
  /\ due' = [k \in Facts |-> due[k] /\ k \notin S]
  /\ batch' = [batch EXCEPT ![s] = S]
  /\ UNCHANGED <<status, number, last, sending, answer, late, log, faults>>

Post(s, k) ==
  /\ sending[s] = NoFact /\ k \in batch[s]
  /\ batch' = [batch EXCEPT ![s] = @ \ {k}] /\ sending' = [sending EXCEPT ![s] = k]
  /\ UNCHANGED <<table, answer, late, log, faults>>

\* The receiver keeps the first copy of an event id; any copy gets its answer.
Receive(k) ==
  log' = IF Verdict[k] = "accepted" /\ \A i \in DOMAIN log : log[i] # k
         THEN Append(log, k) ELSE log

Answered(s) ==
  /\ sending[s] # NoFact /\ answer[s] = "none"
  /\ Receive(sending[s]) /\ answer' = [answer EXCEPT ![s] = Verdict[sending[s]]]
  /\ UNCHANGED <<table, batch, sending, late, faults>>

\* 401, 503 and every other status: the receiver did not take it.
Unavailable(s) ==
  /\ sending[s] # NoFact /\ answer[s] = "none"
  /\ answer' = [answer EXCEPT ![s] = "retry"]
  /\ UNCHANGED <<table, batch, sending, late, log, faults>>

\* A transport error: the message may still arrive.
TimeOut(s) ==
  /\ sending[s] # NoFact /\ answer[s] = "none"
  /\ answer' = [answer EXCEPT ![s] = "retry"] /\ late' = late \cup {sending[s]}
  /\ UNCHANGED <<table, batch, sending, log, faults>>

\* A late copy arrives, or is lost.
Late(k) ==
  /\ k \in late /\ late' = late \ {k}
  /\ Receive(k) \/ UNCHANGED log
  /\ UNCHANGED <<table, sender, faults>>

\* Mutant: a conflict is taken for an earlier delivery.
ConflictDelivered(a) ==
  [accepted |-> "delivered", conflict |-> "delivered", rejected |-> "rejected", retry |-> "ready"][a]

\* Mutant: the answer is stored as it came.
AnswerItself(a) == a

\* The status an answer gives the row; a refused post leaves it ready.
Outcome(a) ==
  [accepted |-> "delivered", conflict |-> "conflict", rejected |-> "rejected", retry |-> "ready"][a]

\* Mutant: finishes the row by its event id alone.
FinishUnleased(s) ==
  /\ answer[s] # "none"
  /\ LET k == sending[s]
     IN /\ status' = [status EXCEPT ![k] = Outcome(answer[s])]
        /\ lease' = [lease EXCEPT ![k] = NoSender] /\ due' = [due EXCEPT ![k] = FALSE]
  /\ sending' = [sending EXCEPT ![s] = NoFact] /\ answer' = [answer EXCEPT ![s] = "none"]
  /\ UNCHANGED <<number, last, batch, late, log, faults>>

\* Only the current lease of a still-ready row decides its outcome.
Finish(s) ==
  /\ answer[s] # "none"
  /\ LET k == sending[s] IN
     \/ /\ lease[k] = s /\ status[k] = "ready"
        /\ status' = [status EXCEPT ![k] = Outcome(answer[s])]
        /\ lease' = [lease EXCEPT ![k] = NoSender] /\ due' = [due EXCEPT ![k] = FALSE]
     \/ ~(lease[k] = s /\ status[k] = "ready") /\ UNCHANGED <<status, lease, due>>
  /\ sending' = [sending EXCEPT ![s] = NoFact] /\ answer' = [answer EXCEPT ![s] = "none"]
  /\ UNCHANGED <<number, last, batch, late, log, faults>>

(***************************************************************************)
(* Time and faults.                                                        *)
(***************************************************************************)
Held(k) == \E s \in Senders : lease[k] = s /\ (k \in batch[s] \/ sending[s] = k)

\* next_attempt_at passes: a retry is due, or a lease has run out.  A live
\* sender loses its lease when a batch takes longer than lease_seconds.
FallDue(k) ==
  /\ status[k] = "ready" /\ ~due[k] /\ due' = [due EXCEPT ![k] = TRUE]
  /\ \/ ~Held(k) /\ UNCHANGED faults
     \/ Held(k) /\ faults < MaxFaults /\ faults' = faults + 1
  /\ UNCHANGED <<status, number, lease, last, sender, late, log>>

\* The process dies, the pass is cancelled or a statement fails: the rest of
\* the batch is dropped with its leases.
StopPass(s) ==
  /\ batch[s] # {} \/ sending[s] # NoFact
  /\ faults < MaxFaults /\ faults' = faults + 1
  /\ batch' = [batch EXCEPT ![s] = {}] /\ sending' = [sending EXCEPT ![s] = NoFact]
  /\ answer' = [answer EXCEPT ![s] = "none"]
  /\ late' = IF sending[s] # NoFact /\ answer[s] = "none" THEN late \cup {sending[s]} ELSE late
  /\ UNCHANGED <<table, log>>

\* Retention.
Purge(k) ==
  /\ status[k] \in Final \ {"purged"} /\ status' = [status EXCEPT ![k] = "purged"]
  /\ UNCHANGED <<number, due, lease, last, sender, late, log, faults>>

Next ==
  \/ \E k \in Facts : Publish(k) \/ FallDue(k) \/ Late(k) \/ Purge(k)
  \/ \E s \in Senders :
       \/ \E S \in SUBSET Facts : Claim(s, S)
       \/ \E k \in Facts : Post(s, k)
       \/ Answered(s) \/ Unavailable(s) \/ TimeOut(s) \/ Finish(s) \/ StopPass(s)

Spec == Init /\ [][Next]_vars

\* A running pass goes on; time passes; claims take the oldest due rows first,
\* so one that stays due has its turn; a receiver asked again and again answers.
Fairness ==
  /\ \A k \in Facts :
       /\ WF_vars(FallDue(k))
       /\ SF_vars(\E s \in Senders, S \in SUBSET Facts : k \in S /\ Claim(s, S))
  /\ \A s \in Senders :
       /\ WF_vars((\E k \in Facts : Post(s, k))
                    \/ Answered(s) \/ Unavailable(s) \/ TimeOut(s) \/ Finish(s))
       /\ SF_vars(Answered(s))

FairSpec == Spec /\ Fairness

(***************************************************************************)
(* What must hold.                                                         *)
(***************************************************************************)
\* Types of every variable.
TypeOK ==
  /\ status \in [Facts -> Status] /\ number \in [Facts -> Nat]
  /\ due \in [Facts -> BOOLEAN] /\ lease \in [Facts -> Senders \cup {NoSender}] /\ last \in Nat
  /\ batch \in [Senders -> SUBSET Facts] /\ sending \in [Senders -> Facts \cup {NoFact}]
  /\ answer \in [Senders -> Answer \cup {"none"}]
  /\ late \subseteq Facts /\ log \in Seq(Facts) /\ faults \in Nat

Accepted == {log[i] : i \in DOMAIN log}

\* The receiver accepts the facts of an identity in the order of their
\* numbers, and misses none it would accept, whatever copies arrive late.
AcceptedInOrder ==
  \A b \in DOMAIN log : \A j \in Facts :
     number[j] # 0 /\ number[j] < number[log[b]] /\ Verdict[j] = "accepted"
        => \E a \in 1..(b - 1) : log[a] = j

\* A row marked delivered was accepted.
DeliveredWasAccepted == \A k \in Facts : status[k] = "delivered" => k \in Accepted

\* A final outcome is never overwritten by a sender that lost its lease.
OutcomeIsFinal ==
  [][\A k \in Facts : status[k] \in Final => status'[k] \in {status[k], "purged"}]_vars

\* Rows do not stay behind: the outbox drains, whatever was lost, late or refused.
EveryRowSettles ==
  (\E k \in Facts : status[k] = "ready") ~> (\A k \in Facts : status[k] # "ready")
=============================================================================
