------------------------- MODULE UsageDeliveryProofs -------------------------
(***************************************************************************)
(* Proofs about UsageDelivery, for any number of facts and senders, any    *)
(* batch size and any number of faults.                                    *)
(*                                                                         *)
(* The argument: once a numbered row has been claimed, every lower-        *)
(* numbered row has its final outcome, for good (SentAfterEarlier); a row  *)
(* that got its outcome from a receiver willing to take it has been        *)
(* accepted (SettledWasHeard).  So whatever copy reaches the receiver,     *)
(* however late, comes after everything it must come after.                *)
(***************************************************************************)
EXTENDS UsageDelivery, TLAPS

\* Copies of the row k exist outside the table, or existed at the receiver.
Sent(k) ==
  \/ \E s \in Senders : k \in batch[s] \/ sending[s] = k
  \/ k \in late \/ k \in Accepted

NumbersBounded ==
  \A k \in Facts : number[k] <= last /\ (status[k] = "none" => number[k] = 0)

SentAfterEarlier ==
  \A k \in Facts : Sent(k) =>
    /\ status[k] # "none"
    /\ \A j \in Facts : number[j] # 0 /\ number[j] < number[k] => status[j] \in Final

AnswerIsVerdict ==
  \A s \in Senders : answer[s] # "none" =>
    /\ sending[s] \in Facts
    /\ answer[s] \in {"retry", Verdict[sending[s]]}
    /\ answer[s] = "accepted" => sending[s] \in Accepted

SettledWasHeard ==
  \A k \in Facts : status[k] \in Final /\ (status[k] = "delivered" \/ Verdict[k] = "accepted")
     => k \in Accepted

IInv ==
  /\ TypeOK /\ NumbersBounded /\ SentAfterEarlier /\ AnswerIsVerdict /\ SettledWasHeard
  /\ AcceptedInOrder

(***************************************************************************)
(* What the receiver's step does to its log.                               *)
(***************************************************************************)
\* The receiver takes a fact at most once, and only a fact it accepts.
LEMMA ReceiveEffect ==
  ASSUME log \in Seq(Facts), NEW k \in Facts, Receive(k)
  PROVE  /\ log' \in Seq(Facts)
         /\ Accepted' = IF Verdict[k] = "accepted" THEN Accepted \cup {k} ELSE Accepted
         /\ \/ log' = log
            \/ log' = Append(log, k) /\ Verdict[k] = "accepted"
<1>1. CASE log' = log
  BY <1>1 DEF Receive, Accepted
<1>2. CASE log' = Append(log, k) /\ Verdict[k] = "accepted"
  <2>1. Len(log') = Len(log) + 1 /\ log' \in Seq(Facts)
    BY <1>2
  <2>2. \A i \in 1..Len(log) : log'[i] = log[i]
    BY <1>2
  <2>3. log'[Len(log) + 1] = k
    BY <1>2
  <2>4. DOMAIN log' = DOMAIN log \cup {Len(log) + 1} /\ DOMAIN log = 1..Len(log)
    BY <2>1
  <2>5. Accepted' = Accepted \cup {k}
    BY <2>2, <2>3, <2>4 DEF Accepted
  <2>6. QED
    BY <1>2, <2>1, <2>5
<1>3. QED
  BY <1>1, <1>2 DEF Receive

\* A receiver that hears of a sent fact keeps its log in the order of the numbers.
LEMMA ReceiveInOrder ==
  ASSUME IInv, NEW k \in Facts, Sent(k), Receive(k), UNCHANGED number
  PROVE  AcceptedInOrder'
<1>1. CASE log' = log
  BY <1>1 DEF IInv, AcceptedInOrder
<1>2. CASE log' = Append(log, k) /\ Verdict[k] = "accepted"
  <2>1. log \in Seq(Facts) /\ number \in [Facts -> Nat]
    BY DEF IInv, TypeOK
  <2>2. /\ DOMAIN log' = 1..(Len(log) + 1) /\ DOMAIN log = 1..Len(log) /\ Len(log) \in Nat
        /\ \A i \in 1..Len(log) : log'[i] = log[i]
        /\ log'[Len(log) + 1] = k
    BY <1>2, <2>1
  <2>3. SUFFICES ASSUME NEW b \in DOMAIN log', NEW j \in Facts,
                        number[j] # 0, number[j] < number[log'[b]], Verdict[j] = "accepted"
                 PROVE  \E a \in 1..(b - 1) : log'[a] = j
    BY DEF AcceptedInOrder
  <2>4. CASE b \in 1..Len(log)
    <3>1. \E a \in 1..(b - 1) : log[a] = j
      BY <2>2, <2>3, <2>4 DEF IInv, AcceptedInOrder
    <3>2. QED
      BY <3>1, <2>2, <2>4
  <2>5. CASE b = Len(log) + 1
    <3>1. status[j] \in Final
      BY <2>2, <2>3, <2>5 DEF IInv, SentAfterEarlier
    <3>2. j \in Accepted
      BY <3>1, <2>3 DEF IInv, SettledWasHeard
    <3>3. PICK a \in 1..Len(log) : log[a] = j
      BY <3>2, <2>2 DEF Accepted
    <3>4. QED
      BY <3>3, <2>2, <2>5
  <2>6. QED
    BY <2>2, <2>4, <2>5
<1>3. QED
  BY <1>1, <1>2, ReceiveEffect DEF IInv, TypeOK

(***************************************************************************)
(* The inductive invariant.                                                *)
(***************************************************************************)
LEMMA InvInit == Init => IInv
<1> SUFFICES ASSUME Init PROVE IInv
  OBVIOUS
<1>1. TypeOK
  BY ConstantsAssumption DEF Init, TypeOK, Status, Answer
<1>2. Accepted = {}
  BY DEF Init, Accepted
<1>3. NumbersBounded /\ AnswerIsVerdict
  BY DEF Init, NumbersBounded, AnswerIsVerdict
<1>4. SentAfterEarlier
  BY <1>2, ConstantsAssumption DEF Init, SentAfterEarlier, Sent
<1>5. SettledWasHeard
  BY DEF Init, SettledWasHeard, Final
<1>6. AcceptedInOrder
  BY DEF Init, AcceptedInOrder
<1>7. QED
  BY <1>1, <1>3, <1>4, <1>5, <1>6 DEF IInv

\* Types are kept by every step.
LEMMA TypeStep == TypeOK /\ [Next]_vars => TypeOK'
<1> SUFFICES ASSUME TypeOK, [Next]_vars PROVE TypeOK'
  OBVIOUS
<1> USE DEF TypeOK, table, sender
<1>1. ASSUME NEW k \in Facts, Publish(k) PROVE TypeOK'
  BY <1>1 DEF Publish, Status
<1>2. ASSUME NEW k \in Facts, FallDue(k) PROVE TypeOK'
  BY <1>2, ConstantsAssumption DEF FallDue
<1>3. ASSUME NEW k \in Facts, Late(k) PROVE TypeOK'
  BY <1>3, ReceiveEffect DEF Late
<1>4. ASSUME NEW k \in Facts, Purge(k) PROVE TypeOK'
  BY <1>4 DEF Purge, Status
<1>5. ASSUME NEW s \in Senders, NEW S \in SUBSET Facts, Claim(s, S) PROVE TypeOK'
  BY <1>5 DEF Claim
<1>6. ASSUME NEW s \in Senders, NEW k \in Facts, Post(s, k) PROVE TypeOK'
  BY <1>6 DEF Post
<1>7. ASSUME NEW s \in Senders, Answered(s) PROVE TypeOK'
  <2>1. sending[s] \in Facts
    BY <1>7 DEF Answered
  <2>2. log' \in Seq(Facts)
    BY <1>7, <2>1, ReceiveEffect DEF Answered
  <2>3. Verdict[sending[s]] \in Answer
    BY <2>1, ConstantsAssumption
  <2>4. QED
    BY <1>7, <2>2, <2>3 DEF Answered
<1>8. ASSUME NEW s \in Senders, Unavailable(s) PROVE TypeOK'
  BY <1>8 DEF Unavailable, Answer
<1>9. ASSUME NEW s \in Senders, TimeOut(s) PROVE TypeOK'
  BY <1>9 DEF TimeOut, Answer
<1>10. ASSUME NEW s \in Senders, Finish(s) PROVE TypeOK'
  <2>1. Outcome(answer[s]) \in Status
    BY <1>10 DEF Finish, Outcome, Answer, Status
  <2>2. \/ status' = [status EXCEPT ![sending[s]] = Outcome(answer[s])]
           /\ lease' = [lease EXCEPT ![sending[s]] = NoSender]
           /\ due' = [due EXCEPT ![sending[s]] = FALSE]
        \/ UNCHANGED <<status, lease, due>>
    BY <1>10 DEF Finish
  <2>3. status' \in [Facts -> Status]
    BY <2>1, <2>2
  <2>4. lease' \in [Facts -> Senders \cup {NoSender}]
    BY <2>2
  <2>5. due' \in [Facts -> BOOLEAN]
    BY <2>2
  <2>6. QED
    BY <1>10, <2>3, <2>4, <2>5 DEF Finish
<1>11. ASSUME NEW s \in Senders, StopPass(s) PROVE TypeOK'
  BY <1>11, ConstantsAssumption DEF StopPass
<1>12. CASE UNCHANGED vars
  BY <1>12 DEF vars
<1>13. QED
  BY <1>1, <1>2, <1>3, <1>4, <1>5, <1>6, <1>7, <1>8, <1>9, <1>10, <1>11, <1>12 DEF Next

\* The steps of a row: numbered, due again, a late copy of it, purged.
LEMMA RowStep ==
  ASSUME IInv, TypeOK', NEW k \in Facts, Publish(k) \/ FallDue(k) \/ Late(k) \/ Purge(k)
  PROVE  IInv'
<1> USE DEF IInv, table, sender
<1>1. CASE Publish(k)
  <2>1. \A j \in Facts : number'[j] # number[j] => j = k /\ number'[j] = last + 1
    BY <1>1 DEF Publish, TypeOK
  <2>2. \A j \in Facts : Sent(j)' <=> Sent(j)
    BY <1>1 DEF Publish, Sent, Accepted
  <2>3. \A j \in Facts : status[j] \in Final => status'[j] \in Final
    BY <1>1 DEF Publish, Final, TypeOK
  <2>4. NumbersBounded'
    BY <1>1 DEF Publish, NumbersBounded, TypeOK
  <2>5. SentAfterEarlier'
    <3>1. SUFFICES ASSUME NEW i \in Facts, Sent(i)
                   PROVE /\ status'[i] # "none"
                         /\ \A j \in Facts : number'[j] # 0 /\ number'[j] < number'[i]
                              => status'[j] \in Final
      BY <2>2 DEF SentAfterEarlier
    <3>2. status[i] # "none" /\ i # k
      BY <1>1, <3>1 DEF Publish, SentAfterEarlier
    <3>3. number'[i] = number[i] /\ number[i] <= last /\ status'[i] = status[i]
      BY <1>1, <2>1, <3>2 DEF NumbersBounded, Publish, TypeOK
    <3>4. \A j \in Facts : number'[j] < number'[i] => number'[j] = number[j]
      BY <2>1, <3>3 DEF TypeOK
    <3>5. QED
      BY <2>3, <3>1, <3>2, <3>3, <3>4 DEF SentAfterEarlier
  <2>6. AnswerIsVerdict'
    BY <1>1 DEF Publish, AnswerIsVerdict, Accepted
  <2>7. SettledWasHeard'
    BY <1>1 DEF Publish, SettledWasHeard, Accepted, Final, TypeOK
  <2>8. AcceptedInOrder'
    <3>1. SUFFICES ASSUME NEW b \in DOMAIN log, NEW j \in Facts, number'[j] # 0,
                          number'[j] < number'[log[b]], Verdict[j] = "accepted"
                   PROVE  \E a \in 1..(b - 1) : log[a] = j
      BY <1>1 DEF AcceptedInOrder, Publish
    <3>2. log[b] \in Facts /\ Sent(log[b])
      BY DEF TypeOK, Sent, Accepted
    <3>3. log[b] # k
      BY <1>1, <3>2 DEF SentAfterEarlier, Publish
    <3>4. number'[log[b]] = number[log[b]] /\ number[log[b]] <= last
      BY <2>1, <3>2, <3>3 DEF NumbersBounded
    <3>5. number'[j] = number[j]
      BY <2>1, <3>1, <3>2, <3>4 DEF TypeOK
    <3>6. QED
      BY <3>1, <3>4, <3>5 DEF AcceptedInOrder
  <2>9. QED
    BY <2>4, <2>5, <2>6, <2>7, <2>8
<1>2. CASE FallDue(k)
  BY <1>2 DEF FallDue, NumbersBounded, SentAfterEarlier, Sent, AnswerIsVerdict, SettledWasHeard,
              AcceptedInOrder, Accepted
<1>3. CASE Late(k)
  <2>1. Sent(k) /\ UNCHANGED <<number, status, last, batch, sending, answer>> /\ late' \subseteq late
    BY <1>3 DEF Late, Sent
  <2>2. Accepted' = Accepted \/ Accepted' = Accepted \cup {k}
    <3>1. CASE Receive(k)
      BY <3>1, ReceiveEffect DEF TypeOK
    <3>2. CASE UNCHANGED log
      BY <3>2 DEF Accepted
    <3>3. QED
      BY <1>3, <3>1, <3>2 DEF Late
  <2>3. \A j \in Facts : Sent(j)' => Sent(j)
    BY <2>1, <2>2 DEF Sent
  <2>4. NumbersBounded' /\ AnswerIsVerdict' /\ SettledWasHeard'
    BY <2>1, <2>2 DEF NumbersBounded, AnswerIsVerdict, SettledWasHeard
  <2>5. SentAfterEarlier'
    BY <2>1, <2>3 DEF SentAfterEarlier
  <2>6. AcceptedInOrder'
    <3>1. CASE Receive(k)
      BY <2>1, <3>1, ReceiveInOrder
    <3>2. CASE UNCHANGED log
      BY <2>1, <3>2 DEF AcceptedInOrder
    <3>3. QED
      BY <1>3, <3>1, <3>2 DEF Late
  <2>7. QED
    BY <2>4, <2>5, <2>6
<1>4. CASE Purge(k)
  <2>1. \A j \in Facts : /\ status'[j] # status[j] => j = k /\ status'[j] = "purged"
                         /\ status[j] \in Final <=> status'[j] \in Final
    BY <1>4 DEF Purge, TypeOK, Final
  <2>2. \A j \in Facts : Sent(j)' <=> Sent(j)
    BY <1>4 DEF Purge, Sent, Accepted
  <2>3. NumbersBounded' /\ AnswerIsVerdict' /\ AcceptedInOrder'
    BY <1>4, <2>1 DEF Purge, NumbersBounded, AnswerIsVerdict, AcceptedInOrder, Accepted
  <2>4. SentAfterEarlier'
    BY <1>4, <2>1, <2>2 DEF Purge, SentAfterEarlier
  <2>5. SettledWasHeard'
    BY <1>4, <2>1 DEF Purge, SettledWasHeard, Accepted
  <2>6. QED
    BY <2>3, <2>4, <2>5
<1>5. QED
  BY <1>1, <1>2, <1>3, <1>4

\* A claim takes only rows whose lower-numbered siblings are final.
LEMMA ClaimStep ==
  ASSUME IInv, TypeOK', NEW s \in Senders, NEW S \in SUBSET Facts, Claim(s, S)
  PROVE  IInv'
<1> USE DEF IInv, table, sender
<1>1. \A j \in Facts : Sent(j)' => Sent(j) \/ j \in S
  BY DEF Claim, Sent, Accepted, TypeOK
<1>2. \A i \in S, j \in Facts : /\ status[i] # "none"
                                /\ number[j] # 0 /\ number[j] < number[i] => status[j] \in Final
  BY DEF Claim, Eligible, NumbersBounded, TypeOK, Status, Final
<1>3. SentAfterEarlier'
  BY <1>1, <1>2 DEF Claim, SentAfterEarlier
<1>4. NumbersBounded' /\ AnswerIsVerdict' /\ SettledWasHeard' /\ AcceptedInOrder'
  BY DEF Claim, NumbersBounded, AnswerIsVerdict, SettledWasHeard, AcceptedInOrder, Accepted
<1>5. QED
  BY <1>3, <1>4

\* An answer reaches the sender that is posting, and the receiver first.
LEMMA AnsweredStep ==
  ASSUME IInv, TypeOK', NEW s \in Senders, Answered(s)
  PROVE  IInv'
<1> USE DEF IInv, table, sender
<1> DEFINE k == sending[s]
<1>1. k \in Facts /\ Sent(k)
  BY DEF Answered, Sent, TypeOK
<1>2. /\ UNCHANGED <<number, status, last, batch, sending, late>>
      /\ Receive(k) /\ answer' = [answer EXCEPT ![s] = Verdict[k]]
  BY DEF Answered
<1>3. Accepted' = IF Verdict[k] = "accepted" THEN Accepted \cup {k} ELSE Accepted
  BY <1>1, <1>2, ReceiveEffect DEF TypeOK
<1>4. \A j \in Facts : Sent(j)' => Sent(j)
  BY <1>1, <1>2, <1>3 DEF Sent
<1>5. SentAfterEarlier'
  BY <1>2, <1>4 DEF SentAfterEarlier
<1>6. AnswerIsVerdict'
  BY <1>1, <1>2, <1>3 DEF AnswerIsVerdict, TypeOK
<1>7. NumbersBounded' /\ SettledWasHeard'
  BY <1>2, <1>3 DEF NumbersBounded, SettledWasHeard
<1>8. AcceptedInOrder'
  BY <1>1, <1>2, ReceiveInOrder
<1>9. QED
  BY <1>5, <1>6, <1>7, <1>8

\* Only the holder of the lease of a ready row gives it an outcome.
LEMMA FinishStep ==
  ASSUME IInv, TypeOK', NEW s \in Senders, Finish(s)
  PROVE  IInv'
<1> USE DEF IInv, table, sender
<1> DEFINE k == sending[s]
<1>1. k \in Facts /\ answer[s] \in Answer /\ answer[s] \in {"retry", Verdict[k]}
  BY DEF Finish, AnswerIsVerdict, TypeOK
<1>2. /\ UNCHANGED <<number, last, batch, late, log>>
      /\ sending' = [sending EXCEPT ![s] = NoFact] /\ answer' = [answer EXCEPT ![s] = "none"]
  BY DEF Finish
<1>3. \A j \in Facts : status'[j] # status[j] =>
        j = k /\ status[k] = "ready" /\ status'[k] = Outcome(answer[s])
  BY <1>1 DEF Finish, TypeOK
<1>4. Outcome(answer[s]) # "none"
  BY <1>1 DEF Outcome, Answer
<1>5. Accepted' = Accepted
  BY <1>2 DEF Accepted
<1>6. \A j \in Facts : Sent(j)' => Sent(j)
  BY <1>2, <1>5, ConstantsAssumption DEF Sent, TypeOK
<1>7. \A j \in Facts : status[j] \in Final => status'[j] \in Final
  BY <1>3 DEF Final
<1>8. \A j \in Facts : status[j] # "none" => status'[j] # "none"
  BY <1>3, <1>4
<1>9. SentAfterEarlier'
  BY <1>2, <1>6, <1>7, <1>8 DEF SentAfterEarlier
<1>10. NumbersBounded'
  BY <1>2, <1>3, <1>4 DEF NumbersBounded
<1>11. AnswerIsVerdict'
  BY <1>2, <1>5 DEF AnswerIsVerdict, TypeOK
<1>12. SettledWasHeard'
  <2>1. SUFFICES ASSUME NEW j \in Facts, status'[j] \in Final,
                        status'[j] = "delivered" \/ Verdict[j] = "accepted"
                 PROVE  j \in Accepted
    BY <1>5 DEF SettledWasHeard
  <2>2. CASE status'[j] = status[j]
    BY <2>1, <2>2 DEF SettledWasHeard
  <2>3. CASE status'[j] # status[j]
    <3>1. j = k /\ status'[k] = Outcome(answer[s])
      BY <1>3, <2>3
    <3>2. answer[s] # "retry"
      BY <2>1, <3>1 DEF Outcome, Final
    <3>3. answer[s] = "accepted"
      BY <1>1, <2>1, <3>1, <3>2, ConstantsAssumption DEF Outcome, Answer
    <3>4. QED
      BY <3>1, <3>3 DEF AnswerIsVerdict, Finish
  <2>4. QED
    BY <2>2, <2>3
<1>13. AcceptedInOrder'
  BY <1>2 DEF AcceptedInOrder
<1>14. QED
  BY <1>9, <1>10, <1>11, <1>12, <1>13

\* The other steps of a sender move a row from its batch to its post, or drop it.
LEMMA SenderStep ==
  ASSUME IInv, TypeOK', NEW s \in Senders,
         \/ \E k \in Facts : Post(s, k)
         \/ Unavailable(s) \/ TimeOut(s) \/ StopPass(s)
  PROVE  IInv'
<1> USE DEF IInv, table, sender
<1>1. UNCHANGED <<status, number, last, log>>
  BY DEF Post, Unavailable, TimeOut, StopPass
<1>2. Accepted' = Accepted
  BY <1>1 DEF Accepted
<1>3. \A j \in Facts : Sent(j)' => Sent(j)
  <2>1. CASE \E k \in Facts : Post(s, k)
    BY <1>2, <2>1 DEF Post, Sent, TypeOK
  <2>2. CASE Unavailable(s)
    BY <1>2, <2>2 DEF Unavailable, Sent
  <2>3. CASE TimeOut(s)
    BY <1>2, <2>3 DEF TimeOut, Sent
  <2>4. CASE StopPass(s)
    BY <1>2, <2>4, ConstantsAssumption DEF StopPass, Sent, TypeOK
  <2>5. QED
    BY <2>1, <2>2, <2>3, <2>4
<1>4. SentAfterEarlier'
  BY <1>1, <1>3 DEF SentAfterEarlier
<1>5. AnswerIsVerdict'
  <2>1. CASE \E k \in Facts : Post(s, k)
    BY <1>2, <2>1, ConstantsAssumption DEF Post, AnswerIsVerdict, TypeOK
  <2>2. CASE Unavailable(s)
    BY <1>2, <2>2 DEF Unavailable, AnswerIsVerdict, TypeOK
  <2>3. CASE TimeOut(s)
    BY <1>2, <2>3 DEF TimeOut, AnswerIsVerdict, TypeOK
  <2>4. CASE StopPass(s)
    BY <1>2, <2>4 DEF StopPass, AnswerIsVerdict, TypeOK
  <2>5. QED
    BY <2>1, <2>2, <2>3, <2>4
<1>6. NumbersBounded' /\ SettledWasHeard' /\ AcceptedInOrder'
  BY <1>1, <1>2 DEF NumbersBounded, SettledWasHeard, AcceptedInOrder
<1>7. QED
  BY <1>4, <1>5, <1>6

\* Every step keeps the inductive invariant.
LEMMA InvStep == IInv /\ [Next]_vars => IInv'
<1> SUFFICES ASSUME IInv, [Next]_vars PROVE IInv'
  OBVIOUS
<1>1. TypeOK'
  BY TypeStep DEF IInv
<1>2. CASE UNCHANGED vars
  BY <1>1, <1>2 DEF vars, table, sender, IInv, NumbersBounded, SentAfterEarlier, Sent,
       AnswerIsVerdict, SettledWasHeard, AcceptedInOrder, Accepted
<1>3. CASE Next
  BY <1>1, <1>3, RowStep, ClaimStep, AnsweredStep, FinishStep, SenderStep DEF Next
<1>4. QED
  BY <1>2, <1>3

(***************************************************************************)
(* The theorems.                                                           *)
(***************************************************************************)
\* The types of the table, the senders and the receiver are kept by every run.
THEOREM TypeCorrect == Spec => []TypeOK
<1>1. Init => TypeOK
  BY InvInit DEF IInv
<1>2. QED
  BY <1>1, TypeStep, PTL DEF Spec

\* The receiver accepts the facts of an identity in the order of their numbers
\* and misses none it would accept, whatever senders die, lose their leases or
\* leave copies on the way.
THEOREM DeliveryInOrder == Spec => []AcceptedInOrder
<1>1. IInv => AcceptedInOrder
  BY DEF IInv
<1>2. QED
  BY <1>1, InvInit, InvStep, PTL DEF Spec

\* A row marked delivered was accepted by the receiver.
THEOREM DeliveredIsAccepted == Spec => []DeliveredWasAccepted
<1>1. IInv => DeliveredWasAccepted
  BY DEF IInv, SettledWasHeard, DeliveredWasAccepted, Final
<1>2. QED
  BY <1>1, InvInit, InvStep, PTL DEF Spec

\* No step takes back or replaces a final outcome: a sender that lost its lease
\* cannot overwrite what another one recorded.
THEOREM OutcomesAreFinal == Spec => OutcomeIsFinal
<1> DEFINE Kept == \A k \in Facts : status[k] \in Final => status'[k] \in {status[k], "purged"}
<1>1. TypeOK /\ [Next]_vars => [Kept]_vars
  <2> SUFFICES ASSUME TypeOK, Next PROVE Kept
    OBVIOUS
  <2> USE DEF table, sender, Final, TypeOK
  <2>1. ASSUME NEW k \in Facts, Publish(k) PROVE Kept
    BY <2>1 DEF Publish
  <2>2. ASSUME NEW k \in Facts, FallDue(k) \/ Late(k) \/ Purge(k) PROVE Kept
    BY <2>2 DEF FallDue, Late, Purge
  <2>3. ASSUME NEW s \in Senders, NEW S \in SUBSET Facts, Claim(s, S) PROVE Kept
    BY <2>3 DEF Claim
  <2>4. ASSUME NEW s \in Senders, NEW k \in Facts, Post(s, k) PROVE Kept
    BY <2>4 DEF Post
  <2>5. ASSUME NEW s \in Senders,
               Answered(s) \/ Unavailable(s) \/ TimeOut(s) \/ StopPass(s)
        PROVE  Kept
    BY <2>5 DEF Answered, Unavailable, TimeOut, StopPass
  <2>6. ASSUME NEW s \in Senders, Finish(s) PROVE Kept
    BY <2>6 DEF Finish
  <2>7. QED
    BY <2>1, <2>2, <2>3, <2>4, <2>5, <2>6 DEF Next
<1>2. QED
  BY <1>1, TypeCorrect, PTL DEF Spec, OutcomeIsFinal
=============================================================================
