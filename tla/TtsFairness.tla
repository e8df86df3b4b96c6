----------------------------- MODULE TtsFairness -----------------------------
(***************************************************************************)
(* The selection policy of the TTS scheduler (tts/scheduler/fairness.py):  *)
(* FairnessSelector as a pure function of the pending population, which of *)
(* its requests are aged, and the number of batch slots.                   *)
(*                                                                         *)
(* The population is one sequence in admission order; the code's deque of  *)
(* a session and priority is the subsequence of its requests.  Sessions    *)
(* are numbers: the code sorts session ids.                                *)
(***************************************************************************)
EXTENDS SequencesExt, Orders

CONSTANTS
  Callers,     \* each has at most one request in the scheduler
  SessionOf,   \* the session a caller speaks for
  High,        \* callers with priority HIGH; the others are NORMAL
  Quantum,     \* FairnessConfig.quantum
  AgingBoost   \* FairnessConfig.aging_boost

ASSUME FairnessAssumption ==
  /\ SessionOf \in [Callers -> Nat] /\ High \subseteq Callers
  /\ {Quantum, AgingBoost} \subseteq Nat \ {0}

Sessions == {SessionOf[c] : c \in Callers}

SameQueue(c, d) == SessionOf[c] = SessionOf[d] /\ (c \in High <=> d \in High)

(***************************************************************************)
(* One tier: deficit round robin over its sessions.  A tally holds what is *)
(* left of each session's queue (aged requests first), the credits, the    *)
(* sessions still active and the requests picked.                          *)
(***************************************************************************)
AgedFirst(q, aged) == Only(q, aged) \o Without(q, aged)

QueueOf(tier, s) == Only(tier, {c \in Callers : SessionOf[c] = s})

HasAged(q, aged) == q # << >> /\ Head(q) \in aged

StartTally(tier, aged) ==
  [left   |-> [s \in Sessions |-> AgedFirst(QueueOf(tier, s), aged)],
   credit |-> [s \in Sessions |-> 0],
   active |-> {s \in Sessions : QueueOf(tier, s) # << >>},
   picked |-> << >>]

\* Credit is given when every active session has used up its own.
Credited(t, aged) ==
  IF \E s \in t.active : t.credit[s] > 0 THEN t
  ELSE [t EXCEPT !.credit = [s \in Sessions |->
          IF s \notin t.active THEN t.credit[s]
          ELSE t.credit[s] + (IF HasAged(t.left[s], aged) THEN AgingBoost ELSE Quantum)]]

\* Sessions with aged requests are visited first, then by session id.
VisitOrder(t, aged) ==
  LET hasAged(s) == HasAged(t.left[s], aged)
  IN InOrder(t.active, {p \in t.active \X t.active :
       IF hasAged(p[1]) = hasAged(p[2]) THEN p[1] < p[2] ELSE hasAged(p[1])})

\* Mutant: the newest request of a session is picked first.
VisitNewest(t, s, limit) ==
  IF Len(t.picked) >= limit \/ t.credit[s] <= 0 THEN t
  ELSE IF t.left[s] = << >> THEN [t EXCEPT !.active = @ \ {s}]
  ELSE [t EXCEPT !.left[s] = Front(@), !.credit[s] = @ - 1,
                 !.picked = Append(@, Last(t.left[s]))]

Visit(t, s, limit) ==
  IF Len(t.picked) >= limit \/ t.credit[s] <= 0 THEN t
  ELSE IF t.left[s] = << >> THEN [t EXCEPT !.active = @ \ {s}]
  ELSE [t EXCEPT !.left[s] = Tail(@), !.credit[s] = @ - 1,
                 !.picked = Append(@, Head(t.left[s]))]

Round(t, aged, limit) ==
  LET order == VisitOrder(t, aged)
      visited[i \in 0..Len(order)] ==
        IF i = 0 THEN Credited(t, aged) ELSE Visit(visited[i - 1], order[i], limit)
  IN visited[Len(order)]

\* Every round picks a request or retires a session, which bounds their number.
TierPicks(tier, aged, limit) ==
  LET after[n \in 0..(Len(tier) + Len(tier))] ==
        IF n = 0 THEN StartTally(tier, aged)
        ELSE LET t == after[n - 1]
             IN IF Len(t.picked) >= limit \/ t.active = {} THEN t ELSE Round(t, aged, limit)
  IN after[Len(tier) + Len(tier)].picked

(***************************************************************************)
(* Both tiers, after the slot reserved for the oldest aged NORMAL request. *)
(***************************************************************************)
\* Mutant: no slot is reserved for aged NORMAL work.
NoReserve(population, aged) == << >>

Reserve(population, aged) ==
  LET old == Only(population, aged \ High)
  IN SubSeq(old, 1, IF old = << >> THEN 0 ELSE 1)

Snapshot(population, reserve) == Without(population, ToSet(reserve))

Select(population, aged, limit) ==
  LET reserve == Reserve(population, aged)
      rest    == Snapshot(population, reserve)
      high    == TierPicks(Only(rest, High), aged, limit - Len(reserve))
      normal  == TierPicks(Without(rest, High), aged, limit - Len(reserve) - Len(high))
  IN reserve \o high \o normal
=============================================================================
