----------------------------- MODULE UsageOutbox -----------------------------
(***************************************************************************)
(* The usage-evidence outbox table of Runtime Postgres, as the statements  *)
(* of application/usage_evidence/outbox.py see it: each operator below is  *)
(* ONE transaction, from the table it reads to the table it leaves.        *)
(*                                                                         *)
(* A lifecycle row is keyed by its event id (a hash of identity, kind and  *)
(* interval), so the table of one execution identity is a function from    *)
(* facts to rows.  Facts are numbers because event ids are ordered and     *)
(* mark_ready breaks ties by that order.  A stage_token is a fresh uuid    *)
(* per attempt: here the pair of the fact and the number of the staging    *)
(* call, which also stands for the payload of that attempt (its body).     *)
(***************************************************************************)
EXTENDS Integers, FiniteSets

CONSTANT Facts  \* event ids of one execution identity

ASSUME FactsAssumption == Facts \subseteq Nat /\ IsFiniteSet(Facts)

\* "ready" stands for every status a numbered row can have (ready, delivered,
\* conflict, rejected): UsageDelivery tells these apart.
Status == {"none", "staged", "discarded", "ready"}

Row == [status : Status, token : Nat, version : Nat, number : Nat]

NoRow == [status |-> "none", token |-> 0, version |-> 0, number |-> 0]

Token == Facts \X Nat

TokenOf(rows, k) == <<k, rows[k].token>>

IsStaged(rows, t) == rows[t[1]].status = "staged" /\ rows[t[1]].token = t[2]

StagedTokens(rows) == {TokenOf(rows, k) : k \in {j \in Facts : rows[j].status = "staged"}}

(***************************************************************************)
(* stage: a still-staged row blocks the call; a missing or discarded row   *)
(* gets this attempt's token; a final row is returned unchanged.           *)
(***************************************************************************)
StageBlocked(rows, D) == \E k \in D : rows[k].status = "staged"

Stageable(rows, D) == {k \in D : rows[k].status \in {"none", "discarded"}}

Stage(rows, D, attempt, version) ==
  [k \in Facts |->
     IF k \in Stageable(rows, D)
     THEN [status |-> "staged", token |-> attempt, version |-> version, number |-> 0]
     ELSE rows[k]]

(***************************************************************************)
(* mark_ready: of the rows that still carry the presented token, number    *)
(* those that no other staged row precedes, in (version, event id) order.  *)
(* A discarded row is revived: the caller holds proof of commit.           *)
(***************************************************************************)
Presented(rows, items) ==
  {k \in Facts : rows[k].status \in {"staged", "discarded"} /\ TokenOf(rows, k) \in items}

\* Mutant: numbers a row without looking at earlier unresolved ones.
NoHorizon(rows, items, k) == TRUE

WithinHorizon(rows, items, k) ==
  \A j \in Facts \ Presented(rows, items) :
     rows[j].status = "staged" => rows[k].version <= rows[j].version

Flipped(rows, items) ==
  {k \in Presented(rows, items) : WithinHorizon(rows, items, k)}

Before(rows, j, k) ==
  \/ rows[j].version < rows[k].version
  \/ rows[j].version = rows[k].version /\ j < k

MarkReady(rows, items, last) ==
  LET F == Flipped(rows, items)
  IN [k \in Facts |->
        IF k \in F
        THEN [rows[k] EXCEPT !.status = "ready",
                             !.number = last + 1 + Cardinality({j \in F : Before(rows, j, k)})]
        ELSE rows[k]]

LastAfter(rows, items, last) == last + Cardinality(Flipped(rows, items))

(***************************************************************************)
(* release: an attempt that never became a fact is deleted (the request    *)
(* that staged it) or left as a tombstone (the sweeper).                   *)
(***************************************************************************)
\* Mutant: writes a status the column's CHECK does not allow.
ReleaseAsAborted(rows, items, delete) ==
  [k \in Facts |->
     IF rows[k].status = "staged" /\ TokenOf(rows, k) \in items
     THEN [rows[k] EXCEPT !.status = "aborted"] ELSE rows[k]]

Release(rows, items, delete) ==
  [k \in Facts |->
     IF rows[k].status = "staged" /\ TokenOf(rows, k) \in items
     THEN IF delete THEN NoRow ELSE [rows[k] EXCEPT !.status = "discarded", !.number = 0]
     ELSE rows[k]]
=============================================================================
