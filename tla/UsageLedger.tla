----------------------------- MODULE UsageLedger -----------------------------
(***************************************************************************)
(* What the usage-evidence pipeline promises, with no stores, locks or     *)
(* processes: facts become true in some order, and each is reported once,  *)
(* under a number that follows the order in which facts became true.  Only *)
(* a fact that was waived (given up after a day of failed staging) may be  *)
(* overtaken.                                                              *)
(***************************************************************************)
EXTENDS Integers, FiniteSets, Sequences

CONSTANT Facts

VARIABLES
  committed,  \* the facts of each commit, in order
  number,     \* the usage number of each fact, 0 while it has none
  waived      \* facts that later ones need not wait for

ledgerVars == <<committed, number, waived>>

Known == UNION {committed[i] : i \in DOMAIN committed}
Reported == {k \in Facts : number[k] # 0}

Earlier(j, k) ==
  \E a, b \in DOMAIN committed : a < b /\ j \in committed[a] /\ k \in committed[b]

Init == committed = << >> /\ number = [k \in Facts |-> 0] /\ waived = {}

\* Facts become true, and none of them was true before.
Commit(D) ==
  /\ D \cap Known = {} /\ committed' = Append(committed, D)
  /\ UNCHANGED <<number, waived>>

\* Facts are reported under the next numbers, after every fact before them.
Report(S) ==
  LET last == Cardinality(Reported)
  IN /\ S \subseteq Known \ Reported
     /\ \E f \in [S -> (last + 1)..(last + Cardinality(S))] :
          /\ \A j, k \in S : f[j] = f[k] => j = k
          /\ number' = [k \in Facts |-> IF k \in S THEN f[k] ELSE number[k]]
     /\ \A j \in Facts \ waived, k \in S :
          Earlier(j, k) => number'[j] # 0 /\ number'[j] < number'[k]
     /\ UNCHANGED <<committed, waived>>

Waive(k) == waived' = waived \cup {k} /\ UNCHANGED <<committed, number>>

Next ==
  \/ \E D \in SUBSET Facts : Commit(D)
  \/ \E S \in SUBSET Facts : Report(S)
  \/ \E k \in Facts : Waive(k)

Spec == Init /\ [][Next]_ledgerVars
=============================================================================
