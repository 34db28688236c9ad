----------------------------- MODULE JobClaims -----------------------------
(***************************************************************************)
(* What the job_runs table promises about the execution of a message that  *)
(* may be delivered any number of times: the row that carries a message's  *)
(* task id is a claim on its execution.  A message is executed under one   *)
(* row when no row claims it, or under no row at all because its own row   *)
(* is already gone; a claim never moves to another row, and it ends only   *)
(* when its row is deleted.                                                *)
(***************************************************************************)
EXTENDS Naturals

CONSTANTS Task, Row
VARIABLES
  claim,             \* the existing rows that carry each task id
  executed           \* the rows under which each task was executed

claimVars == <<claim, executed>>

Init ==
  /\ claim = [t \in Task |-> {}]
  /\ executed = [t \in Task |-> {}]

\* No two tasks, and no two executions of one, use the same row.
Fresh(r) == \A t \in Task : r \notin executed[t]

Execute(t, r) ==
  /\ Fresh(r)
  /\ claim[t] = {}
  /\ claim' = [claim EXCEPT ![t] = {r}]
  /\ executed' = [executed EXCEPT ![t] = @ \cup {r}]

ExecuteWithoutRow(t, r) ==
  /\ Fresh(r)
  /\ executed' = [executed EXCEPT ![t] = @ \cup {r}]
  /\ UNCHANGED claim

Release(T) ==
  /\ claim' = [t \in Task |-> IF t \in T THEN {} ELSE claim[t]]
  /\ UNCHANGED executed

Next ==
  \/ \E t \in Task, r \in Row : Execute(t, r) \/ ExecuteWithoutRow(t, r)
  \/ \E T \in SUBSET Task : Release(T)

Spec == Init /\ [][Next]_claimVars
=============================================================================
