--------------------------- MODULE RemoteHistory ---------------------------
(***************************************************************************)
(* What the backups promise of the remote repository they share: nothing   *)
(* that reached it is taken back or rewritten, every backup reports once,  *)
(* and one that reports "pushed" or "unchanged" did not leave the answer   *)
(* open: the first only ever adds, the second leaves the remote alone.     *)
(***************************************************************************)
EXTENDS Sequences, SequencesExt

CONSTANTS Job, Open, Outcome

VARIABLES
  history,           \* the commits of the remote branch
  reported           \* what each backup reported, or Open

vars == <<history, reported>>

Init == /\ history # <<>>
        /\ reported = [j \in Job |-> Open]

Add == IsStrictPrefix(history, history')

\* A commit of someone else arrives, or of a backup whose answer is lost.
Extend == Add /\ UNCHANGED reported

Report(j) ==
  /\ reported[j] = Open
  /\ \E o \in Outcome : reported' = [reported EXCEPT ![j] = o]
  /\ \/ reported'[j] \in {"pushed", "rejected"} /\ Add
     \/ UNCHANGED history

Next == Extend \/ \E j \in Job : Report(j)

Spec == Init /\ [][Next]_vars
=============================================================================
