---------------------------- MODULE RemoteCalls ----------------------------
(***************************************************************************)
(* What the backend promises of a command it is asked to give to an agent, *)
(* whatever becomes of messages, connections and the agent: it is recorded *)
(* before it can be executed, and executed at most once; who asked is told *)
(* once, and what was told then stands in the record, whenever the command *)
(* is executed.  A command that was refused is never executed.             *)
(***************************************************************************)
CONSTANTS
  Command,
  Result             \* what an execution may yield

VARIABLES
  recorded,          \* the record of each command, "none" without one
  result,            \* of its execution, "none" before
  told               \* what the one who asked was told, "none" before

vars == <<recorded, result, told>>

Init ==
  /\ recorded = [c \in Command |-> "none"]
  /\ result = [c \in Command |-> "none"]
  /\ told = [c \in Command |-> "none"]

New(c) == recorded[c] = "none" /\ told[c] = "none"

Refuse(c) ==
  /\ New(c)
  /\ \E a \in {"offline", "error"} : told' = [told EXCEPT ![c] = a]
  /\ UNCHANGED <<recorded, result>>

\* Whoever does not wait for the end is told that it is pending.
Send(c) ==
  /\ New(c)
  /\ recorded' = [recorded EXCEPT ![c] = "pending"]
  /\ told' \in {told, [told EXCEPT ![c] = "pending"]}
  /\ UNCHANGED result

Conclude(c, a) ==
  /\ recorded' = [recorded EXCEPT ![c] = a]
  /\ told' = [told EXCEPT ![c] = a]
  /\ UNCHANGED result

\* The command may have reached the agent, or not.
SendFails(c) == New(c) /\ Conclude(c, "error")

Execute(c) ==
  /\ recorded[c] # "none" /\ result[c] = "none"
  /\ \E o \in Result : result' = [result EXCEPT ![c] = o]
  /\ UNCHANGED <<recorded, told>>

Awaited(c) == recorded[c] = "pending" /\ told[c] = "none"

Answered(c) == Awaited(c) /\ result[c] # "none" /\ Conclude(c, result[c])

Abandoned(c) == Awaited(c) /\ \E a \in {"timeout", "error"} : Conclude(c, a)

Next ==
  \E c \in Command :
    Refuse(c) \/ Send(c) \/ SendFails(c) \/ Execute(c) \/ Answered(c) \/ Abandoned(c)

Spec == Init /\ [][Next]_vars
=============================================================================
