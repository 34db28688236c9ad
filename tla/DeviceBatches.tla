--------------------------- MODULE DeviceBatches ---------------------------
(***************************************************************************)
(* What a user is promised of the batches of device work that a page asks  *)
(* for, whatever becomes of requests and devices: every device of a batch  *)
(* gets one outcome, which is never revised and may be that it is left out *)
(* of the results; the page asks for one batch at a time, and shows the    *)
(* results of the one it waits for once every outcome is settled, and of   *)
(* no other, or loses sight of that batch for good.                        *)
(***************************************************************************)
CONSTANTS
  Batch, NoBatch,
  Device,
  Final              \* the outcomes of a device

VARIABLES
  asked,             \* the batches asked for so far
  outcome,           \* of each device in each batch, "none" before
  awaited,           \* the batch the page waits for
  shown              \* the batch whose outcomes it shows

vars == <<asked, outcome, awaited, shown>>

Init ==
  /\ asked = {}
  /\ outcome = [b \in Batch |-> [d \in Device |-> "none"]]
  /\ awaited = NoBatch
  /\ shown = NoBatch

Ask(b) ==
  /\ awaited = NoBatch /\ b \notin asked
  /\ asked' = asked \cup {b}
  /\ awaited' = b
  /\ shown' = NoBatch
  /\ UNCHANGED outcome

Decided(b, d) == outcome[b][d] # "none"

\* One device or several get their outcome, whether or not anybody waits.
Decide(b) ==
  /\ b \in asked
  /\ UNCHANGED <<asked, awaited, shown>>
  /\ outcome'[b] \in [Device -> Final \cup {"none"}]
  /\ outcome' = [outcome EXCEPT ![b] = outcome'[b]]
  /\ \A d \in Device : Decided(b, d) => outcome'[b][d] = outcome[b][d]

Show ==
  /\ awaited # NoBatch /\ \A d \in Device : Decided(awaited, d)
  /\ shown' = awaited
  /\ awaited' = NoBatch
  /\ UNCHANGED <<asked, outcome>>

\* The page is left or told of an error, or its results are put away.
GiveUp ==
  /\ awaited' = NoBatch
  /\ shown' \in {shown, NoBatch}
  /\ UNCHANGED <<asked, outcome>>

PutAway ==
  /\ shown' = NoBatch
  /\ UNCHANGED <<asked, outcome, awaited>>

Next == (\E b \in Batch : Ask(b) \/ Decide(b)) \/ Show \/ GiveUp \/ PutAway

Spec == Init /\ [][Next]_vars
=============================================================================
