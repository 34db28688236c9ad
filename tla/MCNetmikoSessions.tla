------------------------- MODULE MCNetmikoSessions -------------------------
(* Instances of NetmikoSessions for TLC: two devices, one unreachable. *)
EXTENDS NetmikoSessions

CONSTANTS s1, s2, d1, d2

MCSession == {s1, s2}
MCDevice == {d1, d2}
MCHasIP == {d1}
=============================================================================
