--------------------------- MODULE MCAuthSession ---------------------------
(* Instances of AuthSession for TLC: two tabs of one browser. *)
EXTENDS AuthSession

CONSTANTS alice, left, right

MCTab == {left, right}
MCUser == {alice}
=============================================================================
