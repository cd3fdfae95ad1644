------------------------- MODULE MCLanSession -------------------------
(* The small instances of LanSession that TLC checks. *)
EXTENDS LanSession, TLC
======================================================================
