----------------------------- MODULE MCBandPool -----------------------------
(* The band pool; the .cfg files say whether the thread layout is on.      *)
EXTENDS BandPool
=============================================================================
