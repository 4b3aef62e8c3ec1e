---------------------------- MODULE MC_UbsanLog ----------------------------
(* Three writers on a ring of three slots (two usable): the log fills, a  *)
(* third writer finds it full, indices wrap, and two writers wait on each *)
(* other to publish, while the sysctl handler clears and dumps.           *)
EXTENDS UbsanLog

CONSTANTS w1, w2, w3

MCWriters == {w1, w2, w3}
=============================================================================
