----------------------------- MODULE MCHandStart -----------------------------
(* Values for checking HandStart on small instances. *)
EXTENDS HandStart

NoUpdates == {}
=============================================================================
