---------------------------- MODULE MCConnections ----------------------------
(* Connections on small instances: its constants are model values. *)
EXTENDS Connections
=============================================================================
