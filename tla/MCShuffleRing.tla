---------------------------- MODULE MCShuffleRing ----------------------------
(* Values for checking ShuffleRing on small instances. *)
EXTENDS ShuffleRing

\* Everybody on everybody's roster, everybody connected.
FullRoster == [p \in Peer |-> Peer]
Mesh == Peer \X Peer

\* As the program wires it: the host knows who joined, a joiner knows nobody;
\* streams run between the host and each joiner.
BuiltRoster == [p \in Peer |-> IF p = Host THEN Joiners ELSE {}]
Star == (Joiners \X {Host}) \cup ({Host} \X Joiners)

Nobody == {}
SomeJoiners == {1, 3}
=============================================================================
