---------------------------- MODULE MCKeyExchange ----------------------------
(* Values for checking KeyExchange on small instances. *)
EXTENDS KeyExchange

\* The first joiner alone is dealt a card; everybody provides keys.
OneSeat == [p \in Peer |-> IF p = Host THEN {1} ELSE Peer]
Mesh == {l \in Peer \X Peer : l[1] # l[2]}

\* Every card is under the layers of all but its owner.
LayersOfOthers == [p \in Peer |-> Peer \ {p}]
=============================================================================
