------------------------------- MODULE MCTable -------------------------------
(* Values for checking Table on small instances. *)
EXTENDS Table

\* A hand another host has just started, of two players with two chips each: the
\* blinds are paid, one chip is behind.
HandUnderWay ==
    LET seated == [NewGameState EXCEPT
                      !.players = {1, 2}, !.inHand = {1, 2}, !.committed = {1, 2},
                      !.stack = [p \in Peer |-> IF p \in {1, 2} THEN 2 ELSE 0]]
    IN  PostBlinds(SetupBlinds(EnterPreFlop(seated)))

\* The update that host sends.  This node may not know all of its players, and
\* know others.
MCUpdates == {HandUnderWay}

NoUpdates == {}
=============================================================================
