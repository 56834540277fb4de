------------------------------- MODULE MCLobby -------------------------------
(* Values for checking Lobby: a client that makes two rooms and one that makes *)
(* one; each may join the other's.                                             *)
EXTENDS Lobby

MCCreates == <<2, 1>>
=============================================================================
