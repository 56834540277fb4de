----------------------------- MODULE MCShowdown -----------------------------
(* Values for checking Showdown on a deck of six ranks, 2 to 7. *)
EXTENDS Showdown

Of(rank, suit) == [rank |-> rank, suit |-> suit]

\* Boards with a pair, two pairs or three of a kind on them, that complete
\* straights with and without the ace, flushes, straight flushes up to the royal
\* one, full houses and fours.
FullHouses == <<Of(5, 1), Of(5, 2), Of(3, 3), Of(3, 4), Of(7, 1)>>

Boards ==
    {FullHouses,
     <<Of(2, 1), Of(2, 2), Of(3, 1), Of(4, 1), Of(5, 1)>>,
     <<Of(7, 1), Of(7, 2), Of(5, 1), Of(4, 1), Of(3, 1)>>,
     <<Of(3, 1), Of(4, 2), Of(4, 3), Of(5, 3), Of(6, 4)>>,
     <<Of(6, 1), Of(6, 2), Of(6, 3), Of(2, 1), Of(3, 4)>>,
     <<Of(2, 3), Of(4, 3), Of(6, 3), Of(7, 3), Of(7, 2)>>,
     <<Of(7, 1), Of(5, 2), Of(2, 3), Of(6, 4), Of(6, 1)>>}

Holes ==
    <<<<Of(7, 3), Of(6, 3)>>, <<Of(6, 1), Of(2, 4)>>, <<Of(5, 4), Of(5, 3)>>,
      <<Of(3, 2), Of(2, 1)>>, <<Of(7, 4), Of(3, 1)>>, <<Of(4, 4), Of(2, 2)>>,
      <<Of(6, 4), Of(5, 1)>>, <<Of(4, 1), Of(3, 3)>>>>

\* Three of the holes, in their order (a third of these choices), and a board.
Triples ==
    {[hole |-> [p \in {1, 2, 3} |-> Holes[h[p]]], board |-> b] :
        h \in {i \in [{1, 2, 3} -> DOMAIN Holes] : i[1] < i[2] /\ i[2] < i[3] /\ (i[1] + i[2] + i[3]) % 3 = 0},
        b \in Boards}

NoCardTwice(d) == Cardinality(UNION {Range(s) : s \in Range(d.hole) \cup {d.board}}) = 11

MCDeals == {d \in Triples : NoCardTwice(d)}

\* The deal that is played out: the first player's kind is beaten by the third's
\* and that by the second's, unless turn and river come before the flop and Evaluate panics.
MCPlayed ==
    {d \in MCDeals : d.board = FullHouses /\ d.hole[1] = Holes[2] /\ d.hole[2] = Holes[3]}

\* The small blind has one chip left, the big blind is all in for less than it:
\* a call of the small blind takes a chip back.
MCBlinds == <<0, 2, 1>>
MCStack == <<0, 1, 0>>
=============================================================================
