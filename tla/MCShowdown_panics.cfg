SPECIFICATION Spec
CONSTANTS
    Ace = 7
    Suit = {1, 2, 3, 4}
    Player = {1, 2, 3}
    Host = 1
    NoPlayer = 0
    Deals <- MCDeals
    Played <- MCDeals
    Blinds <- MCBlinds
    BigBlind = 1
    Stack <- MCStack
    Amounts = {2}
    MayFold = {3}
    Damaged = {5}
    MaxReveals = 2
INVARIANT EvaluateReturns
CHECK_DEADLOCK FALSE
