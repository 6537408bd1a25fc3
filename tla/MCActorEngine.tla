---------------------------- MODULE MCActorEngine ----------------------------
(* ActorEngine with one or two symbols, and one order of two lots.          *)
EXTENDS ActorEngine

CONSTANTS btc, eth, buy

MCTwoSymbols == {btc, eth}
MCOneSymbol == {btc}
MCOneOrder == {buy}

MCSymbolOf == [o \in Order |-> btc]
MCBuys == Order
MCQty == [o \in Order |-> 2]
MCRiskLevel == {0, 1}
=============================================================================
