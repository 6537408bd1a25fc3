---------------------------- MODULE MCHeartbeat ----------------------------
(* Heartbeat with two correlated symbols of one class.                      *)
EXTENDS Heartbeat

CONSTANTS btc, eth, crypto

MCTwoSymbols == {btc, eth}
MCOneSymbol == {btc}
MCOneClass == {crypto}
MCClassOf == [s \in Symbol |-> crypto]
MCCorrelated == {{btc, eth}}

Calm == [kill |-> FALSE, drawdown |-> SLIGHT, daily |-> FALSE,
         weekly |-> FALSE, highVol |-> FALSE, event |-> FALSE,
         stressed |-> FALSE, flip |-> FALSE, garch |-> 100]

\* One threat at a time, and the boundaries between them.
MCConditions ==
  {Calm,
   [Calm EXCEPT !.kill = TRUE, !.drawdown = MAXIMAL],
   [Calm EXCEPT !.drawdown = EDGE, !.flip = TRUE],
   [Calm EXCEPT !.daily = TRUE],
   [Calm EXCEPT !.weekly = TRUE, !.event = TRUE, !.highVol = TRUE,
           !.garch = 200],
   [Calm EXCEPT !.stressed = TRUE, !.garch = 200]}
MCCalm == {Calm}
=============================================================================
