------------------------------ MODULE Backtest -------------------------------
(***************************************************************************)
(* The replay engines: run_backtest (backtest/engine.py), one asset and a   *)
(* gap-aware exit, and run_portfolio_backtest (backtest/portfolio.py), all  *)
(* assets on one account with a plain intrabar exit.  Both are the same     *)
(* loop over bars.  Prices, slippage and fees are integers per unit and     *)
(* every position is one unit.                                              *)
(***************************************************************************)
EXTENDS Integers, Sequences, FiniteSets, SequencesExt, FiniteSetsExt

CONSTANTS
    Assets,         \* the assets, a sequence in alphabetical order
    Frames,         \* the timestamps bars may have
    Bars,           \* possible bars: [open, high, low, close]
    Trail,          \* trailing distance, or 0 for a fixed stop
    MaxHoldBars,    \* time stop
    Slippage, Fee,  \* per unit and fill
    Reach,          \* distances of a signal's stop and target from its entry
    Risks,          \* risk_pct of orders
    HeatCap,        \* portfolio heat cap of the risk engine
    MaxDrawdown     \* settled loss from the peak at which it stops entries

AssetSet == ToSet(Assets)

(* A bar is a candle of the exchange: it opens and closes within its range. *)
ASSUME BacktestAssumption ==
    /\ Assets \in Seq(AssetSet) /\ Frames \subseteq Int
    /\ \A bar \in Bars : /\ {bar.open, bar.high, bar.low, bar.close} \subseteq Int
                         /\ {bar.open, bar.close} \subseteq bar.low .. bar.high
    /\ {Trail, Slippage, Fee, Reach} \subseteq Nat /\ MaxHoldBars \in Nat \ {0}

VARIABLES
    engine,     \* "single" for run_backtest, or "portfolio"
    calendar,   \* per asset: the timestamps of its own candles
    left,       \* bars of the merged timeline not yet replayed: <<timestamp, place of the asset>>
    book,       \* per asset: its open trade, or Flat
    lastClose,  \* per asset: its last close
    settled,    \* realized equity
    peak,       \* its maximum
    curve,      \* the last point of the equity curve
    exit,       \* history: the trade of the last exit, its bar and its price
    over        \* have the open trades been closed at the end of the data

backtestVars == <<engine, calendar, left, book, lastClose, settled, peak, curve, exit, over>>

Flat == [side |-> "flat"]
NoExit == [reason |-> "none"]
Start == 0
Sign(side) == IF side = "long" THEN 1 ELSE -1

Timeline == {b \in Frames \X (1 .. Len(Assets)) : b[1] \in calendar[Assets[b[2]]]}

\* Bars are merged by timestamp, and at the same timestamp by asset.
Before(b, c) == b[1] < c[1] \/ (b[1] = c[1] /\ b[2] < c[2])
Due(b) == \A c \in left : ~Before(c, b)

BacktestInit ==
    /\ engine \in {"single", "portfolio"}
    /\ calendar \in [AssetSet -> SUBSET Frames]
    /\ engine = "single" => Cardinality({a \in AssetSet : calendar[a] # {}}) = 1
    /\ left = Timeline
    /\ book = [a \in AssetSet |-> Flat]
    /\ lastClose = [a \in AssetSet |-> 0]
    /\ settled = Start
    /\ peak = Start
    /\ curve = Start
    /\ exit = NoExit
    /\ over = FALSE

(* The exit of a bar: the stop before the target, and after an open beyond   *)
(* the stop the open itself, if the engine looks at it.                      *)
StopTouched(trade, bar) ==
    IF trade.side = "long" THEN bar.low <= trade.stop ELSE bar.high >= trade.stop
TargetTouched(trade, bar) ==
    IF trade.side = "long" THEN bar.high >= trade.target ELSE bar.low <= trade.target
GapThroughStop(trade, bar) ==
    IF trade.side = "long" THEN bar.open < trade.stop ELSE bar.open > trade.stop

Touched(trade, bar) ==
    CASE StopTouched(trade, bar) -> [reason |-> "stop", price |-> trade.stop]
      [] ~StopTouched(trade, bar) /\ TargetTouched(trade, bar) ->
           [reason |-> "target", price |-> trade.target]
      [] ~StopTouched(trade, bar) /\ ~TargetTouched(trade, bar)
         /\ trade.held + 1 >= MaxHoldBars -> [reason |-> "time_stop", price |-> bar.close]
      [] OTHER -> NoExit

\* Mutant: the open is not looked at.
CheckExitBlind(trade, bar) == Touched(trade, bar)

CheckExit(trade, bar) ==
    IF engine = "single" /\ GapThroughStop(trade, bar) THEN [reason |-> "stop", price |-> bar.open]
    ELSE Touched(trade, bar)

\* Entries and exits both fill Slippage worse than their price.
NetPnl(trade, price) ==
    Sign(trade.side) * (price - trade.entry) - Slippage - 2 * Fee

Trailed(trade, bar) ==
    IF Trail = 0 THEN trade.stop
    ELSE IF trade.side = "long" THEN Max({trade.stop, bar.high - Trail})
         ELSE Min({trade.stop, bar.low + Trail})

Unrealized(trades, marks) ==
    MapThenSumSet(LAMBDA a : Sign(trades[a].side) * (marks[a] - trades[a].entry),
                  {a \in AssetSet : trades[a] # Flat})

Larger(x, y) == IF x >= y THEN x ELSE y

Close(a, bar, e) ==
    /\ book' = [book EXCEPT ![a] = Flat]
    /\ settled' = settled + NetPnl(book[a], e.price)
    /\ peak' = Larger(peak, settled')
    /\ exit' = [reason |-> e.reason, price |-> e.price, side |-> book[a].side, bar |-> bar]

Hold(a, bar) ==
    /\ book' = [book EXCEPT ![a] = [book[a] EXCEPT !.held = @ + 1, !.stop = Trailed(book[a], bar)]]
    /\ UNCHANGED <<settled, peak, exit>>

\* What the risk engine sees of the account: settled equity and its peak.
Heat == MapThenSumSet(LAMBDA a : book[a].risk, {a \in AssetSet : book[a] # Flat})
Approves(risk) == Heat + risk <= HeatCap /\ peak - settled < MaxDrawdown

Enter(a, bar, side, risk) ==
    /\ Approves(risk)
    /\ book' = [book EXCEPT ![a] =
                  [side |-> side, entry |-> bar.close + Sign(side) * Slippage,
                   stop |-> bar.close - Sign(side) * Reach,
                   target |-> bar.close + Sign(side) * 2 * Reach,
                   held |-> 0, risk |-> risk]]
    /\ UNCHANGED <<settled, peak, exit>>

NoSignal == UNCHANGED <<book, settled, peak, exit>>

\* A bar that exits does not enter again.
Replay(b, bar) ==
    LET a == Assets[b[2]]
    IN  /\ Due(b)
        /\ left' = left \ {b}
        /\ lastClose' = [lastClose EXCEPT ![a] = bar.close]
        /\ \/ /\ book[a] # Flat
              /\ LET e == CheckExit(book[a], bar)
                 IN  IF e = NoExit THEN Hold(a, bar) ELSE Close(a, bar, e)
           \/ /\ book[a] = Flat
              /\ \/ NoSignal
                 \/ \E side \in {"long", "short"}, risk \in Risks : Enter(a, bar, side, risk)
        /\ curve' = settled' + Unrealized(book', lastClose')
        /\ UNCHANGED <<engine, calendar, over>>

\* The trades still open are closed at the last close of their asset.
EndOfData ==
    /\ left = {}
    /\ ~over
    /\ over' = TRUE
    /\ settled' = settled + MapThenSumSet(LAMBDA a : NetPnl(book[a], lastClose[a]),
                                          {a \in AssetSet : book[a] # Flat})
    /\ book' = [a \in AssetSet |-> Flat]
    /\ curve' = settled'
    /\ UNCHANGED <<engine, calendar, left, lastClose, peak, exit>>

BacktestNext == EndOfData \/ \E b \in left, bar \in Bars : Replay(b, bar)

BacktestSpec == BacktestInit /\ [][BacktestNext]_backtestVars

-----------------------------------------------------------------------------
BacktestTypeOK ==
    /\ left \subseteq Timeline
    /\ \A a \in AssetSet : book[a] # Flat =>
          book[a].side \in {"long", "short"} /\ book[a].held \in 0 .. MaxHoldBars - 1
    /\ over \in BOOLEAN

\* An exit of run_backtest never fills at a price that its bar did not offer or better, and a
\* stop that a bar opened through fills no better than the open: the fill model
\* stays pessimistic while stops trail and gaps jump them (engine.py:3-17).
FillsAreReachable ==
    engine = "single" /\ exit # NoExit =>
        LET worst == IF exit.side = "long" THEN exit.price <= exit.bar.high
                     ELSE exit.price >= exit.bar.low
            stopped == IF exit.side = "long" THEN exit.price <= exit.bar.open
                       ELSE exit.price >= exit.bar.open
        IN  worst /\ (exit.reason = "stop" => stopped)

\* engine.py:127-131 says the same of the portfolio, whose exit does not look at
\* the open (portfolio.py:110).
PortfolioFillsAreReachable ==
    exit # NoExit /\ exit.reason = "stop" =>
        IF exit.side = "long" THEN exit.price <= exit.bar.high ELSE exit.price >= exit.bar.low

\* Drawdown gates and reporting read one series (equity.py:3-6): no entry is
\* made while the marked curve is below the peak by the limit.  Not so: the
\* gate only sees settled equity.
GateSeesMarkedDrawdown ==
    [][\A a \in AssetSet : (book[a] = Flat /\ book'[a] # Flat) => peak - curve < MaxDrawdown]_backtestVars
=============================================================================
