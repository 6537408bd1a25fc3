------------------------------ MODULE RiskGate ------------------------------
(***************************************************************************)
(* The two gates an entry passes in the heartbeat daemon, as functions of  *)
(* the account: the raw survival tier (risk/survival.py) and the checks of *)
(* RiskEngine.evaluate (risk/engine.py).                                   *)
(*                                                                         *)
(* Risk is counted in parts of risk_pct.  A signal without a stop, a       *)
(* target or the reward asked for is rejected, and so is no signal here.   *)
(***************************************************************************)
EXTENDS Integers, FiniteSets, FiniteSetsExt, Functions

CONSTANTS
  Symbol,
  Class,            \* asset classes
  ClassOf,
  Correlated,       \* pairs {s, t} correlated above the threshold
  RiskPct,          \* risk_pct, a multiple of four
  MaxHeat,
  MaxHeatHighVol,
  MaxPerClass,      \* max_positions_per_asset_class
  LossLimit,        \* consecutive_loss_limit
  CooldownHours

ASSUME RiskAssumption ==
  /\ IsFiniteSet(Symbol)
  /\ ClassOf \in [Symbol -> Class]
  /\ RiskPct \in Nat /\ RiskPct > 0 /\ RiskPct % 4 = 0
  /\ {MaxHeat, MaxHeatHighVol, MaxPerClass, LossLimit, CooldownHours}
       \subseteq Nat

NORMAL   == 0
CAUTION  == 1
SURVIVAL == 2
COOLDOWN == 3

Tier == NORMAL..COOLDOWN

\* The drawdown, as far as a threshold tells it: from 60% of max_drawdown,
\* from one basis point below it, from max_drawdown itself.
SLIGHT   == 0
MODERATE == 1
EDGE     == 2
MAXIMAL  == 3

\* What a tick meets beside the positions and the streaks of losses: the
\* account, and the models' verdict on the market.
Condition ==
  [kill : BOOLEAN,         \* kill_switch
   drawdown : SLIGHT..MAXIMAL,
   daily : BOOLEAN,        \* daily_loss_limit reached
   weekly : BOOLEAN,       \* weekly_loss_limit reached
   highVol : BOOLEAN,      \* high_volatility
   event : BOOLEAN,        \* within pre_event_hours of a major event
   stressed : BOOLEAN,     \* HMM, GARCH or EVT stress
   flip : BOOLEAN,         \* an epsilon flip: only the exact drawdown or loss
                           \* is at its limit
   garch : {50, 100, 200}] \* volatility_scale_factor, in percent

\* Positions: how many are open in a symbol at a risk.
Book == [Symbol -> [1..RiskPct -> Nat]]

NoPositions == [s \in Symbol |-> [r \in 1..RiskPct |-> 0]]

\* What the positions in a symbol at a risk have at stake.
AtStake(book) ==
  [sr \in Symbol \X (1..RiskPct) |-> sr[2] * book[sr[1]][sr[2]]]

\* The risk open in the symbols of S, and the number of positions.
RiskIn(book, S) == SumFunctionOnSet(AtStake(book), S \X (1..RiskPct))

CountIn(book, S) ==
  MapThenSumSet(LAMBDA sr : book[sr[1]][sr[2]], S \X (1..RiskPct))

Heat(book) == RiskIn(book, Symbol)
-----------------------------------------------------------------------------
\* _evaluate_raw_status
RawTier(c, losses) ==
  CASE c.kill \/ c.drawdown = MAXIMAL -> COOLDOWN
    [] OTHER ->
       IF c.daily \/ \E k \in Class : losses[k] >= LossLimit
       THEN SURVIVAL
       ELSE IF \/ c.stressed \/ c.flip \/ c.weekly
               \/ c.drawdown >= MODERATE
               \/ \E k \in Class : losses[k] >= 2
            THEN CAUTION
            ELSE NORMAL

\* effective_risk_pct: halved after a bad week and before an event, scaled
\* by the volatility forecast, never above risk_pct.
EffectiveRisk(c) ==
  LET weekly == IF c.weekly THEN RiskPct \div 2 ELSE RiskPct
      event  == IF c.event THEN weekly \div 2 ELSE weekly
  IN  Min({(event * c.garch) \div 100, RiskPct})

HeatCap(c) == IF c.highVol THEN MaxHeatHighVol ELSE MaxHeat

\* The class sits out a streak of losses.
Paused(k, losses, since) == losses[k] >= LossLimit /\ since[k] < CooldownHours

\* The risk of the open positions correlated with the symbol.
CorrelatedRisk(book, s) ==
  RiskIn(book, {t \in Symbol : {s, t} \in Correlated})

\* Mutant: the heat is checked without the new position.
ApprovesUpToCap(c, losses, since, book, s) ==
  /\ ~c.kill
  /\ c.drawdown < EDGE
  /\ ~c.daily
  /\ ~Paused(ClassOf[s], losses, since)
  /\ CountIn(book, {t \in Symbol : ClassOf[t] = ClassOf[s]}) < MaxPerClass
  /\ Heat(book) <= HeatCap(c)

\* RiskEngine.evaluate approves an entry in the symbol.
Approves(c, losses, since, book, s) ==
  LET k    == ClassOf[s]
      heat == Heat(book) + EffectiveRisk(c)
      near == CorrelatedRisk(book, s)
  IN  /\ ~c.kill
      /\ c.drawdown < EDGE
      /\ ~c.daily
      /\ ~Paused(k, losses, since)
      /\ CountIn(book, {t \in Symbol : ClassOf[t] = k}) < MaxPerClass
      /\ heat <= HeatCap(c)
      /\ near > 0 => heat + near <= HeatCap(c)
=============================================================================
