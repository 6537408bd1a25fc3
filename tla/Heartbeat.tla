------------------------------ MODULE Heartbeat ------------------------------
(***************************************************************************)
(* TradingHeartbeatDaemon (daemon/heartbeat.py): each tick evaluates the   *)
(* survival tier from the account, and gates the signals of the symbols    *)
(* one after the other, all against the account as it was before the tick. *)
(*                                                                         *)
(* The account is external: orders are filled or given up at any time, so  *)
(* also after later ticks; positions close with a profit, which ends the   *)
(* streak of losses of their class, or with a loss.                        *)
(***************************************************************************)
EXTENDS RiskGate

CONSTANTS
  Primary,      \* symbols[0], whose prices feed the models
  MinDwell,     \* min_dwell_cycles
  Conditions,   \* the conditions a tick may meet
  MaxUnsettled  \* bound: orders that are unsettled when a tick begins

ASSUME HeartbeatAssumption ==
  /\ Primary \in Symbol
  /\ MinDwell \in Nat \ {0}
  /\ Conditions \subseteq Condition
  /\ MaxUnsettled \in Nat

VARIABLES
  tier, below,  \* tier_state of the survival engine
  fed,          \* the symbols with min_candle_buffer prices
  orders,       \* approved and not settled: how many in a symbol at a risk
  book,         \* open_positions
  losses,       \* consecutive_losses
  since,        \* hours since last_loss_at
  calm,         \* history: ticks since the raw tier was SURVIVAL or worse
  unseen        \* history: the risk that was not settled, so in no account,
                \* when the last entry was approved

survival == <<tier, below>>
account  == <<book, losses, since>>
vars == <<survival, fed, orders, account, calm, unseen>>

TypeOK ==
  /\ tier \in Tier
  /\ below \in 0..MinDwell - 1
  /\ fed \subseteq Symbol
  /\ orders \in Book
  /\ book \in Book
  /\ losses \in [Class -> 0..LossLimit]
  /\ since \in [Class -> 0..CooldownHours]
  /\ calm \in 0..MinDwell
  /\ unseen \in Nat

Init ==
  /\ tier = NORMAL
  /\ below = 0
  /\ fed = {}
  /\ orders = NoPositions
  /\ book = NoPositions
  /\ losses = [k \in Class |-> 0]
  /\ since = [k \in Class |-> CooldownHours]
  /\ calm = MinDwell
  /\ unseen = 0
-----------------------------------------------------------------------------
(* The survival tier                                                       *)

\* Mutant: the dwell is not waited for.
AfterAtOnce(raw) ==
  [tier |-> raw, below |-> 0]

\* evaluate_survival_status: up at once, down one tier after the dwell.
After(raw) ==
  CASE raw > tier -> [tier |-> raw, below |-> 0]
    [] raw = tier -> [tier |-> tier, below |-> 0]
    [] raw < tier -> IF below + 1 >= MinDwell
                     THEN [tier |-> tier - 1, below |-> 0]
                     ELSE [tier |-> tier, below |-> below + 1]

Evaluate(raw) ==
  /\ tier' = After(raw).tier
  /\ below' = After(raw).below
  /\ calm' = IF raw >= SURVIVAL THEN 0 ELSE Min({calm + 1, MinDwell})

\* min_confidence_floor: a weak signal (0.55 to 0.70) only passes in NORMAL.
Signal == {"none", "weak", "strong"}

Confident(signal, t) == signal = "strong" \/ (signal = "weak" /\ t = NORMAL)
-----------------------------------------------------------------------------
(* The loop                                                                *)

FeedMarketData(s) ==
  /\ s \notin fed
  /\ fed' = fed \cup {s}
  /\ UNCHANGED <<survival, orders, account, calm, unseen>>

Settling == CountIn(orders, Symbol) <= MaxUnsettled

\* tick_cycle without prices of the primary symbol: only the tier, which no
\* model stresses.
TickWithoutData(c) ==
  /\ Primary \notin fed
  /\ Evaluate(RawTier([c EXCEPT !.stressed = FALSE], losses))
  /\ UNCHANGED <<fed, orders, account, unseen>>

\* The symbols whose signal the gates let through, in tier t.
Entries(c, signal, t) ==
  {s \in Symbol : /\ t < SURVIVAL
                  /\ Confident(signal[s], t)
                  /\ Approves(c, losses, since, book, s)
                  /\ EffectiveRisk(c) > 0}

Place(c, entries) ==
  /\ orders' = [s \in Symbol |-> [r \in 1..RiskPct |->
                  IF s \in entries /\ r = EffectiveRisk(c)
                  THEN orders[s][r] + 1 ELSE orders[s][r]]]
  /\ unseen' = IF entries = {} THEN unseen ELSE Heat(orders)

\* Mutant: the gate reads the tier of the tick before.
TickStale(c, signal) ==
  /\ Settling
  /\ Primary \in fed
  /\ Evaluate(RawTier(c, losses))
  /\ Place(c, Entries(c, signal, tier))
  /\ UNCHANGED <<fed, account>>

\* tick_cycle: the tier first; in SURVIVAL and COOLDOWN no entries, else
\* each confident signal is judged by the risk engine, against an account
\* that knows nothing of the orders not settled yet.
Tick(c, signal) ==
  /\ Settling
  /\ Primary \in fed
  /\ Evaluate(RawTier(c, losses))
  /\ Place(c, Entries(c, signal, tier'))
  /\ UNCHANGED <<fed, account>>
-----------------------------------------------------------------------------
(* The account (external)                                                  *)

OrderFills(s, r) ==
  /\ orders[s][r] > 0
  /\ orders' = [orders EXCEPT ![s][r] = @ - 1]
  /\ book' = [book EXCEPT ![s][r] = @ + 1]
  /\ UNCHANGED <<survival, fed, losses, since, calm, unseen>>

OrderLapses(s, r) ==
  /\ orders[s][r] > 0
  /\ orders' = [orders EXCEPT ![s][r] = @ - 1]
  /\ UNCHANGED <<survival, fed, account, calm, unseen>>

PositionCloses(s, r) ==
  /\ book[s][r] > 0
  /\ book' = [book EXCEPT ![s][r] = @ - 1]
  /\ LET k == ClassOf[s]
     IN  \/ /\ losses' = [losses EXCEPT ![k] = 0]
            /\ UNCHANGED since
         \/ /\ losses' = [losses EXCEPT ![k] = Min({@ + 1, LossLimit})]
            /\ since' = [since EXCEPT ![k] = 0]
  /\ UNCHANGED <<survival, fed, orders, calm, unseen>>

HourPasses ==
  /\ \E k \in Class : since[k] < CooldownHours
  /\ since' = [k \in Class |-> Min({since[k] + 1, CooldownHours})]
  /\ UNCHANGED <<survival, fed, orders, book, losses, calm, unseen>>
-----------------------------------------------------------------------------
AnyTick ==
  \E c \in Conditions :
    \/ TickWithoutData(c)
    \/ \E signal \in [Symbol -> Signal] : Tick(c, signal)

Next ==
  \/ AnyTick
  \/ HourPasses
  \/ \E s \in Symbol :
       \/ FeedMarketData(s)
       \/ \E r \in 1..RiskPct :
            OrderFills(s, r) \/ OrderLapses(s, r) \/ PositionCloses(s, r)

Spec == Init /\ [][Next]_vars

\* Each order is settled, time passes, the loop goes on, prices arrive.
FairSpec ==
  /\ Spec
  /\ WF_vars(AnyTick) /\ WF_vars(HourPasses)
  /\ \A s \in Symbol :
       /\ WF_vars(FeedMarketData(s))
       /\ WF_vars(\E r \in 1..RiskPct : OrderFills(s, r) \/ OrderLapses(s, r))
-----------------------------------------------------------------------------
(* Properties                                                              *)

\* A step that approves an order in the symbol.
Enters(s) == \E r \in 1..RiskPct : orders'[s][r] > orders[s][r]

\* No entry is approved before MinDwell calmer ticks have followed the last
\* tick in which the account or a streak of losses asked for capital defence.
EntriesWaitOutDefence == [][(\E s \in Symbol : Enters(s)) => calm' >= MinDwell]_vars

\* Nothing caps the heat by itself: all the symbols of a tick are judged against
\* one account, and the account does not show what earlier ticks approved and
\* nobody settled.  The overshoot is no more than one risk per further symbol
\* and what was unsettled when the last entry was approved.
OvershootBounded ==
  Heat(book) <= Max({MaxHeat, MaxHeatHighVol})
                + (Cardinality(Symbol) - 1) * RiskPct + unseen

\* The open positions stay within the heat cap.
HeatWithinCap == Heat(book) <= Max({MaxHeat, MaxHeatHighVol})

\* In CAUTION an entry carries at most half the risk.
CautionHalvesRisk ==
  [][tier' = CAUTION =>
       \A s \in Symbol : \A r \in 1..RiskPct :
         orders'[s][r] > orders[s][r] => r <= RiskPct \div 2]_vars

\* The pause after a streak of losses ends with its cooldown.
LossPauseEnds ==
  \A k \in Class :
    (losses[k] >= LossLimit /\ since[k] = CooldownHours) ~> (tier < SURVIVAL)
=============================================================================
