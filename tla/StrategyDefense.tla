--------------------------- MODULE StrategyDefense ---------------------------
(***************************************************************************)
(* The strategy's defence (synthetic/strategy_defense.py): five postures   *)
(* that depend on drawdown, stress and regime, the sniper that may fire    *)
(* while recovering, and its passive exit.                                 *)
(*                                                                         *)
(* Time passes in units; the timestamps of the code are ages here, counted *)
(* up to the bound the code compares them with.  Prices are levels at      *)
(* least three percent apart, so a price on another level than the anchor  *)
(* is a dislocation and a price above the last entry is a bounce.          *)
(***************************************************************************)
EXTENDS Integers

CONSTANTS
  HaltedCooldown,     \* halted_cooldown_sec
  HealingStability,   \* healing_stability_sec
  RecoveryCooldown,   \* recovery_cooldown_sec
  Magazine,           \* shots within inventory_quota_max
  ShotCooldown,       \* base_cooldown_sec, scaled by the highest vol_ratio
  Level,              \* prices
  NoPrice

ASSUME DefenseAssumption ==
  /\ {HaltedCooldown, HealingStability, RecoveryCooldown, Magazine,
      ShotCooldown} \subseteq Nat \ {0}
  /\ Level \subseteq Nat /\ Level # {}
  /\ NoPrice \notin Level

\* What evaluate_posture is told: a drawdown of 8% or more, the stress score
\* and the regime (SELL_STRESS, BUY_STRESS and ADVERSARIAL_SHOCK alike).
\* regime_shift_detected is regime # "CALM".
Regime == {"CALM", "FRAGILE", "STRESS"}
Reading ==
  [breach : BOOLEAN, stress : {5, 15, 30, 38, 60, 80}, regime : Regime]

State == {"NORMAL", "CAUTION", "DEFENSIVE", "HALTED", "RECOVERING"}

VARIABLES
  state,        \* current_state
  haltedAge,    \* time since halted_entry_ts
  calmAge,      \* time since calm_streak_start_ts, or -1 without a streak
  recoverAge,   \* time since recovering_entry_ts
  elevatedAge,  \* time since last_elevated_state_ts
  armed,        \* sniper_mode.is_armed
  shots,        \* sniper_mode.accumulated_inventory_pct, in shots
  lastEntry,    \* sniper_mode.last_entry_price
  shotAge,      \* time since sniper_mode.last_trade_ts
  exit,         \* sniper_mode.active_passive_exit: its price
  orphaned,     \* an exit was replaced while active
  anchor,       \* alpha_engine.pre_crash_micro_price
  price,        \* the micro-price
  fresh,        \* evaluated since time last passed
  sinceHalt,    \* history: time since HALTED was last entered
  sinceSevere,  \* history: time since the last severe reading
  sinceRough    \* history: time since a reading was not calm enough to heal

posture == <<state, haltedAge, calmAge, recoverAge, elevatedAge, armed, anchor>>
sniper  == <<shots, lastEntry, shotAge, exit, orphaned>>
history == <<sinceHalt, sinceSevere, sinceRough>>
vars == <<posture, sniper, price, fresh, history>>

\* From a halt back to full size: the cooldown, a calm streak, the probation
\* in RECOVERING, the cooldown of CAUTION.
FullRecovery == 2 * HaltedCooldown + HealingStability + RecoveryCooldown

TypeOK ==
  /\ state \in State
  /\ haltedAge \in 0..HaltedCooldown
  /\ calmAge \in -1..HealingStability
  /\ recoverAge \in 0..HaltedCooldown
  /\ elevatedAge \in 0..RecoveryCooldown
  /\ armed \in BOOLEAN
  /\ shots \in 0..Magazine
  /\ shotAge \in 0..ShotCooldown
  /\ {lastEntry, exit, anchor} \subseteq Level \cup {NoPrice}
  /\ orphaned \in BOOLEAN
  /\ price \in Level
  /\ fresh \in BOOLEAN
  /\ sinceHalt \in 0..FullRecovery
  /\ sinceSevere \in 0..RecoveryCooldown
  /\ sinceRough \in 0..HealingStability

Init ==
  /\ state = "NORMAL"
  /\ haltedAge = HaltedCooldown
  /\ calmAge = -1
  /\ recoverAge = HaltedCooldown
  /\ elevatedAge = RecoveryCooldown
  /\ armed = FALSE
  /\ shots = 0
  /\ lastEntry = NoPrice
  /\ shotAge = ShotCooldown
  /\ exit = NoPrice
  /\ orphaned = FALSE
  /\ anchor = NoPrice
  /\ price \in Level
  /\ fresh = FALSE
  /\ sinceHalt = FullRecovery
  /\ sinceSevere = RecoveryCooldown
  /\ sinceRough = HealingStability
-----------------------------------------------------------------------------
(* evaluate_posture: one action per outcome                                *)

Severe(r)  == r.regime = "STRESS" \/ r.stress >= 70
Fragile(r) == ~Severe(r) /\ (r.regime = "FRAGILE" \/ r.stress >= 35)
Quiet(r)   == ~Severe(r) /\ ~Fragile(r)
Relapses(r) == r.regime # "CALM" \/ r.stress >= 40

Witness(r) ==
  /\ sinceSevere' = IF Severe(r) THEN 0 ELSE sinceSevere
  /\ sinceRough' = IF r.breach \/ r.stress >= 20 THEN 0 ELSE sinceRough

EnterHalt ==
  /\ state' = "HALTED"
  /\ haltedAge' = 0
  /\ calmAge' = -1
  /\ armed' = FALSE
  /\ sinceHalt' = 0
  /\ UNCHANGED <<recoverAge, elevatedAge>>

\* A drawdown of 8% halts; the price before the crash is the anchor.
Halt(r) ==
  /\ r.breach
  /\ state # "HALTED"
  /\ EnterHalt
  /\ anchor' = price

StayHalted(r) ==
  /\ r.breach
  /\ state = "HALTED"
  /\ UNCHANGED <<posture, sinceHalt>>

\* Healing: once the cooldown is over, a streak of calm readings.
ServeHalt(r) ==
  /\ ~r.breach
  /\ state = "HALTED"
  /\ haltedAge < HaltedCooldown
  /\ UNCHANGED <<posture, sinceHalt>>

CountCalm(r) ==
  /\ ~r.breach
  /\ state = "HALTED"
  /\ haltedAge = HaltedCooldown
  /\ \/ r.stress >= 20 /\ calmAge' = -1
     \/ r.stress < 20 /\ calmAge = -1 /\ calmAge' = 0
     \/ r.stress < 20 /\ calmAge \in 0..HealingStability - 1 /\ UNCHANGED calmAge
  /\ UNCHANGED <<state, haltedAge, recoverAge, elevatedAge, armed, anchor,
                 sinceHalt>>

\* The streak is long enough: RECOVERING, and the checks of RECOVERING in the
\* same call, which may halt again.
Heal(r) ==
  /\ ~r.breach
  /\ state = "HALTED"
  /\ haltedAge = HaltedCooldown
  /\ r.stress < 20
  /\ calmAge = HealingStability
  /\ recoverAge' = 0
  /\ calmAge' = -1
  /\ \/ /\ ~Relapses(r)
        /\ state' = "RECOVERING"
        /\ armed' = TRUE
        /\ UNCHANGED <<haltedAge, sinceHalt>>
     \/ /\ Relapses(r)
        /\ haltedAge' = 0
        /\ sinceHalt' = 0
        /\ UNCHANGED <<state, armed>>
  /\ UNCHANGED <<elevatedAge, anchor>>

\* Mutant: the relapse keeps the time of the first halt.
RelapseKeepsTime(r) ==
  /\ ~r.breach
  /\ state = "RECOVERING"
  /\ Relapses(r)
  /\ state' = "HALTED"
  /\ calmAge' = -1
  /\ armed' = FALSE
  /\ sinceHalt' = 0
  /\ UNCHANGED <<haltedAge, recoverAge, elevatedAge, anchor>>

Relapse(r) ==
  /\ ~r.breach
  /\ state = "RECOVERING"
  /\ Relapses(r)
  /\ EnterHalt
  /\ UNCHANGED anchor

StayRecovering(r) ==
  /\ ~r.breach
  /\ state = "RECOVERING"
  /\ ~Relapses(r)
  /\ recoverAge < HaltedCooldown
  /\ UNCHANGED <<posture, sinceHalt>>

\* The probation is over: CAUTION, whatever the standard transitions make of
\* a reading below 0.40.
Graduate(r) ==
  /\ ~r.breach
  /\ state = "RECOVERING"
  /\ ~Relapses(r)
  /\ recoverAge = HaltedCooldown
  /\ state' = "CAUTION"
  /\ elevatedAge' = 0
  /\ armed' = FALSE
  /\ UNCHANGED <<haltedAge, calmAge, recoverAge, anchor, sinceHalt>>

Standard == state \in {"NORMAL", "CAUTION", "DEFENSIVE"}

Cooled == elevatedAge = RecoveryCooldown

\* Mutant: a severe reading in DEFENSIVE does not renew its cooldown.
DefendOnce(r) ==
  /\ ~r.breach
  /\ Standard
  /\ Severe(r)
  /\ state' = "DEFENSIVE"
  /\ elevatedAge' = IF state = "DEFENSIVE" THEN elevatedAge ELSE 0
  /\ UNCHANGED <<haltedAge, calmAge, recoverAge, armed, anchor, sinceHalt>>

Defend(r) ==
  /\ ~r.breach
  /\ Standard
  /\ Severe(r)
  /\ state' = "DEFENSIVE"
  /\ elevatedAge' = 0
  /\ UNCHANGED <<haltedAge, calmAge, recoverAge, armed, anchor, sinceHalt>>

\* A fragile reading: CAUTION; DEFENSIVE first waits for its cooldown.
Caution(r) ==
  /\ ~r.breach
  /\ Standard
  /\ Fragile(r)
  /\ \/ /\ state = "DEFENSIVE"
        /\ state' = IF Cooled THEN "CAUTION" ELSE "DEFENSIVE"
        /\ UNCHANGED elevatedAge
     \/ /\ state # "DEFENSIVE"
        /\ state' = "CAUTION"
        /\ elevatedAge' = 0
  /\ UNCHANGED <<haltedAge, calmAge, recoverAge, armed, anchor, sinceHalt>>

\* Mutant: a quiet reading renews the cooldown.
RelaxRenews(r) ==
  /\ ~r.breach
  /\ Standard
  /\ Quiet(r)
  /\ state' = IF state = "NORMAL" \/ Cooled THEN "NORMAL" ELSE state
  /\ elevatedAge' = IF Cooled THEN elevatedAge ELSE 0
  /\ UNCHANGED <<haltedAge, calmAge, recoverAge, armed, anchor, sinceHalt>>

\* A quiet reading: back to NORMAL after the cooldown.
Relax(r) ==
  /\ ~r.breach
  /\ Standard
  /\ Quiet(r)
  /\ state' = IF state = "NORMAL" \/ Cooled THEN "NORMAL" ELSE state
  /\ UNCHANGED <<haltedAge, calmAge, recoverAge, elevatedAge, armed, anchor,
                 sinceHalt>>

Evaluate(r) ==
  /\ \/ Halt(r) \/ StayHalted(r) \/ ServeHalt(r) \/ CountCalm(r) \/ Heal(r)
     \/ Relapse(r) \/ StayRecovering(r) \/ Graduate(r)
     \/ Defend(r) \/ Caution(r) \/ Relax(r)
  /\ Witness(r)
  /\ fresh' = TRUE
  /\ UNCHANGED <<sniper, price>>
-----------------------------------------------------------------------------
(* The sniper                                                              *)

\* evaluate_opportunity on a signal of MicroAlphaEngine, then
\* execute_sniper_trade: at a calm reading, away from the anchor, within the
\* magazine, after a bounce from the last entry and a cooldown that shrinks
\* and stretches with the volatility.
Shoot ==
  /\ armed
  /\ anchor # NoPrice /\ price # anchor
  /\ shots < Magazine
  /\ lastEntry # NoPrice => price > lastEntry
  /\ \E cooldown \in 1..ShotCooldown : shotAge >= cooldown
  /\ shots' = shots + 1
  /\ lastEntry' = price
  /\ shotAge' = 0
  /\ UNCHANGED <<exit, orphaned, posture, price, fresh, history>>

PostPassiveExit ==
  /\ shots > 0
  /\ exit' = price
  /\ orphaned' = (orphaned \/ exit # NoPrice)
  /\ UNCHANGED <<shots, lastEntry, shotAge, posture, price, fresh, history>>

\* evaluate_microstructure_exit_drift, on_liquidity_event_killswitch: the
\* exit is killed when the price moved against it, or liquidity is withdrawn.
KillExit ==
  /\ exit # NoPrice
  /\ exit' = NoPrice
  /\ UNCHANGED <<shots, lastEntry, shotAge, orphaned, posture, price, fresh, history>>
-----------------------------------------------------------------------------
(* The environment                                                         *)

PriceMoves ==
  /\ price' \in Level \ {price}
  /\ UNCHANGED <<posture, sniper, fresh, history>>

Older(age, bound) == IF age < bound THEN age + 1 ELSE bound

TimePasses ==
  /\ haltedAge' = Older(haltedAge, HaltedCooldown)
  /\ calmAge' = IF calmAge = -1 THEN -1 ELSE Older(calmAge, HealingStability)
  /\ recoverAge' = Older(recoverAge, HaltedCooldown)
  /\ elevatedAge' = Older(elevatedAge, RecoveryCooldown)
  /\ shotAge' = Older(shotAge, ShotCooldown)
  /\ sinceHalt' = Older(sinceHalt, FullRecovery)
  /\ sinceSevere' = Older(sinceSevere, RecoveryCooldown)
  /\ sinceRough' = Older(sinceRough, HealingStability)
  /\ fresh' = FALSE
  /\ UNCHANGED <<state, armed, anchor, shots, lastEntry, exit, orphaned, price>>
-----------------------------------------------------------------------------
AnyEvaluate == \E r \in Reading : Evaluate(r)

Next ==
  \/ AnyEvaluate
  \/ Shoot \/ PostPassiveExit \/ KillExit
  \/ PriceMoves \/ TimePasses

Spec == Init /\ [][Next]_vars

\* The posture is evaluated again and again, and time passes.
FairSpec == Spec /\ WF_vars(AnyEvaluate) /\ WF_vars(TimePasses)
-----------------------------------------------------------------------------
(* Properties                                                              *)

\* The sniper is armed in RECOVERING and in no other posture, so it never
\* fires in a halt nor with the ordinary quotes (SniperMode's docstring).
SniperOnlyRecovering == armed <=> state = "RECOVERING"

\* Full size is back no sooner after a halt than its cooldown, the streak of
\* calm, the probation and the cooldown of CAUTION together, whatever
\* relapses and breaches come in between.
FullSizeIsEarned == state = "NORMAL" => sinceHalt >= FullRecovery

\* No severe reading within the cooldown before NORMAL.
NormalIsCooled == state = "NORMAL" => sinceSevere >= RecoveryCooldown

\* Once all readings are calm, the posture heals for good.
RoughEvaluate ==
  \E r \in Reading : (r.breach \/ r.stress >= 20 \/ ~Quiet(r)) /\ Evaluate(r)

CalmHeals == <>[][~RoughEvaluate]_vars => <>[](state = "NORMAL")

\* "Market verified calm": RECOVERING is entered after a streak without a
\* breach or stress.
RecoversFromCalm ==
  [][state = "HALTED" /\ state' = "RECOVERING"
       => sinceRough >= HealingStability]_vars

\* The kill switch reaches each exit that is still active.
NoOrphanedExit == ~orphaned
=============================================================================
