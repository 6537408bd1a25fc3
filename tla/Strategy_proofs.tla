-------------------------- MODULE Strategy_proofs --------------------------
(***************************************************************************)
(* Theorems about what decides how, how much and whether to trade, unit by *)
(* unit.                                                                   *)
(*   StrategyDefense: its types, who may shoot, and how long full size and *)
(*     NORMAL stay away after a halt and a severe reading.                 *)
(*   Splits: validation never trains on what it tests on.                  *)
(*   LearningGraph: what was flushed is kept, short of a torn append.      *)
(*   Allocation: what a batch grants and what it turns away.               *)
(*   Promotion: what live trading rests on.                                *)
(***************************************************************************)
EXTENDS StrategyDefense, Splits, LearningGraph, Allocation, Promotion, FiniteFolds,
        TLAPS

-----------------------------------------------------------------------------
(* StrategyDefense                                                         *)

\* In each posture, the least time since the halt that led to it.
Served ==
  /\ state = "HALTED" /\ calmAge # -1 => sinceHalt >= HaltedCooldown + calmAge
  /\ state = "HALTED" => sinceHalt >= haltedAge
  /\ state = "RECOVERING"
       => sinceHalt >= HaltedCooldown + HealingStability + recoverAge
  /\ state \in {"CAUTION", "DEFENSIVE"}
       => sinceHalt >= 2 * HaltedCooldown + HealingStability + elevatedAge
  /\ state = "NORMAL" => sinceHalt >= FullRecovery

\* The cooldown of an elevated posture runs no longer than the time since the
\* last severe reading.
Cooling ==
  /\ state \in {"CAUTION", "DEFENSIVE"} => sinceSevere >= elevatedAge
  /\ state = "NORMAL" => sinceSevere >= RecoveryCooldown

IInv == TypeOK /\ SniperOnlyRecovering /\ Served /\ Cooling

Quantities ==
  /\ HaltedCooldown \in Nat /\ HaltedCooldown > 0
  /\ HealingStability \in Nat /\ HealingStability > 0
  /\ RecoveryCooldown \in Nat /\ RecoveryCooldown > 0
  /\ Magazine \in Nat /\ ShotCooldown \in Nat /\ ShotCooldown > 0
  /\ FullRecovery = 2 * HaltedCooldown + HealingStability + RecoveryCooldown

LEMMA QuantitiesHold == Quantities
  BY DefenseAssumption DEF Quantities, FullRecovery
-----------------------------------------------------------------------------
LEMMA InitHolds == Init => IInv
<1> SUFFICES ASSUME Init PROVE IInv
  OBVIOUS
<1>1. {armed, orphaned, fresh} \subseteq BOOLEAN /\ SniperOnlyRecovering
  <2>1. armed = FALSE /\ orphaned = FALSE /\ fresh = FALSE /\ state = "NORMAL"
    BY DEF Init
  <2> QED
    BY <2>1, Zenon DEF SniperOnlyRecovering
<1>2. TypeOK
  BY <1>1, QuantitiesHold, DefenseAssumption DEF Init, TypeOK, Quantities, State
<1>3. Served /\ Cooling
  BY QuantitiesHold DEF Init, Served, Cooling, Quantities
<1> QED
  BY <1>1, <1>2, <1>3 DEF IInv

\* What evaluate_posture may change, apart from the witnesses of history and
\* the sniper.
PostureTypes ==
  /\ state \in State
  /\ haltedAge \in 0..HaltedCooldown
  /\ calmAge \in -1..HealingStability
  /\ recoverAge \in 0..HaltedCooldown
  /\ elevatedAge \in 0..RecoveryCooldown
  /\ anchor \in Level \cup {NoPrice}
  /\ sinceHalt \in 0..FullRecovery

\* The sniper is armed on the way into RECOVERING, disarmed on the way out.
LEMMA ArmingStep ==
  ASSUME SniperOnlyRecovering, armed \in BOOLEAN, NEW r, Evaluate(r)
  PROVE  armed' \in BOOLEAN /\ SniperOnlyRecovering'
<1>1. \/ armed' = FALSE /\ state' # "RECOVERING"
      \/ armed' = TRUE /\ state' = "RECOVERING"
      \/ /\ armed' = armed
         /\ state' = state
      \/ armed' = armed /\ state # "RECOVERING" /\ state' # "RECOVERING"
  <2>1. CASE Halt(r) \/ Relapse(r) \/ Graduate(r)
    BY <2>1 DEF Halt, Relapse, Graduate, EnterHalt
  <2>2. CASE Heal(r)
    BY <2>2 DEF Heal
  <2>3. CASE StayHalted(r) \/ ServeHalt(r) \/ StayRecovering(r) \/ CountCalm(r)
    BY <2>3 DEF StayHalted, ServeHalt, StayRecovering, CountCalm, posture
  <2>4. CASE Defend(r) \/ Caution(r) \/ Relax(r)
    BY <2>4 DEF Defend, Caution, Relax, Standard
  <2> QED
    BY <2>1, <2>2, <2>3, <2>4 DEF Evaluate
<1> QED
  BY <1>1, Zenon DEF SniperOnlyRecovering

\* Every branch of evaluate_posture keeps the postures' ages in order.
LEMMA EvaluateStep ==
  ASSUME IInv, NEW r \in Reading, Evaluate(r)
  PROVE  PostureTypes' /\ Served' /\ Cooling'
<1>1. /\ PostureTypes
      /\ price \in Level
      /\ sinceSevere \in 0..RecoveryCooldown
  BY DEF IInv, TypeOK, PostureTypes
<1>2. Served /\ Cooling
  BY DEF IInv
<1>3. sinceSevere' = IF Severe(r) THEN 0 ELSE sinceSevere
  BY DEF Evaluate, Witness
<1>4. Quantities
  BY QuantitiesHold
<1> USE <1>1, <1>2, <1>3, <1>4
<1>5. CASE Halt(r)
  <2>1. PostureTypes'
    BY <1>5 DEF Halt, EnterHalt, PostureTypes, Quantities, State
  <2>2. Served' /\ Cooling'
    BY <1>5 DEF Halt, EnterHalt, PostureTypes, Quantities, Served, Cooling
  <2> QED
    BY <2>1, <2>2
<1>6. CASE StayHalted(r) \/ ServeHalt(r)
  <2>1. state = "HALTED" /\ UNCHANGED <<posture, sinceHalt>>
    BY <1>6 DEF StayHalted, ServeHalt
  <2> QED
    BY <2>1 DEF posture, PostureTypes, Served, Cooling
<1>7. CASE CountCalm(r)
  <2>1. PostureTypes'
    BY <1>7 DEF CountCalm, PostureTypes, Quantities, State
  <2>2. Served' /\ Cooling'
    BY <1>7 DEF CountCalm, PostureTypes, Quantities, Served, Cooling
  <2> QED
    BY <2>1, <2>2
<1>8. CASE Heal(r)
  <2>1. PostureTypes'
    BY <1>8 DEF Heal, PostureTypes, Quantities, State
  <2>2. Served' /\ Cooling'
    BY <1>8 DEF Heal, PostureTypes, Quantities, Served, Cooling
  <2> QED
    BY <2>1, <2>2
<1>9. CASE Relapse(r)
  <2>1. PostureTypes'
    BY <1>9 DEF Relapse, EnterHalt, PostureTypes, Quantities, State
  <2>2. Served' /\ Cooling'
    BY <1>9 DEF Relapse, EnterHalt, PostureTypes, Quantities, Served, Cooling
  <2> QED
    BY <2>1, <2>2
<1>10. CASE StayRecovering(r)
  <2>1. state = "RECOVERING" /\ UNCHANGED <<posture, sinceHalt>>
    BY <1>10 DEF StayRecovering
  <2> QED
    BY <2>1 DEF posture, PostureTypes, Served, Cooling
<1>11. CASE Graduate(r)
  <2>1. PostureTypes'
    BY <1>11 DEF Graduate, PostureTypes, Quantities, State
  <2>2. Served' /\ Cooling'
    BY <1>11 DEF Graduate, PostureTypes, Quantities, Served, Cooling
  <2> QED
    BY <2>1, <2>2
<1>12. CASE Defend(r)
  <2>1. PostureTypes'
    BY <1>12 DEF Defend, Standard, PostureTypes, Quantities, State
  <2>2. Served' /\ Cooling'
    BY <1>12 DEF Defend, Standard, PostureTypes, Quantities, Served, Cooling
  <2> QED
    BY <2>1, <2>2
<1>13. CASE Caution(r)
  <2>1. PostureTypes'
    BY <1>13 DEF Caution, Standard, PostureTypes, Quantities, State
  <2>2. Served' /\ Cooling'
    BY <1>13 DEF Caution, Standard, Fragile, PostureTypes, Quantities, Served, Cooling
  <2> QED
    BY <2>1, <2>2
<1>14. CASE Relax(r)
  <2>1. PostureTypes'
    BY <1>14 DEF Relax, Standard, PostureTypes, Quantities, State
  <2>2. Served' /\ Cooling'
    BY <1>14 DEF Relax, Standard, Quiet, Cooled, PostureTypes, Quantities, Served, Cooling
  <2> QED
    BY <2>1, <2>2
<1> QED
  BY <1>5, <1>6, <1>7, <1>8, <1>9, <1>10, <1>11, <1>12, <1>13, <1>14
     DEF Evaluate

\* Time makes all ages older alike, up to their bounds.
LEMMA TimeStep ==
  ASSUME IInv, TimePasses
  PROVE  IInv'
<1>1. Quantities /\ TypeOK
  BY QuantitiesHold DEF IInv
<1>2. UNCHANGED <<state, armed, orphaned>> /\ fresh' \in BOOLEAN
  <2>1. UNCHANGED <<state, armed, orphaned>> /\ fresh' = FALSE
    BY DEF TimePasses
  <2> QED
    BY <2>1, Zenon
<1>3. /\ haltedAge' \in 0..HaltedCooldown
      /\ calmAge' \in -1..HealingStability
      /\ recoverAge' \in 0..HaltedCooldown
      /\ elevatedAge' \in 0..RecoveryCooldown
      /\ shotAge' \in 0..ShotCooldown
      /\ sinceHalt' \in 0..FullRecovery
      /\ sinceSevere' \in 0..RecoveryCooldown
      /\ sinceRough' \in 0..HealingStability
  BY <1>1 DEF TypeOK, TimePasses, Older, Quantities
<1>4. UNCHANGED <<anchor, shots, lastEntry, exit, price>>
  BY DEF TimePasses
<1>5. TypeOK'
  BY <1>1, <1>2, <1>3, <1>4 DEF TypeOK
<1>6. SniperOnlyRecovering'
  BY <1>2 DEF IInv, SniperOnlyRecovering
<1>7. Served'
  BY <1>1 DEF IInv, TypeOK, Served, TimePasses, Older, Quantities
<1>8. Cooling'
  BY <1>1 DEF IInv, TypeOK, Cooling, TimePasses, Older, Quantities
<1> QED
  BY <1>5, <1>6, <1>7, <1>8 DEF IInv

LEMMA StepHolds == IInv /\ [Next]_vars => IInv'
<1> SUFFICES ASSUME IInv, [Next]_vars PROVE IInv'
  OBVIOUS
<1>1. ASSUME NEW r \in Reading, Evaluate(r)
      PROVE  IInv'
  <2>1. PostureTypes' /\ Served' /\ Cooling'
    BY <1>1, EvaluateStep
  <2>2. armed' \in BOOLEAN /\ SniperOnlyRecovering'
    BY <1>1, ArmingStep DEF IInv, TypeOK
  <2>3. /\ UNCHANGED <<shots, shotAge, lastEntry, exit, orphaned, price>>
        /\ fresh' = TRUE
    BY <1>1 DEF Evaluate, sniper
  <2>4. fresh' \in BOOLEAN
    BY <2>3, Zenon
  <2>5. /\ sinceSevere' \in 0..RecoveryCooldown
        /\ sinceRough' \in 0..HealingStability
    BY <1>1, QuantitiesHold DEF Evaluate, Witness, IInv, TypeOK, Quantities
  <2>6. UNCHANGED <<shots, shotAge, lastEntry, exit, orphaned, price>>
    BY <2>3
  <2>7. TypeOK'
    BY <2>1, <2>2, <2>4, <2>5, <2>6 DEF IInv, TypeOK, PostureTypes
  <2> QED
    BY <2>1, <2>2, <2>7 DEF IInv
<1>2. ASSUME UNCHANGED <<posture, history>>, TypeOK'
      PROVE  IInv'
  BY <1>2 DEF IInv, posture, history, SniperOnlyRecovering, Served, Cooling
<1>3. CASE Shoot
  <2>1. UNCHANGED <<posture, history>>
    BY <1>3 DEF Shoot
  <2>2. TypeOK'
    BY <1>3, QuantitiesHold
       DEF Shoot, IInv, TypeOK, Quantities, posture, history
  <2> QED
    BY <1>2, <2>1, <2>2
<1>4. CASE PostPassiveExit \/ KillExit
  <2>1. UNCHANGED <<posture, history>>
    BY <1>4 DEF PostPassiveExit, KillExit
  <2>2. TypeOK'
    BY <1>4 DEF PostPassiveExit, KillExit, IInv, TypeOK, posture, history
  <2> QED
    BY <1>2, <2>1, <2>2
<1>5. CASE PriceMoves
  <2>1. UNCHANGED <<posture, history>>
    BY <1>5 DEF PriceMoves
  <2>2. TypeOK'
    BY <1>5 DEF PriceMoves, IInv, TypeOK, posture, sniper, history
  <2> QED
    BY <1>2, <2>1, <2>2
<1>6. CASE UNCHANGED vars
  <2>1. UNCHANGED <<posture, history>>
    BY <1>6 DEF vars
  <2>2. TypeOK'
    BY <1>6 DEF vars, IInv, TypeOK, posture, sniper, history
  <2> QED
    BY <1>2, <2>1, <2>2
<1> QED
  BY <1>1, <1>3, <1>4, <1>5, <1>6, TimeStep DEF Next, AnyEvaluate

THEOREM Invariant == Spec => []IInv
<1> QED
  BY InitHolds, StepHolds, PTL DEF Spec
-----------------------------------------------------------------------------
\* The state stays in its types, for any cooldowns, magazine and prices.
THEOREM TypeCorrect == Spec => []TypeOK
<1>1. IInv => TypeOK
  BY DEF IInv
<1> QED
  BY <1>1, Invariant, PTL

\* The sniper is armed in RECOVERING and nowhere else: each way out of it
\* disarms (evaluate_posture).
THEOREM ArmedOnlyRecovering == Spec => []SniperOnlyRecovering
<1>1. IInv => SniperOnlyRecovering
  BY DEF IInv
<1> QED
  BY <1>1, Invariant, PTL

\* However relapses and breaches follow each other, full size is back no
\* sooner than all the cooldowns together after the last halt.
THEOREM RecoveryIsServed == Spec => []FullSizeIsEarned
<1>1. IInv => FullSizeIsEarned
  BY DEF IInv, Served, FullSizeIsEarned
<1> QED
  BY <1>1, Invariant, PTL

\* NORMAL is away from the last severe reading by its cooldown, wherever the
\* reading found the posture.
THEOREM SevereIsCooled == Spec => []NormalIsCooled
<1>1. IInv => NormalIsCooled
  BY DEF IInv, Cooling, NormalIsCooled
<1> QED
  BY <1>1, Invariant, PTL

----------------------------------------------------------------------------
(* The splits of validation.                                               *)

CausalSplits ==
    \A s \in cpcv.splits : \A i \in s.train, j \in s.test :
      bars[First][i] + cpcv.config.purge * Day < bars[First][j]

(* Results of folds that validate on nothing they train on, or older.      *)
Causal == {r \in [verdict : Verdicts, valid : [SplitAssets -> SUBSET Int],
                  train : [SplitAssets -> SUBSET Int]] :
             \A a \in SplitAssets : \A i \in r.train[a], j \in r.valid[a] : i < j}

SplitsInv ==
    /\ bars \in [SplitAssets -> Histories]
    /\ cpcv = [config |-> cpcv.config, outcome |-> cpcv.outcome, splits |-> cpcv.splits]
    /\ cpcv.config \in CpcvConfigs /\ cpcv.outcome \in {"pending", "ValueError", "splits"}
    /\ walk \in [config : WalkConfigs, results : Seq(Causal)]
    /\ CausalSplits

LEMMA FirstIsAsset == First \in SplitAssets
  BY SplitsAssumption DEF First

(* A block before the last ends before the samples do.                     *)
LEMMA BlockEnds ==
    ASSUME NEW n \in Nat, NEW folds \in Nat \ {0}, NEW k \in 1..folds - 1
    PROVE  /\ n \div folds \in Nat /\ k * (n \div folds) \in Nat
           /\ k * (n \div folds) + (n \div folds) <= n
<1> DEFINE size == n \div folds
<1>1. size \in Nat /\ n % folds \in Nat /\ n = folds * size + (n % folds)
  BY SMT
<1> HIDE DEF size
<1>2. PICK rest \in Nat : folds = k + 1 + rest
  <2>1. folds - (k + 1) \in Nat /\ folds = k + 1 + (folds - (k + 1))
    OBVIOUS
  <2> QED BY <2>1
<1>3. /\ k * size \in Nat /\ rest * size \in Nat
      /\ folds * size = k * size + size + rest * size
  BY <1>1, <1>2, SMT
<1> QED BY <1>1, <1>3 DEF size

(* Whatever is trained on is older by more than the purge than whatever is *)
(* tested on.                                                              *)
LEMMA SplitIsCausal ==
    ASSUME NEW times \in Histories, NEW c \in CpcvConfigs, NEW k \in 1..c.folds - 1,
           NEW i \in Split(times, c, k).train, NEW j \in Split(times, c, k).test
    PROVE  times[i] + c.purge * Day < times[j]
<1> DEFINE n == Len(times)
           size == n \div c.folds
           start == k * size
<1>1. /\ times \in Seq(Int) /\ n \in Nat
      /\ c.folds \in Nat \ {0} /\ c.embargo \in Nat /\ c.purge \in Nat /\ Day \in Nat
      /\ \A x, y \in 1..n : x <= y => times[x] <= times[y]
  BY SplitsAssumption
<1>2. size \in Nat /\ start \in Nat /\ start + size <= n
  BY <1>1, BlockEnds
<1>3. j \in TestBlock(n, c, k)
  BY DEF Split
<1>4. j \in (start + c.embargo + 1)..n \/ j \in (start + 1)..n
            \/ j \in (start + c.embargo + 1)..(start + size) \/ j \in (start + 1)..(start + size)
  BY <1>3, Zenon DEF TestBlock
<1>5. i \in 1..start /\ times[i] < times[start + 1] - c.purge * Day
  BY DEF Split, Train
<1> HIDE DEF n, size, start
<1>6. j \in 1..n /\ start + 1 <= j /\ start + 1 \in 1..n
  <2>1. n \in Nat /\ c.embargo \in Nat
    BY <1>1
  <2>2. CASE j \in (start + c.embargo + 1)..n
    BY <1>2, <2>1, <2>2
  <2>3. CASE j \in (start + 1)..n
    BY <1>2, <2>1, <2>3
  <2>4. CASE j \in (start + c.embargo + 1)..(start + size)
    BY <1>2, <2>1, <2>4
  <2>5. CASE j \in (start + 1)..(start + size)
    BY <1>2, <2>1, <2>5
  <2> QED BY <1>4, <2>2, <2>3, <2>4, <2>5
<1>7. times[start + 1] <= times[j] /\ times[start + 1] \in Int /\ times[j] \in Int
  BY <1>1, <1>6 DEF n
<1>8. i \in 1..n
  BY <1>2, <1>5, <1>1
<1>9. times[i] \in Int
  BY <1>1, <1>8 DEF n
<1>10. c.purge * Day \in Int
  BY <1>1, SMT
<1> QED BY <1>5, <1>7, <1>9, <1>10

LEMMA DaysHintIsInt ==
    ASSUME NEW times \in Seq(Int) PROVE DaysHint(times) \in Int
<1>1. CASE Len(times) < 2
  BY <1>1 DEF DaysHint
<1>2. CASE ~(Len(times) < 2)
  <2> DEFINE span == times[Len(times)] - times[1]
             cadence == times[2] - times[1]
             days == (2 * span + cadence) \div (2 * cadence) + 1
  <2>1. Len(times) \in Nat /\ span \in Int /\ cadence \in Int
    BY <1>2
  <2>2. DaysHint(times) = IF cadence <= 0 THEN Len(times) ELSE IF days < 1 THEN 1 ELSE days
    BY <1>2, Zenon DEF DaysHint
  <2>3. cadence > 0 => days \in Int
    <3> HIDE DEF span, cadence
    <3>1. cadence > 0 => 2 * cadence \in Nat \ {0} /\ 2 * span + cadence \in Int
      BY <2>1
    <3>2. \A x \in Int, y \in Nat \ {0} : x \div y \in Int
      BY SMT
    <3> QED BY <3>1, <3>2
  <2> HIDE DEF span, cadence, days
  <2> QED BY <2>1, <2>2, <2>3
<1> QED BY <1>1, <1>2

(* Two slices that meet at a day share no sample.                          *)
LEMMA SlicesMeet ==
    ASSUME NEW times \in Seq(Int), NEW from \in Int, NEW mid \in Int, NEW to \in Int,
           NEW i \in SliceByDays(times, <<from, mid>>), NEW j \in SliceByDays(times, <<mid, to>>)
    PROVE  i < j
<1> DEFINE n == Len(times)
           days == IF DaysHint(times) > 1 THEN DaysHint(times) ELSE 1
           at(d) == LET k == (d * n) \div days IN IF k < n THEN k ELSE n
<1>1. n \in Nat /\ days \in Nat \ {0}
  BY DaysHintIsInt
<1>2. \A d \in Int : at(d) \in Int
  <2> SUFFICES ASSUME NEW d \in Int PROVE at(d) \in Int
    OBVIOUS
  <2> HIDE DEF n, days
  <2>1. d * n \in Int
    BY <1>1, SMT
  <2>2. (d * n) \div days \in Int
    BY <1>1, <2>1, SMT
  <2> QED BY <1>1, <2>2
<1>3. i \in (at(from) + 1)..at(mid) /\ j \in (at(mid) + 1)..at(to)
  BY DEF SliceByDays
<1> HIDE DEF at
<1>4. at(from) \in Int /\ at(mid) \in Int /\ at(to) \in Int
  BY <1>2
<1> QED BY <1>3, <1>4

LEMMA SliceIsSamples ==
    ASSUME NEW times, NEW range PROVE SliceByDays(times, range) \in SUBSET Int
  BY DEF SliceByDays

LEMMA SplitsInitially == SplitsInit => SplitsInv
<1> SUFFICES ASSUME SplitsInit PROVE SplitsInv
  OBVIOUS
<1>1. PICK c \in CpcvConfigs : cpcv = [config |-> c, outcome |-> "pending", splits |-> {}]
  BY DEF SplitsInit
<1>2. PICK w \in WalkConfigs : walk = [config |-> w, results |-> <<>>]
  BY DEF SplitsInit
<1>3. walk \in [config : WalkConfigs, results : Seq(Causal)]
  <2>1. <<>> \in Seq(Causal)
    BY EmptySeq
  <2> QED BY <1>2, <2>1
<1>4. CausalSplits
  BY <1>1 DEF CausalSplits
<1>5. cpcv = [config |-> cpcv.config, outcome |-> cpcv.outcome, splits |-> cpcv.splits]
  BY <1>1
<1>6. cpcv.config \in CpcvConfigs /\ cpcv.outcome = "pending"
  BY <1>1
<1>7. bars \in [SplitAssets -> Histories]
  BY DEF SplitsInit
<1> QED BY <1>3, <1>4, <1>5, <1>6, <1>7 DEF SplitsInv

LEMMA SplitsStep == SplitsInv /\ [SplitsNext]_splitsVars => SplitsInv'
<1> SUFFICES ASSUME SplitsInv, [SplitsNext]_splitsVars PROVE SplitsInv'
  OBVIOUS
<1>1. CASE GenerateCpcvSplits
  <2> DEFINE c == cpcv.config
             times == bars[First]
             all == {Split(times, c, k) : k \in 1..c.folds - 1}
             good == {s \in all : Cardinality(s.test) >= c.minTest
                                  /\ Cardinality(s.train) >= c.minTrain}
  <2>0. UNCHANGED <<bars, walk>> /\ times \in Histories /\ c \in CpcvConfigs
    BY <1>1, FirstIsAsset DEF GenerateCpcvSplits, SplitsInv
  <2>1. \/ cpcv' = [cpcv EXCEPT !.outcome = "ValueError"]
        \/ cpcv' = [cpcv EXCEPT !.outcome = "splits", !.splits = good]
    BY <1>1, Zenon DEF GenerateCpcvSplits
  <2>2. ASSUME NEW s \in good, NEW i \in s.train, NEW j \in s.test
        PROVE  times[i] + c.purge * Day < times[j]
    <3>1. PICK k \in 1..c.folds - 1 : s = Split(times, c, k)
      OBVIOUS
    <3> QED BY <2>0, <3>1, SplitIsCausal
  <2> HIDE DEF good
  <2>3. /\ cpcv' = [config |-> cpcv'.config, outcome |-> cpcv'.outcome, splits |-> cpcv'.splits]
        /\ cpcv'.config = c /\ cpcv'.outcome \in {"ValueError", "splits"}
        /\ cpcv'.splits = cpcv.splits \/ cpcv'.splits = good
    BY <2>1 DEF SplitsInv
  <2>4. CausalSplits'
    BY <2>0, <2>2, <2>3 DEF SplitsInv, CausalSplits
  <2>5. cpcv'.config \in CpcvConfigs /\ cpcv'.outcome \in {"pending", "ValueError", "splits"}
    BY <2>0, <2>3
  <2>6. bars' \in [SplitAssets -> Histories] /\ walk' \in [config : WalkConfigs, results : Seq(Causal)]
    BY <2>0 DEF SplitsInv
  <2>7. cpcv' = [config |-> cpcv'.config, outcome |-> cpcv'.outcome, splits |-> cpcv'.splits]
    BY <2>3
  <2> HIDE DEF c, times
  <2> QED BY <2>4, <2>5, <2>6, <2>7, Zenon DEF SplitsInv
<1>2. CASE NextFold
  <2> DEFINE w == walk.config
             k == Len(walk.results)
             fold == FoldAt(w, k)
             valid == [a \in SplitAssets |-> SliceByDays(bars[a], fold.valid)]
             train == [a \in SplitAssets |-> SliceByDays(bars[a], fold.train)]
  <2>0. /\ UNCHANGED <<bars, cpcv>> /\ bars \in [SplitAssets -> Histories]
        /\ w \in WalkConfigs /\ walk.results \in Seq(Causal) /\ k \in Nat
        /\ walk \in [config : WalkConfigs, results : Seq(Causal)]
    BY <1>2 DEF NextFold, SplitsInv
  <2>1. PICK verdict \in Verdicts :
          walk' = [walk EXCEPT !.results =
                     Append(@, [verdict |-> verdict, valid |-> valid, train |-> train])]
    BY <1>2, Zenon DEF NextFold, Verdicts
  <2> DEFINE r == [verdict |-> verdict, valid |-> valid, train |-> train]
             mid == k * w.step + w.train
  <2>2. k * w.step \in Int /\ mid \in Int /\ mid + w.validate \in Int
    <3>1. w.step \in Nat /\ w.train \in Nat /\ w.validate \in Nat
      BY <2>0, SplitsAssumption
    <3>2. k * w.step \in Int
      BY <2>0, <3>1, SMT
    <3> QED BY <3>1, <3>2
  <2>3. fold.train = <<k * w.step, mid>> /\ fold.valid = <<mid, mid + w.validate>>
    BY DEF FoldAt
  <2>4. ASSUME NEW a \in SplitAssets, NEW i \in train[a], NEW j \in valid[a] PROVE i < j
    <3>1. bars[a] \in Seq(Int)
      BY <2>0, SplitsAssumption
    <3>2. i \in SliceByDays(bars[a], <<k * w.step, mid>>)
          /\ j \in SliceByDays(bars[a], <<mid, mid + w.validate>>)
      BY <2>3
    <3> HIDE DEF mid, k, w, train, valid
    <3> QED BY <2>2, <3>1, <3>2, SlicesMeet
  <2>5. valid \in [SplitAssets -> SUBSET Int] /\ train \in [SplitAssets -> SUBSET Int]
    BY SliceIsSamples
  <2>6. r \in Causal
    <3> HIDE DEF train, valid
    <3> QED BY <2>4, <2>5 DEF Causal
  <2>7. walk' \in [config : WalkConfigs, results : Seq(Causal)]
    <3> HIDE DEF r
    <3>1. Append(walk.results, r) \in Seq(Causal)
      BY <2>0, <2>6, AppendProperties
    <3>2. walk' = [walk EXCEPT !.results = Append(@, r)]
      BY <2>1 DEF r
    <3> QED BY <2>0, <3>1, <3>2
  <2> HIDE DEF w, k, fold, valid, train, r
  <2> QED BY <2>0, <2>7 DEF SplitsInv, CausalSplits
<1>3. CASE UNCHANGED splitsVars
  BY <1>3 DEF splitsVars, SplitsInv, CausalSplits
<1> QED BY <1>1, <1>2, <1>3 DEF SplitsNext

LEMMA SplitsAreCausal == SplitsInv => TrainPrecedesTest
<1> SUFFICES ASSUME SplitsInv PROVE TrainPrecedesTest
  OBVIOUS
<1>1. ASSUME NEW r \in ToSet(walk.results) PROVE r \in Causal
  BY DEF SplitsInv, ToSet
<1> QED BY <1>1 DEF SplitsInv, CausalSplits, TrainPrecedesTest, Causal

(* For every history in order of time, however it is spaced, no split of   *)
(* the cross-validation trains within the purge of what it tests, and no   *)
(* fold of the walk-forward validates on candles it trains on, or older    *)
(* ones (cross_validation.py:44-52, validator.py:55-62).                   *)
THEOREM ValidationIsCausal == SplitsSpec => []TrainPrecedesTest
  BY SplitsInitially, SplitsStep, SplitsAreCausal, PTL DEF SplitsSpec

----------------------------------------------------------------------------
(* Facts about files.                                                      *)

(* The well-formed lines of a file are all kept, and nothing else is.      *)
LEMMA IntactKeeps ==
    ASSUME NEW L, NEW file \in Seq(L)
    PROVE  Intact(file) \in Seq(L) /\ ToSet(Intact(file)) = ToSet(file) \ {Torn}
<1> DEFINE len == Len(file)
           at == {i \in 1..len : file[i] # Torn}
           n == Cardinality(at)
           upto(i) == at \cap 1..i
           nth(k) == CHOOSE i \in at : Cardinality(upto(i)) = k
           rank == [i \in at |-> Cardinality(upto(i))]
<1>0. len \in Nat /\ DOMAIN file = 1..len
  BY LenProperties
<1>1. IsFiniteSet(at) /\ n \in Nat
  <2>1. IsFiniteSet(1..len)
    BY <1>0, FS_Interval
  <2>2. IsFiniteSet(at)
    <3>1. at \subseteq 1..len
      OBVIOUS
    <3> QED BY <2>1, <3>1, FS_Subset
  <2> QED BY <2>2, FS_CardinalityType
<1>2. \A i \in at : i \in Nat /\ i \in 1..i /\ i \in upto(i)
  BY <1>0
<1> HIDE DEF at
<1>3. ASSUME NEW i \in at PROVE Cardinality(upto(i)) \in 1..n /\ IsFiniteSet(upto(i))
  <2>1. IsFiniteSet(upto(i)) /\ Cardinality(upto(i)) <= n
    BY <1>1, FS_Subset
  <2>2. Cardinality(upto(i)) \in Nat /\ Cardinality(upto(i)) # 0
    BY <2>1, <1>2, FS_CardinalityType, FS_EmptySet
  <2> QED BY <1>1, <2>1, <2>2
<1>4. ASSUME NEW i \in at, NEW j \in at, Cardinality(upto(i)) = Cardinality(upto(j)), i < j PROVE FALSE
  <2>1. upto(i) \subseteq upto(j)
    BY <1>2, <1>4
  <2>2. j \in upto(j) /\ j \notin upto(i)
    BY <1>2, <1>4
  <2>3. IsFiniteSet(upto(j))
    BY <1>3
  <2> QED BY <1>4, <2>1, <2>2, <2>3, FS_Subset
<1>5. ASSUME NEW i \in at, NEW j \in at, Cardinality(upto(i)) = Cardinality(upto(j)) PROVE i = j
  <2>1. ~(i < j) /\ ~(j < i)
    BY <1>4, <1>5
  <2> QED BY <1>2, <2>1
<1>6. rank \in Injection(at, 1..n)
  <2>1. rank \in [at -> 1..n]
    BY <1>3
  <2>2. IsInjective(rank)
    BY <1>5 DEF IsInjective
  <2> QED BY <2>1, <2>2 DEF Injection
<1>7. rank \in Surjection(at, 1..n)
  <2>1. IsFiniteSet(1..n) /\ Cardinality(1..n) = n
    BY <1>1, FS_Interval
  <2> HIDE DEF rank
  <2> QED BY <1>6, <2>1, FS_Injection
<1>8. ASSUME NEW k \in 1..n PROVE nth(k) \in at /\ Cardinality(upto(nth(k))) = k
  <2>1. \E i \in at : Cardinality(upto(i)) = k
    BY <1>7 DEF Surjection
  <2> QED BY <2>1, Zenon
<1> DEFINE out == [k \in 1..n |-> file[nth(k)]]
<1>9. out = Intact(file)
  BY DEF Intact, at
<1> HIDE DEF nth, upto, n
<1>10. ASSUME NEW k \in 1..n PROVE nth(k) \in 1..len /\ out[k] = file[nth(k)] /\ out[k] # Torn
  <2>1. nth(k) \in at
    BY <1>8
  <2> QED BY <2>1 DEF at
<1>11. out \in Seq(L)
  <2>1. \A k \in 1..n : out[k] \in L
    BY <1>10, <1>0, ElementOfSeq
  <2>2. out \in [1..n -> L]
    BY <2>1
  <2> QED BY <1>1, <2>2, SeqDef
<1>12. ToSet(out) = ToSet(file) \ {Torn}
  <2>1. ASSUME NEW x \in ToSet(out) PROVE x \in ToSet(file) \ {Torn}
    <3>1. PICK k \in 1..n : x = out[k]
      BY DEF ToSet
    <3> QED BY <1>0, <1>10, <3>1 DEF ToSet
  <2>2. ASSUME NEW x \in ToSet(file) \ {Torn} PROVE x \in ToSet(out)
    <3>1. PICK i \in 1..len : x = file[i]
      BY <1>0 DEF ToSet
    <3>2. i \in at
      BY <3>1 DEF at
    <3>3. Cardinality(upto(i)) \in 1..n
      BY <1>3, <3>2
    <3>4. nth(Cardinality(upto(i))) = i
      BY <1>5, <1>8, <3>2, <3>3
    <3>5. out[Cardinality(upto(i))] = x
      BY <1>10, <3>1, <3>3, <3>4
    <3>6. Cardinality(upto(i)) \in DOMAIN out
      BY <3>3
    <3> QED BY <3>5, <3>6 DEF ToSet
  <2> QED BY <2>1, <2>2
<1> QED BY <1>9, <1>11, <1>12

----------------------------------------------------------------------------
(* The learning graph's file.                                              *)

Node == [verdict : Endings \cup {NoCtx}, ctx : Endings \cup {NoCtx}]
Keys(lines) == {Key(r) : r \in lines}
FlushedKeys(w) == IF flushed[w] = Unknown THEN {} ELSE flushed[w]

(* All of a writer's keys are in the lines it is about to write.           *)
Written(w) == EdgeKeys(graph[w]) \subseteq Keys(ToSet(serialised[w]))

(* A writer's keys are accounted for at each of its places, and only its   *)
(* holder writes under the lock.                                           *)
Accounted(w) ==
    /\ lock = w <=> pc[w] \in {"append", "archive", "replace"}
    /\ pc[w] \notin {"purge", "purge bare"}
    /\ pc[w] \in {"flush", "append"} =>
         EdgeKeys(graph[w]) \subseteq Keys(ToSet(serialised[w])) \cup FlushedKeys(w)
    /\ pc[w] \in {"compact", "archive", "replace"} => Written(w)
    /\ pc[w] = "replace" => live = Absent
    /\ FlushedKeys(w) \subseteq OnDisk

(* As long as no append was torn, the file is whole and nobody repairs it. *)
Whole == (live = Absent \/ live \in Seq(Record)) /\ ragged = FALSE
Kept == Whole /\ (\A w \in Writers : Accounted(w)) /\ acked \subseteq OnDisk

GraphInv == GraphTypeOK /\ (~torn => Kept)

LEMMA FileShapes ==
    ASSUME NEW file \in Seq(Record) PROVE file # Absent /\ Torn \notin ToSet(file)
<1>1. file \in Seq(Record \cup {Torn})
  <2>1. \A i \in 1..Len(file) : file[i] \in Record
    BY ElementOfSeq
  <2>2. Len(file) \in Nat /\ file = [i \in 1..Len(file) |-> file[i]]
    BY LenProperties
  <2>3. file \in [1..Len(file) -> Record \cup {Torn}]
    BY <2>1, <2>2
  <2> QED BY <2>2, <2>3, SeqDef
<1>2. \A x \in ToSet(file) : x \in Record
  BY DEF ToSet
<1> QED BY <1>1, <1>2, GraphAssumption

LEMMA IntactFile ==
    ASSUME NEW file \in Seq(Record \cup {Torn})
    PROVE  Intact(file) \in Seq(Record) /\ ToSet(Intact(file)) = ToSet(file) \ {Torn}
<1> DEFINE out == Intact(file)
<1>1. out \in Seq(Record \cup {Torn}) /\ ToSet(out) = ToSet(file) \ {Torn}
  BY IntactKeeps
<1> HIDE DEF out
<1>2. Len(out) \in Nat /\ DOMAIN out = 1..Len(out) /\ out \in [1..Len(out) -> Record \cup {Torn}]
  BY <1>1, LenProperties
<1>3. ASSUME NEW i \in 1..Len(out) PROVE out[i] \in Record
  <2>1. out[i] \in ToSet(out)
    BY <1>2 DEF ToSet
  <2> QED BY <1>1, <1>2, <2>1
<1>4. out \in [1..Len(out) -> Record]
  BY <1>2, <1>3
<1>5. out \in Seq(Record)
  BY <1>2, <1>4, SeqDef
<1> QED BY <1>1, <1>5 DEF out

(* The verdict a trade is loaded with is that of one of its lines.         *)
LEMMA LoadedTrade ==
    ASSUME NEW file \in Seq(Record \cup {Torn}), NEW t \in Trades
    PROVE  /\ Loaded(file)[t] \in Node
           /\ Loaded(file)[t].verdict # NoCtx =>
                \E r \in ToSet(file) \ {Torn} : Key(r) = <<t, Loaded(file)[t].verdict>>
<1> DEFINE n == Len(file)
           mine == LinesOf(t, file)
           firsts == FirstLines(t, file)
           c == file[Max(firsts)].ctx
           last == WithContext(c, t, file)
<1>0. /\ n \in Nat /\ DOMAIN file = 1..n
      /\ \A i \in 1..n : file[i] \in Record \cup {Torn}
  BY LenProperties, ElementOfSeq
<1>1. /\ mine \subseteq 1..n
      /\ \A i \in mine : file[i] \in Record /\ file[i] # Torn /\ file[i].trade = t
  BY <1>0, GraphAssumption DEF LinesOf
<1>2. CASE mine = {}
  <2>1. Loaded(file)[t] = NewNode
    BY <1>2, Zenon DEF Loaded
  <2> QED BY <2>1 DEF NewNode, Node
<1>3. CASE mine # {}
  <2>1. firsts # {}
    <3>1. PICK i \in mine : TRUE
      BY <1>3
    <3> DEFINE same == WithContext(file[i].ctx, t, file)
    <3>2. same \subseteq Nat /\ i \in same /\ same \subseteq mine
          /\ \A j \in same : file[j].ctx = file[i].ctx
      BY <1>0, <1>1, <3>1 DEF WithContext
    <3>3. PICK j \in same : \A k \in same : j <= k
      BY <3>2, LeastOf
    <3>4. j \in mine /\ WithContext(file[j].ctx, t, file) = same
      BY <3>2, <3>3
    <3>5. j \in firsts
      BY <3>3, <3>4 DEF FirstLines
    <3> QED BY <3>5
  <2>2. firsts \subseteq mine
    BY DEF FirstLines
  <2>3. Max(firsts) \in mine
    <3>1. firsts \subseteq 1..n
      BY <1>1, <2>2
    <3> HIDE DEF firsts, n, mine
    <3> QED BY <1>0, <2>1, <2>2, <3>1, LargestOf
  <2>4. last # {} /\ last \subseteq mine
    <3>1. Max(firsts) \in last
      BY <2>3 DEF WithContext
    <3> QED BY <3>1 DEF WithContext
  <2>5. Max(last) \in mine
    <3>1. last \subseteq 1..n
      BY <1>1, <2>4
    <3> HIDE DEF last, n, mine
    <3> QED BY <1>0, <2>4, <3>1, LargestOf
  <2>6. Loaded(file)[t] = [verdict |-> file[Max(last)].verdict, ctx |-> c]
    BY <1>3, Zenon DEF Loaded
  <2>7. /\ file[Max(last)] \in Record /\ file[Max(last)] # Torn /\ file[Max(last)].trade = t
        /\ file[Max(last)] \in ToSet(file)
        /\ c \in Endings \cup {NoCtx}
    <3>1. Max(last) \in 1..n
      BY <1>1, <2>5
    <3>2. file[Max(last)] \in ToSet(file)
      BY <1>0, <3>1 DEF ToSet
    <3>3. file[Max(firsts)] \in Record
      BY <1>1, <2>3
    <3>4. c \in Endings \cup {NoCtx}
      BY <3>3 DEF Record
    <3>5. file[Max(last)] \in Record /\ file[Max(last)] # Torn /\ file[Max(last)].trade = t
      BY <1>1, <2>5
    <3> QED BY <3>2, <3>4, <3>5
  <2> HIDE DEF c, last
  <2>8. file[Max(last)].verdict \in Endings
    BY <2>7 DEF Record
  <2>9. Loaded(file)[t] \in Node /\ Loaded(file)[t].verdict = file[Max(last)].verdict
    BY <2>6, <2>7, <2>8 DEF Node
  <2>10. Key(file[Max(last)]) = <<t, Loaded(file)[t].verdict>>
    BY <2>7, <2>9 DEF Key
  <2> QED BY <2>7, <2>9, <2>10
<1> QED BY <1>2, <1>3

LEMMA LoadedKeys ==
    ASSUME NEW file \in Seq(Record \cup {Torn})
    PROVE  /\ Loaded(file) \in [Trades -> Node]
           /\ EdgeKeys(Loaded(file)) \subseteq Keys(ToSet(file) \ {Torn})
<1> DEFINE g == Loaded(file)
<1>1. DOMAIN g = Trades /\ g = [t \in Trades |-> g[t]]
  BY Zenon DEF Loaded
<1> HIDE DEF g
<1>2. \A t \in Trades : g[t] \in Node
  BY LoadedTrade DEF g
<1>3. g \in [Trades -> Node]
  BY <1>1, <1>2
<1>4. ASSUME NEW k \in EdgeKeys(g) PROVE k \in Keys(ToSet(file) \ {Torn})
  <2>1. PICK t \in Trades : g[t].verdict # NoCtx /\ k = <<t, g[t].verdict>>
    BY DEF EdgeKeys
  <2>2. \E r \in ToSet(file) \ {Torn} : Key(r) = <<t, g[t].verdict>>
    BY <2>1, LoadedTrade DEF g
  <2> QED BY <2>1, <2>2 DEF Keys
<1> QED BY <1>3, <1>4 DEF g

LEMMA KeysTyped ==
    ASSUME NEW g \in [Trades -> Node]
    PROVE  EdgeKeys(g) \subseteq Trades \X Endings /\ IsFiniteSet(EdgeKeys(g))
<1>1. EdgeKeys(g) \subseteq Trades \X Endings
  BY DEF EdgeKeys, Node
<1> DEFINE S == {t \in Trades : g[t].verdict # NoCtx}
           f == [t \in S |-> <<t, g[t].verdict>>]
<1>2. IsFiniteSet(S)
  <2>1. S \subseteq Trades
    OBVIOUS
  <2> QED BY <2>1, GraphAssumption, FS_Subset
<1>3. f \in Surjection(S, EdgeKeys(g))
  BY DEF Surjection, EdgeKeys
<1>4. IsFiniteSet(EdgeKeys(g))
  <2> HIDE DEF f, S
  <2> QED BY <1>2, <1>3, FS_Surjection
<1> QED BY <1>1, <1>4

(* The lines of some of a graph's keys, one for each.                      *)
LEMMA LinesListed ==
    ASSUME NEW K \in SUBSET (Trades \X Endings), IsFiniteSet(K),
           NEW lines, NEW f \in Surjection(K, lines),
           \A k \in K : f[k] \in Record /\ Key(f[k]) = k
    PROVE  SetToSeq(lines) \in Seq(Record) /\ Keys(ToSet(SetToSeq(lines))) = K
<1>1. IsFiniteSet(lines)
  BY FS_Surjection
<1>2. SetToSeq(lines) \in Seq(lines) /\ ToSet(SetToSeq(lines)) = lines
  BY <1>1, SetToSeqLists
<1>3. \A r \in lines : \E k \in K : f[k] = r
  BY DEF Surjection
<1>4. \A k \in K : f[k] \in lines
  BY DEF Surjection
<1>5. lines \subseteq Record
  BY <1>3
<1>6. SetToSeq(lines) \in Seq(Record)
  <2> DEFINE s == SetToSeq(lines)
  <2>1. Len(s) \in Nat /\ s \in [1..Len(s) -> lines]
    BY <1>2, LenProperties
  <2> HIDE DEF s
  <2>2. s \in [1..Len(s) -> Record]
    BY <1>5, <2>1
  <2> QED BY <2>1, <2>2, SeqDef DEF s
<1>7. Keys(lines) = K
  BY <1>3, <1>4 DEF Keys
<1> QED BY <1>2, <1>6, <1>7

LEMMA PendingListed ==
    ASSUME NEW w \in Writers, graph[w] \in [Trades -> Node]
    PROVE  /\ SetToSeq(Pending(w)) \in Seq(Record)
           /\ EdgeKeys(graph[w]) \subseteq Keys(ToSet(SetToSeq(Pending(w)))) \cup FlushedKeys(w)
<1> DEFINE K == EdgeKeys(graph[w]) \ FlushedKeys(w)
           f == [k \in K |-> [trade |-> k[1], verdict |-> k[2], ctx |-> k[2]]]
<1>1. K \in SUBSET (Trades \X Endings) /\ IsFiniteSet(K)
  <2>1. K \subseteq EdgeKeys(graph[w])
    OBVIOUS
  <2> QED BY <2>1, KeysTyped, FS_Subset
<1>2. Pending(w) = {f[k] : k \in K}
  BY DEF Pending, FlushedKeys
<1> HIDE DEF K
<1>3. \A k \in K : f[k] \in Record /\ Key(f[k]) = k
  BY <1>1 DEF Record, Key
<1>4. f \in Surjection(K, Pending(w))
  BY <1>2 DEF Surjection
<1> HIDE DEF f
<1>5. SetToSeq(Pending(w)) \in Seq(Record) /\ Keys(ToSet(SetToSeq(Pending(w)))) = K
  BY <1>1, <1>3, <1>4, LinesListed
<1> QED BY <1>5 DEF K

LEMMA DedupedListed ==
    ASSUME NEW w \in Writers, graph[w] \in [Trades -> Node]
    PROVE  /\ SetToSeq(Deduped(w)) \in Seq(Record)
           /\ EdgeKeys(graph[w]) \subseteq Keys(ToSet(SetToSeq(Deduped(w))))
<1> DEFINE K == EdgeKeys(graph[w])
           f == [k \in K |-> [trade |-> k[1], verdict |-> k[2], ctx |-> graph[w][k[1]].ctx]]
<1>1. K \in SUBSET (Trades \X Endings) /\ IsFiniteSet(K)
  BY KeysTyped
<1>2. Deduped(w) = {f[k] : k \in K}
  BY DEF Deduped
<1> HIDE DEF K
<1>3. \A k \in K : f[k] \in Record /\ Key(f[k]) = k
  BY <1>1 DEF Record, Key, Node
<1>4. f \in Surjection(K, Deduped(w))
  BY <1>2 DEF Surjection
<1> HIDE DEF f
<1>5. SetToSeq(Deduped(w)) \in Seq(Record) /\ Keys(ToSet(SetToSeq(Deduped(w)))) = K
  BY <1>1, <1>3, <1>4, LinesListed
<1> QED BY <1>5 DEF K

Places == {"down", "purge", "purge bare", "idle", "flush", "append", "compact", "archive",
           "replace"}

LEMMA GraphTypes ==
    ASSUME GraphTypeOK
    PROVE  /\ graph \in [Writers -> [Trades -> Node]] /\ pc \in [Writers -> Places]
           /\ serialised \in [Writers -> Seq(Record)]
           /\ flushed \in [Writers -> {Unknown} \cup SUBSET (Trades \X Endings)]
           /\ \A w \in Writers : FlushedKeys(w) \subseteq Trades \X Endings
           /\ Lines(live) \subseteq Record
<1>1. Lines(live) \subseteq Record
  <2>1. CASE live = Absent
    BY <2>1 DEF Lines
  <2>2. CASE live \in Seq(Record \cup {Torn})
    <3>1. DOMAIN live = 1..Len(live) /\ \A i \in 1..Len(live) : live[i] \in Record \cup {Torn}
      BY <2>2, LenProperties, ElementOfSeq
    <3>2. Lines(live) \subseteq ToSet(live) \ {Torn}
      BY DEF Lines
    <3> QED BY <3>1, <3>2 DEF ToSet
  <2> QED BY <2>1, <2>2 DEF GraphTypeOK
<1>2. graph \in [Writers -> [Trades -> Node]]
  BY DEF GraphTypeOK, Node
<1>3. \A w \in Writers : FlushedKeys(w) \subseteq Trades \X Endings
  BY DEF GraphTypeOK, FlushedKeys
<1>4. /\ pc \in [Writers -> Places] /\ serialised \in [Writers -> Seq(Record)]
      /\ flushed \in [Writers -> {Unknown} \cup SUBSET (Trades \X Endings)]
  BY DEF GraphTypeOK, Places
<1> QED BY <1>1, <1>2, <1>3, <1>4

LEMMA WiderSeq ==
    ASSUME NEW S, NEW T, S \subseteq T, NEW s \in Seq(S) PROVE s \in Seq(T)
<1>1. Len(s) \in Nat /\ s \in [1..Len(s) -> S]
  BY LenProperties
<1>2. s \in [1..Len(s) -> T]
  BY <1>1
<1> QED BY <1>1, <1>2, SeqDef

LEMMA ConcatLists ==
    ASSUME NEW S, NEW s \in Seq(S), NEW t \in Seq(S)
    PROVE  s \o t \in Seq(S) /\ ToSet(s \o t) = ToSet(s) \cup ToSet(t)
<1>1. /\ Len(s) \in Nat /\ Len(t) \in Nat
      /\ DOMAIN s = 1..Len(s) /\ DOMAIN t = 1..Len(t)
  BY LenProperties
<1>2. /\ s \o t \in Seq(S) /\ Len(s \o t) = Len(s) + Len(t)
      /\ \A i \in 1..Len(s) + Len(t) :
            (s \o t)[i] = IF i <= Len(s) THEN s[i] ELSE t[i - Len(s)]
  BY ConcatProperties
<1>3. DOMAIN (s \o t) = 1..Len(s) + Len(t)
  BY <1>2, LenProperties
<1>4. ASSUME NEW x \in ToSet(s \o t) PROVE x \in ToSet(s) \cup ToSet(t)
  <2>1. PICK i \in 1..Len(s) + Len(t) : x = (s \o t)[i]
    BY <1>3 DEF ToSet
  <2>2. CASE i <= Len(s)
    BY <1>1, <1>2, <2>1, <2>2 DEF ToSet
  <2>3. CASE ~(i <= Len(s))
    <3>1. i - Len(s) \in 1..Len(t) /\ x = t[i - Len(s)]
      BY <1>1, <1>2, <2>1, <2>3
    <3> QED BY <1>1, <3>1 DEF ToSet
  <2> QED BY <2>2, <2>3
<1>5. ASSUME NEW x \in ToSet(s) PROVE x \in ToSet(s \o t)
  <2>1. PICK i \in 1..Len(s) : x = s[i]
    BY <1>1 DEF ToSet
  <2>2. i \in 1..Len(s) + Len(t) /\ (s \o t)[i] = x
    BY <1>1, <1>2, <2>1
  <2> QED BY <1>3, <2>2 DEF ToSet
<1>6. ASSUME NEW x \in ToSet(t) PROVE x \in ToSet(s \o t)
  <2>1. PICK i \in 1..Len(t) : x = t[i]
    BY <1>1 DEF ToSet
  <2>2. Len(s) + i \in 1..Len(s) + Len(t) /\ (s \o t)[Len(s) + i] = x
    BY <1>1, <1>2, <2>1
  <2> QED BY <1>3, <2>2 DEF ToSet
<1> QED BY <1>2, <1>4, <1>5, <1>6

LEMMA SubSeqTyped ==
    ASSUME NEW S, NEW s \in Seq(S), NEW m \in Int, NEW n \in Int, 1 <= m, n <= Len(s)
    PROVE  SubSeq(s, m, n) \in Seq(S) /\ ToSet(SubSeq(s, m, n)) \subseteq ToSet(s)
<1> DEFINE u == SubSeq(s, m, n)
<1>1. Len(s) \in Nat /\ DOMAIN s = 1..Len(s) /\ \A i \in 1..Len(s) : s[i] \in S
  BY LenProperties, ElementOfSeq
<1>2. \A i \in m..n : i \in 1..Len(s)
  BY <1>1
<1>3. /\ u \in Seq(S) /\ Len(u) = IF m <= n THEN n - m + 1 ELSE 0
      /\ \A i \in 1..n - m + 1 : u[i] = s[m + i - 1]
  BY <1>1, <1>2, SubSeqProperties
<1> HIDE DEF u
<1>4. ASSUME NEW x \in ToSet(u) PROVE x \in ToSet(s)
  <2>1. PICK i \in 1..Len(u) : x = u[i]
    BY <1>3, LenProperties DEF ToSet
  <2>2. i \in 1..n - m + 1 /\ m + i - 1 \in 1..Len(s)
    BY <1>1, <1>3, <2>1
  <2>3. x = s[m + i - 1]
    BY <1>3, <2>1, <2>2
  <2> QED BY <1>1, <2>2, <2>3 DEF ToSet
<1> QED BY <1>3, <1>4 DEF u

(* The live file as it is read, and what an append makes of it.            *)
LEMMA FileTyped ==
    ASSUME GraphTypeOK
    PROVE  /\ File \in Seq(Record \cup {Torn}) /\ ToSet(File) \ {Torn} = Lines(live)
           /\ Whole => File \in Seq(Record)
<1>1. CASE live = Absent
  <2>1. File = <<>> /\ <<>> \in Seq(Record \cup {Torn}) /\ <<>> \in Seq(Record)
        /\ Len(<<>>) = 0 /\ DOMAIN <<>> = 1..0
    BY <1>1, EmptySeq, LenProperties DEF File
  <2> QED BY <1>1, <2>1 DEF Lines, ToSet
<1>2. CASE live # Absent
  <2>1. File = live
    BY <1>2 DEF File
  <2> QED BY <1>2, <2>1 DEF Lines, GraphTypeOK, Whole
<1> QED BY <1>1, <1>2

LEMMA AppendedTyped ==
    ASSUME GraphTypeOK, NEW lines \in Seq(Record \cup {Torn})
    PROVE  Appended(lines) \in Seq(Record \cup {Torn})
<1> DEFINE R == Record \cup {Torn}
           rest == SubSeq(lines, 2, Len(lines))
           some == SubSeq(File, 1, Len(File) - 1)
<1>1. File \in Seq(R) /\ Len(File) \in Nat /\ Len(lines) \in Nat /\ Torn \in R
  BY FileTyped, LenProperties
<1>2. rest \in Seq(R)
  <2> HIDE DEF R
  <2>1. lines \in Seq(R)
    BY DEF R
  <2> QED BY <1>1, <2>1, SubSeqTyped
<1>3. some \in Seq(R)
  <2> HIDE DEF R
  <2> QED BY <1>1, SubSeqTyped
<1> HIDE DEF rest
<1>4. Append(some, Torn) \in Seq(R)
  <2> HIDE DEF R, some
  <2> QED BY <1>1, <1>3, AppendProperties
<1>5. lines \in Seq(R)
  OBVIOUS
<1> HIDE DEF R
<1>6. CASE ragged
  <2>1. Appended(lines) = Append(some, Torn) \o rest
    BY <1>6 DEF Appended, Front, rest
  <2> HIDE DEF some
  <2> QED BY <1>2, <1>4, <2>1, ConcatLists DEF R
<1>7. CASE ~ragged
  <2>1. Appended(lines) = File \o lines
    BY <1>7 DEF Appended
  <2> QED BY <1>1, <1>5, <2>1, ConcatLists DEF R
<1> QED BY <1>6, <1>7

LEMMA AppendedWhole ==
    ASSUME GraphTypeOK, Whole, NEW lines \in Seq(Record)
    PROVE  /\ Appended(lines) \in Seq(Record)
           /\ Lines(Appended(lines)) = Lines(live) \cup ToSet(lines)
<1>1. File \in Seq(Record) /\ ToSet(File) \ {Torn} = Lines(live)
  BY FileTyped
<1>2. Torn \notin ToSet(File)
  BY <1>1, FileShapes
<1>3. Appended(lines) = File \o lines
  BY DEF Appended, Whole
<1>4. File \o lines \in Seq(Record) /\ ToSet(File \o lines) = ToSet(File) \cup ToSet(lines)
  BY <1>1, ConcatLists
<1>5. File \o lines # Absent /\ Torn \notin ToSet(File \o lines)
  BY <1>4, FileShapes
<1> QED BY <1>1, <1>2, <1>3, <1>4, <1>5 DEF Lines

LEMMA HalvesTyped ==
    ASSUME GraphTypeOK, NEW lines \in Seq(Record)
    PROVE  Halves(lines) \subseteq Seq(Record \cup {Torn})
<1> SUFFICES ASSUME NEW n \in 0..Len(lines) - 1
             PROVE  Appended(Append(SubSeq(lines, 1, n), Torn)) \in Seq(Record \cup {Torn})
  BY DEF Halves
<1> DEFINE R == Record \cup {Torn}
           some == SubSeq(lines, 1, n)
<1>1. Len(lines) \in Nat
  BY LenProperties
<1>2. some \in Seq(Record)
  BY <1>1, SubSeqTyped
<1> HIDE DEF some
<1>3. some \in Seq(R) /\ Torn \in R
  BY <1>2, WiderSeq
<1> HIDE DEF R
<1>4. Append(some, Torn) \in Seq(R)
  BY <1>3, AppendProperties
<1> QED BY <1>4, AppendedTyped DEF R, some

(* What a step of one writer has to respect for the others.                *)
LEMMA StepKeeps ==
    ASSUME GraphInv, NEW w \in Writers,
           NEW g \in [Trades -> Node], NEW f \in {Unknown} \cup SUBSET (Trades \X Endings),
           NEW p \in Places, NEW s \in Seq(Record),
           graph' = [graph EXCEPT ![w] = g], flushed' = [flushed EXCEPT ![w] = f],
           pc' = [pc EXCEPT ![w] = p], serialised' = [serialised EXCEPT ![w] = s],
           lock' \in Writers \cup {Free},
           live' = Absent \/ live' \in Seq(Record \cup {Torn}), ragged' \in BOOLEAN,
           archived' \subseteq Record, acked' \subseteq Trades \X Endings,
           torn' \in BOOLEAN, torn => torn',
           Kept /\ ~torn' =>
              /\ OnDisk \subseteq OnDisk' /\ acked' \subseteq OnDisk' /\ Whole' /\ Accounted(w)'
              /\ \A v \in Writers \ {w} :
                    (lock' = v <=> lock = v) /\ (pc[v] = "replace" => live' = Absent)
    PROVE  GraphInv'
<1>1. /\ graph \in [Writers -> [Trades -> Node]] /\ pc \in [Writers -> Places]
      /\ serialised \in [Writers -> Seq(Record)]
      /\ flushed \in [Writers -> {Unknown} \cup SUBSET (Trades \X Endings)]
  BY GraphTypes DEF GraphInv
<1>2. graph' \in [Writers -> [Trades -> Node]]
  BY <1>1
<1>3. pc' \in [Writers -> Places] /\ serialised' \in [Writers -> Seq(Record)]
  BY <1>1
<1>4. flushed' \in [Writers -> {Unknown} \cup SUBSET (Trades \X Endings)]
  BY <1>1
<1>5. GraphTypeOK'
  BY <1>2, <1>3, <1>4 DEF GraphTypeOK, Node, Places
<1>6. ASSUME ~torn' PROVE Kept'
  <2>1. Kept
    BY <1>6 DEF GraphInv
  <2>2. ASSUME NEW v \in Writers \ {w} PROVE Accounted(v)'
    <3>1. /\ graph'[v] = graph[v] /\ flushed'[v] = flushed[v] /\ pc'[v] = pc[v]
          /\ serialised'[v] = serialised[v]
      BY <1>1
    <3>2. Accounted(v)
      BY <2>1 DEF Kept
    <3>3. FlushedKeys(v)' = FlushedKeys(v) /\ (Written(v)' <=> Written(v))
      BY <3>1 DEF FlushedKeys, Written
    <3>4. /\ lock' = v <=> lock = v
          /\ pc[v] = "replace" => live' = Absent
          /\ OnDisk \subseteq OnDisk'
      BY <1>6, <2>1
    <3> QED BY <3>1, <3>2, <3>3, <3>4 DEF Accounted
  <2>3. Accounted(w)' /\ Whole' /\ acked' \subseteq OnDisk'
    BY <1>6, <2>1
  <2> QED BY <2>2, <2>3 DEF Kept
<1> QED BY <1>5, <1>6 DEF GraphInv

(* A step that leaves the files alone.                                     *)
LEMMA LocalKeeps ==
    ASSUME GraphInv, NEW w \in Writers,
           NEW g \in [Trades -> Node], NEW f \in {Unknown} \cup SUBSET (Trades \X Endings),
           NEW p \in Places, NEW s \in Seq(Record),
           graph' = [graph EXCEPT ![w] = g], flushed' = [flushed EXCEPT ![w] = f],
           pc' = [pc EXCEPT ![w] = p], serialised' = [serialised EXCEPT ![w] = s],
           lock' \in Writers \cup {Free}, \A v \in Writers \ {w} : lock' = v <=> lock = v,
           UNCHANGED <<live, ragged, archived, acked>>,
           torn' \in BOOLEAN, torn => torn',
           Kept /\ ~torn' => Accounted(w)'
    PROVE  GraphInv'
<1>1. OnDisk' = OnDisk /\ (Whole' <=> Whole)
  BY DEF OnDisk, Whole
<1>2. ASSUME Kept, ~torn'
      PROVE  /\ OnDisk \subseteq OnDisk' /\ acked' \subseteq OnDisk' /\ Whole' /\ Accounted(w)'
             /\ \A v \in Writers \ {w} :
                   (lock' = v <=> lock = v) /\ (pc[v] = "replace" => live' = Absent)
  <2>1. acked' \subseteq OnDisk' /\ Whole' /\ Accounted(w)'
    BY <1>1, <1>2 DEF Kept
  <2>2. \A v \in Writers \ {w} : pc[v] = "replace" => live' = Absent
    BY <1>2 DEF Kept, Accounted
  <2> QED BY <1>1, <2>1, <2>2
<1>3. /\ live' = Absent \/ live' \in Seq(Record \cup {Torn})
      /\ ragged' \in BOOLEAN /\ archived' \subseteq Record /\ acked' \subseteq Trades \X Endings
  BY DEF GraphInv, GraphTypeOK
<1> QED BY <1>2, <1>3, StepKeeps

LEMMA AddTradeKeeps ==
    ASSUME GraphInv, NEW w \in Writers, NEW t \in Trades, NEW e \in Endings, AddTrade(w, t, e)
    PROVE  GraphInv'
<1> DEFINE g == [graph[w] EXCEPT ![t] = [verdict |-> e, ctx |-> NoCtx]]
<1>0. /\ graph \in [Writers -> [Trades -> Node]] /\ pc \in [Writers -> Places]
      /\ serialised \in [Writers -> Seq(Record)]
      /\ flushed \in [Writers -> {Unknown} \cup SUBSET (Trades \X Endings)]
  BY GraphTypes DEF GraphInv
<1>1. /\ pc[w] = "idle" /\ graph' = [graph EXCEPT ![w] = g]
      /\ UNCHANGED <<live, ragged, archived, lock, flushed, pc, serialised, acked, torn>>
  BY <1>0 DEF AddTrade
<1>2. g \in [Trades -> Node]
  BY <1>0 DEF Node
<1> HIDE DEF g
<1>3. /\ pc' = [pc EXCEPT ![w] = "idle"] /\ serialised' = [serialised EXCEPT ![w] = serialised[w]]
      /\ flushed' = [flushed EXCEPT ![w] = flushed[w]]
      /\ "idle" \in Places /\ serialised[w] \in Seq(Record)
      /\ flushed[w] \in {Unknown} \cup SUBSET (Trades \X Endings)
  BY <1>0, <1>1 DEF Places
<1>4. ASSUME Kept PROVE Accounted(w)'
  <2>1. Accounted(w) /\ pc'[w] = "idle" /\ FlushedKeys(w)' = FlushedKeys(w) /\ OnDisk' = OnDisk
    BY <1>1, <1>4 DEF Kept, FlushedKeys, OnDisk
  <2> QED BY <1>1, <2>1 DEF Accounted
<1>5. lock' \in Writers \cup {Free} /\ torn' \in BOOLEAN /\ (torn => torn')
  BY <1>1 DEF GraphInv, GraphTypeOK
<1>6. /\ UNCHANGED <<live, ragged, archived, acked>>
      /\ \A v \in Writers \ {w} : lock' = v <=> lock = v
  BY <1>1
<1>7. Kept /\ ~torn' => Accounted(w)'
  BY <1>4
<1>8. graph' = [graph EXCEPT ![w] = g]
  BY <1>1
<1> DEFINE f == flushed[w]
           s == serialised[w]
<1>9. /\ f \in {Unknown} \cup SUBSET (Trades \X Endings) /\ s \in Seq(Record)
      /\ flushed' = [flushed EXCEPT ![w] = f] /\ serialised' = [serialised EXCEPT ![w] = s]
      /\ pc' = [pc EXCEPT ![w] = "idle"] /\ "idle" \in Places
  BY <1>3
<1> HIDE DEF f, s, Kept, Accounted
<1> QED BY <1>2, <1>5, <1>6, <1>7, <1>8, <1>9, LocalKeeps

(* The same, of a step that also leaves the writer's memory alone.         *)
LEMMA PlaceKeeps ==
    ASSUME GraphInv, NEW w \in Writers, NEW p \in Places, NEW s \in Seq(Record),
           pc' = [pc EXCEPT ![w] = p], serialised' = [serialised EXCEPT ![w] = s],
           lock' \in Writers \cup {Free}, \A v \in Writers \ {w} : lock' = v <=> lock = v,
           UNCHANGED <<live, ragged, archived, acked, torn, graph, flushed>>,
           Kept => Accounted(w)'
    PROVE  GraphInv'
<1>1. /\ graph \in [Writers -> [Trades -> Node]]
      /\ flushed \in [Writers -> {Unknown} \cup SUBSET (Trades \X Endings)]
  BY GraphTypes DEF GraphInv
<1>2. /\ graph' = [graph EXCEPT ![w] = graph[w]] /\ graph[w] \in [Trades -> Node]
      /\ flushed' = [flushed EXCEPT ![w] = flushed[w]]
      /\ flushed[w] \in {Unknown} \cup SUBSET (Trades \X Endings)
  BY <1>1
<1>3. UNCHANGED <<live, ragged, archived, acked>> /\ (torn => torn') /\ torn' \in BOOLEAN
  BY DEF GraphInv, GraphTypeOK
<1> QED BY <1>2, <1>3, LocalKeeps

LEMMA ToJsonlKeeps ==
    ASSUME GraphInv, NEW w \in Writers, ToJsonl(w) PROVE GraphInv'
<1> DEFINE s == SetToSeq(Pending(w))
<1>1. /\ graph \in [Writers -> [Trades -> Node]] /\ pc \in [Writers -> Places]
      /\ serialised \in [Writers -> Seq(Record)]
  BY GraphTypes DEF GraphInv
<1>2. /\ pc[w] = "idle" /\ pc' = [pc EXCEPT ![w] = "flush"]
      /\ serialised' = [serialised EXCEPT ![w] = s] /\ lock' = lock
      /\ UNCHANGED <<live, ragged, archived, acked, torn, graph, flushed>>
  BY DEF ToJsonl, Goto
<1>3. /\ s \in Seq(Record)
      /\ EdgeKeys(graph[w]) \subseteq Keys(ToSet(s)) \cup FlushedKeys(w)
  BY <1>1, PendingListed
<1> HIDE DEF s
<1>4. ASSUME Kept PROVE Accounted(w)'
  <2>1. /\ pc'[w] = "flush" /\ serialised'[w] = s /\ Accounted(w)
        /\ FlushedKeys(w)' = FlushedKeys(w) /\ OnDisk' = OnDisk
    BY <1>1, <1>2, <1>4 DEF Kept, FlushedKeys, OnDisk
  <2> QED BY <1>2, <1>3, <2>1 DEF Accounted
<1>5. lock' \in Writers \cup {Free} /\ "flush" \in Places
  BY <1>2 DEF GraphInv, GraphTypeOK, Places
<1>6. UNCHANGED <<live, ragged, archived, acked, torn, graph, flushed>>
  BY <1>2
<1> QED BY <1>2, <1>3, <1>4, <1>5, <1>6, PlaceKeeps

LEMMA CompactKeeps ==
    ASSUME GraphInv, NEW w \in Writers, Compact(w) PROVE GraphInv'
<1> DEFINE s == SetToSeq(Deduped(w))
<1>1. /\ graph \in [Writers -> [Trades -> Node]] /\ pc \in [Writers -> Places]
      /\ serialised \in [Writers -> Seq(Record)]
  BY GraphTypes DEF GraphInv
<1>2. /\ pc[w] = "idle" /\ pc' = [pc EXCEPT ![w] = "compact"]
      /\ serialised' = [serialised EXCEPT ![w] = s] /\ lock' = lock
      /\ UNCHANGED <<live, ragged, archived, acked, torn, graph, flushed>>
  BY DEF Compact, Goto
<1>3. s \in Seq(Record) /\ EdgeKeys(graph[w]) \subseteq Keys(ToSet(s))
  BY <1>1, DedupedListed
<1> HIDE DEF s
<1>4. ASSUME Kept PROVE Accounted(w)'
  <2>1. /\ pc'[w] = "compact" /\ serialised'[w] = s /\ Accounted(w)
        /\ FlushedKeys(w)' = FlushedKeys(w) /\ OnDisk' = OnDisk
    BY <1>1, <1>2, <1>4 DEF Kept, FlushedKeys, OnDisk
  <2> QED BY <1>2, <1>3, <2>1 DEF Accounted, Written
<1>5. lock' \in Writers \cup {Free} /\ "compact" \in Places
  BY <1>2 DEF GraphInv, GraphTypeOK, Places
<1>6. UNCHANGED <<live, ragged, archived, acked, torn, graph, flushed>>
  BY <1>2
<1> QED BY <1>2, <1>3, <1>4, <1>5, <1>6, PlaceKeeps

LEMMA AcquireKeeps ==
    ASSUME GraphInv, NEW w \in Writers, Acquire(w) PROVE GraphInv'
<1> DEFINE p == IF pc[w] = "flush" THEN "append" ELSE "archive"
<1>1. pc \in [Writers -> Places] /\ serialised \in [Writers -> Seq(Record)]
  BY GraphTypes DEF GraphInv
<1>2. /\ pc[w] \in {"flush", "compact"} /\ pc' = [pc EXCEPT ![w] = p]
      /\ serialised' = serialised /\ lock = Free /\ lock' = w
      /\ UNCHANGED <<live, ragged, archived, acked, torn, graph, flushed>>
  BY DEF Acquire, Goto
<1>3. p \in Places
  BY DEF Places
<1>4. ASSUME Kept PROVE Accounted(w)'
  <2>1. /\ pc'[w] = p /\ Accounted(w) /\ (Written(w)' <=> Written(w))
        /\ FlushedKeys(w)' = FlushedKeys(w) /\ OnDisk' = OnDisk
    BY <1>1, <1>2, <1>4 DEF Kept, FlushedKeys, OnDisk, Written
  <2>2. CASE pc[w] = "flush"
    <3>1. pc'[w] = "append" /\ lock' = w
      BY <1>2, <2>1, <2>2
    <3>2. /\ EdgeKeys(graph[w]) \subseteq Keys(ToSet(serialised[w])) \cup FlushedKeys(w)
          /\ FlushedKeys(w) \subseteq OnDisk
      BY <2>1, <2>2 DEF Accounted
    <3>3. /\ EdgeKeys(graph'[w]) \subseteq Keys(ToSet(serialised'[w])) \cup FlushedKeys(w)'
          /\ FlushedKeys(w)' \subseteq OnDisk'
      BY <1>2, <2>1, <3>2
    <3> QED BY <3>1, <3>3 DEF Accounted
  <2>3. CASE pc[w] = "compact"
    <3>1. pc'[w] = "archive" /\ lock' = w
      BY <1>2, <2>1, <2>3
    <3>2. Written(w) /\ FlushedKeys(w) \subseteq OnDisk
      BY <2>1, <2>3 DEF Accounted
    <3>3. Written(w)' /\ FlushedKeys(w)' \subseteq OnDisk'
      BY <2>1, <3>2
    <3> QED BY <3>1, <3>3 DEF Accounted
  <2> QED BY <1>2, <2>2, <2>3
<1>5. lock' \in Writers \cup {Free} /\ \A v \in Writers \ {w} : lock' = v <=> lock = v
  BY <1>2, GraphAssumption
<1>6. /\ serialised[w] \in Seq(Record)
      /\ serialised' = [serialised EXCEPT ![w] = serialised[w]]
  BY <1>1, <1>2
<1>7. UNCHANGED <<live, ragged, archived, acked, torn, graph, flushed>>
  BY <1>2
<1> HIDE DEF p
<1> QED BY <1>2, <1>3, <1>4, <1>5, <1>6, <1>7, PlaceKeeps

LEMMA LockTimeoutKeeps ==
    ASSUME GraphInv, NEW w \in Writers, LockTimeout(w) PROVE GraphInv'
<1>1. pc \in [Writers -> Places] /\ serialised \in [Writers -> Seq(Record)]
  BY GraphTypes DEF GraphInv
<1>2. /\ pc[w] \in {"flush", "compact"} /\ pc' = [pc EXCEPT ![w] = "idle"]
      /\ serialised' = [serialised EXCEPT ![w] = <<>>] /\ lock' = lock
      /\ UNCHANGED <<live, ragged, archived, acked, torn, graph, flushed>>
  BY DEF LockTimeout, Goto
<1>3. ASSUME Kept PROVE Accounted(w)'
  <2>1. /\ pc'[w] = "idle" /\ Accounted(w)
        /\ FlushedKeys(w)' = FlushedKeys(w) /\ OnDisk' = OnDisk
    BY <1>1, <1>2, <1>3 DEF Kept, FlushedKeys, OnDisk
  <2> QED BY <1>2, <2>1 DEF Accounted
<1>4. lock' \in Writers \cup {Free} /\ "idle" \in Places /\ <<>> \in Seq(Record)
  BY <1>2, EmptySeq DEF GraphInv, GraphTypeOK, Places
<1>5. UNCHANGED <<live, ragged, archived, acked, torn, graph, flushed>>
  BY <1>2
<1> QED BY <1>2, <1>3, <1>4, <1>5, PlaceKeeps

(* A step of the holder of the lock, that writes the file or unlinks it.   *)
LEMMA DiskKeeps ==
    ASSUME GraphInv, NEW w \in Writers, pc[w] \in {"append", "archive", "replace"},
           NEW f \in {Unknown} \cup SUBSET (Trades \X Endings),
           NEW p \in Places, NEW s \in Seq(Record),
           graph' = graph, flushed' = [flushed EXCEPT ![w] = f],
           pc' = [pc EXCEPT ![w] = p], serialised' = [serialised EXCEPT ![w] = s],
           lock' \in Writers \cup {Free}, lock' \in {lock, Free},
           live' = Absent \/ live' \in Seq(Record \cup {Torn}), ragged' \in BOOLEAN,
           archived' \subseteq Record, acked' \subseteq Trades \X Endings, torn' = torn,
           Kept => /\ OnDisk \subseteq OnDisk' /\ acked' \subseteq OnDisk'
                   /\ Whole' /\ Accounted(w)'
    PROVE  GraphInv'
<1>1. ASSUME Kept
      PROVE  \A v \in Writers \ {w} :
                (lock' = v <=> lock = v) /\ (pc[v] = "replace" => live' = Absent)
  <2>1. lock = w
    BY <1>1 DEF Kept, Accounted
  <2>2. lock' \in {w, Free}
    BY <2>1
  <2>3. ASSUME NEW v \in Writers \ {w} PROVE lock # v /\ lock' # v /\ pc[v] # "replace"
    <3>1. lock # v /\ lock' # v
      BY <2>1, <2>2, GraphAssumption
    <3>2. Accounted(v)
      BY <1>1 DEF Kept
    <3> QED BY <3>1, <3>2 DEF Accounted
  <2> QED BY <2>3
<1>2. graph' = [graph EXCEPT ![w] = graph[w]] /\ graph[w] \in [Trades -> Node]
  BY GraphTypes DEF GraphInv
<1>3. torn' \in BOOLEAN /\ (torn => torn')
  BY DEF GraphInv, GraphTypeOK
<1> QED BY <1>1, <1>2, <1>3, StepKeeps

(* Archiving the file keeps every line and leaves none behind.             *)
LEMMA ArchiveKeeps ==
    ASSUME GraphInv, Archive
    PROVE  /\ OnDisk' = OnDisk /\ Whole' /\ live' = Absent /\ ragged' = FALSE
           /\ archived' \subseteq Record
<1>1. live' = Absent /\ ragged' = FALSE /\ archived' = archived \cup Lines(live)
  BY DEF Archive
<1>2. OnDisk' = OnDisk
  BY <1>1 DEF OnDisk, Lines
<1>3. archived' \subseteq Record
  BY <1>1, GraphTypes DEF GraphInv, GraphTypeOK
<1> QED BY <1>1, <1>2, <1>3 DEF Whole

LEMMA RotateKeeps ==
    ASSUME GraphInv, NEW w \in Writers, Rotate(w) PROVE GraphInv'
<1>1. /\ pc \in [Writers -> Places] /\ serialised \in [Writers -> Seq(Record)]
      /\ flushed \in [Writers -> {Unknown} \cup SUBSET (Trades \X Endings)]
  BY GraphTypes DEF GraphInv
<1>2. pc[w] = "append" /\ UNCHANGED <<lock, graph, flushed, pc, serialised, acked, torn>>
  BY DEF Rotate
<1>3. /\ OnDisk' = OnDisk /\ Whole' /\ live' = Absent /\ ragged' = FALSE
      /\ archived' \subseteq Record
  BY ArchiveKeeps DEF Rotate
<1>4. ASSUME Kept PROVE acked' \subseteq OnDisk' /\ Accounted(w)'
  <2>1. FlushedKeys(w)' = FlushedKeys(w)
    BY <1>2 DEF FlushedKeys
  <2>2. Accounted(w) /\ acked \subseteq OnDisk
    BY <1>4 DEF Kept
  <2> QED BY <1>2, <1>3, <2>1, <2>2 DEF Accounted
<1>5. /\ pc' = [pc EXCEPT ![w] = "append"]
      /\ serialised' = [serialised EXCEPT ![w] = serialised[w]]
      /\ flushed' = [flushed EXCEPT ![w] = flushed[w]]
      /\ serialised[w] \in Seq(Record) /\ "append" \in Places
      /\ flushed[w] \in {Unknown} \cup SUBSET (Trades \X Endings)
  BY <1>1, <1>2 DEF Places
<1>6. /\ lock' \in Writers \cup {Free} /\ lock' = lock /\ acked' \subseteq Trades \X Endings
      /\ graph' = graph /\ torn' = torn
  BY <1>2 DEF GraphInv, GraphTypeOK
<1> QED BY <1>2, <1>3, <1>4, <1>5, <1>6, DiskKeeps

LEMMA CompactArchiveKeeps ==
    ASSUME GraphInv, NEW w \in Writers, CompactArchive(w) PROVE GraphInv'
<1>1. /\ pc \in [Writers -> Places] /\ serialised \in [Writers -> Seq(Record)]
      /\ flushed \in [Writers -> {Unknown} \cup SUBSET (Trades \X Endings)]
  BY GraphTypes DEF GraphInv
<1>2. /\ pc[w] = "archive" /\ pc' = [pc EXCEPT ![w] = "replace"]
      /\ UNCHANGED <<lock, graph, flushed, serialised, acked, torn>>
  BY DEF CompactArchive, Goto
<1>3. /\ OnDisk' = OnDisk /\ Whole' /\ live' = Absent /\ ragged' = FALSE
      /\ archived' \subseteq Record
  BY ArchiveKeeps DEF CompactArchive
<1>4. ASSUME Kept PROVE acked' \subseteq OnDisk' /\ Accounted(w)'
  <2>1. FlushedKeys(w)' = FlushedKeys(w) /\ (Written(w)' <=> Written(w)) /\ pc'[w] = "replace"
    BY <1>1, <1>2 DEF FlushedKeys, Written
  <2>2. Accounted(w) /\ acked \subseteq OnDisk
    BY <1>4 DEF Kept
  <2> QED BY <1>2, <1>3, <2>1, <2>2 DEF Accounted
<1>5. /\ serialised' = [serialised EXCEPT ![w] = serialised[w]]
      /\ flushed' = [flushed EXCEPT ![w] = flushed[w]]
      /\ serialised[w] \in Seq(Record) /\ "replace" \in Places
      /\ flushed[w] \in {Unknown} \cup SUBSET (Trades \X Endings)
  BY <1>1, <1>2 DEF Places
<1>6. /\ lock' \in Writers \cup {Free} /\ lock' = lock /\ acked' \subseteq Trades \X Endings
      /\ graph' = graph /\ torn' = torn
  BY <1>2 DEF GraphInv, GraphTypeOK
<1> QED BY <1>2, <1>3, <1>4, <1>5, <1>6, DiskKeeps

LEMMA CompactReplaceKeeps ==
    ASSUME GraphInv, NEW w \in Writers, CompactReplace(w) PROVE GraphInv'
<1> DEFINE K == EdgeKeys(graph[w])
<1>1. /\ pc \in [Writers -> Places] /\ serialised \in [Writers -> Seq(Record)]
      /\ flushed \in [Writers -> {Unknown} \cup SUBSET (Trades \X Endings)]
      /\ graph \in [Writers -> [Trades -> Node]]
  BY GraphTypes DEF GraphInv
<1>2. /\ pc[w] = "replace" /\ live' = serialised[w] /\ lock' = Free
      /\ flushed' = [flushed EXCEPT ![w] = K]
      /\ serialised' = [serialised EXCEPT ![w] = <<>>]
      /\ pc' = [pc EXCEPT ![w] = "idle"]
      /\ UNCHANGED <<ragged, archived, graph, acked, torn>>
  BY DEF CompactReplace, Goto
<1>3. K \in SUBSET (Trades \X Endings)
  BY <1>1, KeysTyped
<1>4. serialised[w] \in Seq(Record) /\ Lines(live') = ToSet(serialised[w])
  BY <1>1, <1>2, FileShapes DEF Lines
<1>5. ASSUME Kept
      PROVE  /\ OnDisk \subseteq OnDisk' /\ acked' \subseteq OnDisk'
             /\ Whole' /\ Accounted(w)'
  <2>1. K \subseteq Keys(ToSet(serialised[w])) /\ live = Absent
    BY <1>2, <1>5 DEF Kept, Accounted, Written
  <2>2. Lines(live) = {}
    BY <2>1 DEF Lines
  <2>3. OnDisk \subseteq OnDisk' /\ K \subseteq OnDisk'
    BY <1>2, <1>4, <2>1, <2>2 DEF OnDisk, Keys
  <2>4. acked' \subseteq OnDisk' /\ Whole'
    BY <1>2, <1>4, <1>5, <2>3 DEF Kept, Whole
  <2> HIDE DEF K
  <2>5. pc'[w] = "idle" /\ flushed'[w] = K /\ FlushedKeys(w)' \subseteq K
    BY <1>1, <1>2 DEF FlushedKeys
  <2>6. lock' # w
    BY <1>2, GraphAssumption
  <2>7. Accounted(w)'
    BY <2>3, <2>5, <2>6 DEF Accounted
  <2> QED BY <2>3, <2>4, <2>7
<1>6. /\ acked' \subseteq Trades \X Endings /\ archived' \subseteq Record /\ ragged' \in BOOLEAN
      /\ live' \in Seq(Record \cup {Torn})
  BY <1>2, <1>4, WiderSeq DEF GraphInv, GraphTypeOK
<1>7. <<>> \in Seq(Record) /\ "idle" \in Places
  BY EmptySeq DEF Places
<1>8. lock' = Free /\ graph' = graph /\ torn' = torn
  BY <1>2
<1> HIDE DEF K
<1> QED BY <1>2, <1>3, <1>5, <1>6, <1>7, <1>8, DiskKeeps

LEMMA AppendKeeps ==
    ASSUME GraphInv, NEW w \in Writers, AppendLines(w) PROVE GraphInv'
<1> DEFINE s == serialised[w]
           f == EdgeKeys(graph[w]) \cup FlushedKeys(w)
<1>1. /\ pc \in [Writers -> Places] /\ serialised \in [Writers -> Seq(Record)]
      /\ flushed \in [Writers -> {Unknown} \cup SUBSET (Trades \X Endings)]
      /\ graph \in [Writers -> [Trades -> Node]] /\ FlushedKeys(w) \subseteq Trades \X Endings
  BY GraphTypes DEF GraphInv
<1>2. /\ pc[w] = "append" /\ ragged' = FALSE /\ lock' = Free
      /\ live' = Appended(s) /\ acked' = acked \cup Keys(ToSet(s))
      /\ serialised' = [serialised EXCEPT ![w] = <<>>]
      /\ pc' = [pc EXCEPT ![w] = "idle"]
      /\ UNCHANGED <<archived, graph, torn>>
  BY DEF AppendLines, Goto, Keys
<1>3. flushed' = [flushed EXCEPT ![w] = f]
  BY DEF AppendLines, FlushedKeys
<1>4. s \in Seq(Record) /\ s \in Seq(Record \cup {Torn})
  BY <1>1, WiderSeq
<1>5. live' \in Seq(Record \cup {Torn})
  BY <1>2, <1>4, AppendedTyped DEF GraphInv
<1>6. f \in SUBSET (Trades \X Endings)
  BY <1>1, KeysTyped
<1>7. acked' \subseteq Trades \X Endings /\ archived' \subseteq Record
  <2>1. Keys(ToSet(s)) \subseteq Trades \X Endings
    <3>1. \A r \in ToSet(s) : r \in Record
      BY <1>4, LenProperties, ElementOfSeq DEF ToSet
    <3> QED BY <3>1 DEF Keys, Key, Record
  <2> QED BY <1>2, <2>1 DEF GraphInv, GraphTypeOK
<1>8. ASSUME Kept
      PROVE  /\ OnDisk \subseteq OnDisk' /\ acked' \subseteq OnDisk'
             /\ Whole' /\ Accounted(w)'
  <2>1. EdgeKeys(graph[w]) \subseteq Keys(ToSet(s)) \cup FlushedKeys(w) /\ FlushedKeys(w) \subseteq OnDisk
    BY <1>2, <1>8 DEF Kept, Accounted
  <2> HIDE DEF s
  <2>2. live' \in Seq(Record) /\ Lines(live') = Lines(live) \cup ToSet(s)
    BY <1>2, <1>4, <1>8, AppendedWhole DEF Kept, GraphInv
  <2>3. OnDisk \subseteq OnDisk' /\ Keys(ToSet(s)) \subseteq OnDisk'
    BY <1>2, <2>2 DEF OnDisk, Keys
  <2>4. f \subseteq OnDisk'
    BY <2>1, <2>3
  <2>5. acked' \subseteq OnDisk' /\ Whole'
    BY <1>2, <1>8, <2>2, <2>3 DEF Kept, Whole
  <2> HIDE DEF f
  <2>6. pc'[w] = "idle" /\ flushed'[w] = f /\ FlushedKeys(w)' \subseteq f
    BY <1>1, <1>2, <1>3 DEF FlushedKeys
  <2>7. lock' # w
    BY <1>2, GraphAssumption
  <2>8. Accounted(w)'
    BY <2>4, <2>6, <2>7 DEF Accounted
  <2> QED BY <2>3, <2>5, <2>8
<1>9. <<>> \in Seq(Record) /\ "idle" \in Places
  BY EmptySeq DEF Places
<1>10. lock' = Free /\ graph' = graph /\ torn' = torn /\ ragged' \in BOOLEAN
  BY <1>2
<1> HIDE DEF s, f
<1> QED BY <1>2, <1>3, <1>5, <1>6, <1>7, <1>8, <1>9, <1>10, DiskKeeps

(* A repair comes after a damaged reading, and so after a torn append.     *)
LEMMA PurgeKeeps ==
    ASSUME GraphInv, NEW w \in Writers, Purge(w) PROVE GraphInv'
<1> DEFINE K == EdgeKeys(graph[w])
<1>1. /\ pc \in [Writers -> Places] /\ serialised \in [Writers -> Seq(Record)]
      /\ graph \in [Writers -> [Trades -> Node]]
      /\ flushed \in [Writers -> {Unknown} \cup SUBSET (Trades \X Endings)]
  BY GraphTypes DEF GraphInv
<1>2. /\ pc[w] \in {"purge", "purge bare"} /\ live' = serialised[w]
      /\ ragged' = (pc[w] = "purge bare")
      /\ serialised' = [serialised EXCEPT ![w] = <<>>]
      /\ flushed' = [flushed EXCEPT ![w] = K]
      /\ pc' = [pc EXCEPT ![w] = "idle"]
      /\ UNCHANGED <<archived, lock, graph, acked, torn>>
  BY DEF Purge, Goto
<1>3. K \in SUBSET (Trades \X Endings)
  BY <1>1, KeysTyped
<1> HIDE DEF K
<1>4. ~Kept
  BY <1>2 DEF Kept, Accounted
<1>5. live' \in Seq(Record \cup {Torn})
  <2>1. serialised[w] \in Seq(Record)
    BY <1>1
  <2> QED BY <1>2, <2>1, WiderSeq
<1>6. /\ lock' \in Writers \cup {Free} /\ acked' \subseteq Trades \X Endings
      /\ archived' \subseteq Record /\ torn' \in BOOLEAN /\ ragged' \in BOOLEAN
  BY <1>2 DEF GraphInv, GraphTypeOK
<1>7. <<>> \in Seq(Record) /\ "idle" \in Places
  BY EmptySeq DEF Places
<1>8. graph' = [graph EXCEPT ![w] = graph[w]] /\ graph[w] \in [Trades -> Node] /\ (torn => torn')
  BY <1>1, <1>2
<1> QED BY <1>2, <1>3, <1>4, <1>5, <1>6, <1>7, <1>8, StepKeeps

LEMMA PurgeTimesOutKeeps ==
    ASSUME GraphInv, NEW w \in Writers, PurgeTimesOut(w) PROVE GraphInv'
<1> DEFINE g == [t \in Trades |-> NewNode]
<1>1. /\ pc \in [Writers -> Places]
      /\ flushed \in [Writers -> {Unknown} \cup SUBSET (Trades \X Endings)]
  BY GraphTypes DEF GraphInv
<1>2. /\ pc[w] \in {"purge", "purge bare"} /\ graph' = [graph EXCEPT ![w] = g]
      /\ serialised' = [serialised EXCEPT ![w] = <<>>]
      /\ pc' = [pc EXCEPT ![w] = "down"]
      /\ UNCHANGED <<live, ragged, archived, lock, flushed, acked, torn>>
  BY DEF PurgeTimesOut, Goto
<1>3. g \in [Trades -> Node]
  BY DEF Node, NewNode
<1> HIDE DEF g
<1>4. ~Kept
  BY <1>2 DEF Kept, Accounted
<1>5. /\ flushed' = [flushed EXCEPT ![w] = flushed[w]]
      /\ flushed[w] \in {Unknown} \cup SUBSET (Trades \X Endings)
  BY <1>1, <1>2
<1>6. lock' \in Writers \cup {Free} /\ lock' = lock /\ torn' \in BOOLEAN /\ (torn => torn')
  BY <1>2 DEF GraphInv, GraphTypeOK
<1>7. <<>> \in Seq(Record) /\ "down" \in Places
  BY EmptySeq DEF Places
<1>8. UNCHANGED <<live, ragged, archived, acked>>
  BY <1>2
<1> QED BY <1>2, <1>3, <1>4, <1>5, <1>6, <1>7, <1>8, LocalKeeps

LEMMA ReadingsTyped ==
    ASSUME GraphTypeOK PROVE Readings \subseteq Seq(Record \cup {Torn})
<1>1. File \in Seq(Record \cup {Torn})
  BY FileTyped
<1>2. ASSUME NEW v \in Writers PROVE Halves(serialised[v]) \subseteq Seq(Record \cup {Torn})
  <2>1. serialised[v] \in Seq(Record)
    BY DEF GraphTypeOK
  <2> QED BY <2>1, HalvesTyped
<1> QED BY <1>1, <1>2 DEF Readings

(* A file without a torn line is loaded as it is.                          *)
LEMMA OpenKeeps ==
    ASSUME GraphInv, NEW w \in Writers, OpenGraph(w) PROVE GraphInv'
<1>1. /\ pc \in [Writers -> Places] /\ serialised \in [Writers -> Seq(Record)]
      /\ graph \in [Writers -> [Trades -> Node]]
      /\ flushed \in [Writers -> {Unknown} \cup SUBSET (Trades \X Endings)]
  BY GraphTypes DEF GraphInv
<1>2. PICK file \in Readings :
         /\ graph' = [graph EXCEPT ![w] = Loaded(file)]
         /\ torn' = (torn \/ file # File)
         /\ \/ /\ Torn \notin ToSet(file)
               /\ flushed' = [flushed EXCEPT ![w] =
                                 IF live = Absent THEN Unknown ELSE EdgeKeys(Loaded(file))]
               /\ Goto(w, "idle")
               /\ UNCHANGED serialised
            \/ /\ Torn \in ToSet(file)
               /\ serialised' = [serialised EXCEPT ![w] = Intact(file)]
               /\ Goto(w, IF ragged /\ Last(file) # Torn THEN "purge bare" ELSE "purge")
               /\ UNCHANGED flushed
  BY DEF OpenGraph
<1> DEFINE g == Loaded(file)
           whole == Torn \notin ToSet(file)
           f == IF whole THEN IF live = Absent THEN Unknown ELSE EdgeKeys(g)
                ELSE flushed[w]
           p == IF whole THEN "idle"
                ELSE IF ragged /\ Last(file) # Torn THEN "purge bare" ELSE "purge"
           s == IF whole THEN serialised[w] ELSE Intact(file)
<1>3. pc[w] = "down" /\ UNCHANGED <<live, ragged, archived, lock, acked>>
  BY DEF OpenGraph
<1>4. /\ flushed' = [flushed EXCEPT ![w] = f] /\ pc' = [pc EXCEPT ![w] = p]
      /\ serialised' = [serialised EXCEPT ![w] = s]
  <2>1. CASE whole
    BY <1>1, <1>2, <2>1, Zenon DEF Goto
  <2>2. CASE ~whole
    <3>1. /\ serialised' = [serialised EXCEPT ![w] = Intact(file)] /\ UNCHANGED flushed
          /\ pc' = [pc EXCEPT ![w] =
                       IF ragged /\ Last(file) # Torn THEN "purge bare" ELSE "purge"]
      BY <1>2, <2>2, Zenon DEF Goto
    <3>2. flushed' = [flushed EXCEPT ![w] = flushed[w]]
      BY <1>1, <3>1
    <3>3. /\ f = flushed[w] /\ s = Intact(file)
          /\ p = IF ragged /\ Last(file) # Torn THEN "purge bare" ELSE "purge"
      BY <2>2, Zenon
    <3> QED BY <3>1, <3>2, <3>3, Zenon
  <2> QED BY <2>1, <2>2
<1>5. file \in Seq(Record \cup {Torn})
  BY ReadingsTyped DEF GraphInv
<1>6. g \in [Trades -> Node] /\ EdgeKeys(g) \subseteq Keys(ToSet(file) \ {Torn})
  BY <1>5, LoadedKeys
<1>7. graph' = [graph EXCEPT ![w] = g] /\ torn' = (torn \/ file # File)
  BY <1>2
<1> HIDE DEF g
<1>8. EdgeKeys(g) \in SUBSET (Trades \X Endings)
  BY <1>6, KeysTyped
<1>9. f \in {Unknown} \cup SUBSET (Trades \X Endings)
  BY <1>1, <1>8
<1>10. s \in Seq(Record) /\ p \in Places
  BY <1>1, <1>5, IntactFile DEF Places
<1>11. ASSUME Kept, ~torn' PROVE Accounted(w)'
  <2>1. file = File /\ File \in Seq(Record) /\ ToSet(File) \ {Torn} = Lines(live)
    BY <1>7, <1>11, FileTyped DEF GraphInv, Kept
  <2>2. whole
    BY <2>1, FileShapes
  <2>3. f = Unknown \/ f = EdgeKeys(g)
    BY <2>2
  <2>4. EdgeKeys(g) \subseteq OnDisk
    BY <1>6, <2>1 DEF OnDisk, Keys
  <2>5. pc'[w] = "idle" /\ flushed'[w] = f
    BY <1>1, <1>4, <2>2
  <2> HIDE DEF f, p, s, whole
  <2>6. FlushedKeys(w)' \subseteq OnDisk
    BY <2>3, <2>4, <2>5 DEF FlushedKeys
  <2>7. OnDisk' = OnDisk
    BY <1>3 DEF OnDisk
  <2>8. lock' # w
    BY <1>3, <1>11 DEF Kept, Accounted
  <2> QED BY <2>5, <2>6, <2>7, <2>8 DEF Accounted
<1>12. lock' \in Writers \cup {Free} /\ torn' \in BOOLEAN /\ (torn => torn')
  BY <1>3, <1>7 DEF GraphInv, GraphTypeOK
<1>13. UNCHANGED <<live, ragged, archived, acked>> /\ lock' = lock
  BY <1>3
<1> HIDE DEF f, p, s, whole
<1> QED BY <1>4, <1>6, <1>7, <1>9, <1>10, <1>11, <1>12, <1>13, LocalKeeps

(* What a crash leaves of an append is typed; cut behind the newline of a  *)
(* line it is whole, and has every line that was there.                    *)
LEMMA CutAppend ==
    ASSUME GraphInv, NEW w \in Writers, NEW n \in 1..Len(serialised[w]),
           live' = Appended(SubSeq(serialised[w], 1, n))
    PROVE  /\ live' \in Seq(Record \cup {Torn})
           /\ Whole => live' \in Seq(Record) /\ Lines(live) \subseteq Lines(live')
<1> DEFINE some == SubSeq(serialised[w], 1, n)
<1>1. serialised[w] \in Seq(Record) /\ Len(serialised[w]) \in Nat
  BY LenProperties DEF GraphInv, GraphTypeOK
<1>2. some \in Seq(Record)
  BY <1>1, SubSeqTyped
<1>3. live' = Appended(some)
  OBVIOUS
<1> HIDE DEF some
<1>4. some \in Seq(Record \cup {Torn})
  BY <1>2, WiderSeq
<1>5. live' \in Seq(Record \cup {Torn})
  BY <1>3, <1>4, AppendedTyped DEF GraphInv
<1>6. ASSUME Whole PROVE live' \in Seq(Record) /\ Lines(live) \subseteq Lines(live')
  BY <1>2, <1>3, <1>6, AppendedWhole DEF GraphInv
<1> QED BY <1>5, <1>6

LEMMA CrashKeeps ==
    ASSUME GraphInv, NEW w \in Writers, Crash(w) PROVE GraphInv'
<1> DEFINE g == [t \in Trades |-> NewNode]
           half == pc[w] = "append" /\ ragged' = TRUE /\ live' \in Halves(serialised[w])
           cut == /\ pc[w] = "append" /\ ragged' \in BOOLEAN
                  /\ \E n \in 1..Len(serialised[w]) : live' = Appended(SubSeq(serialised[w], 1, n))
<1>1. /\ pc \in [Writers -> Places] /\ serialised \in [Writers -> Seq(Record)]
      /\ graph \in [Writers -> [Trades -> Node]]
      /\ flushed \in [Writers -> {Unknown} \cup SUBSET (Trades \X Endings)]
  BY GraphTypes DEF GraphInv
<1>2. /\ graph' = [graph EXCEPT ![w] = g] /\ flushed' = [flushed EXCEPT ![w] = Unknown]
      /\ serialised' = [serialised EXCEPT ![w] = <<>>]
      /\ pc' = [pc EXCEPT ![w] = "down"]
      /\ lock' = IF lock = w THEN Free ELSE lock
      /\ torn' = (torn \/ ragged')
      /\ UNCHANGED <<archived, acked>>
      /\ UNCHANGED <<live, ragged>> \/ half \/ cut
  BY DEF Crash, Goto
<1>3. g \in [Trades -> Node]
  BY DEF Node, NewNode
<1> HIDE DEF g
<1>4. /\ lock' \in Writers \cup {Free} /\ lock' # w
      /\ \A v \in Writers \ {w} : lock' = v <=> lock = v
  BY <1>2, GraphAssumption DEF GraphInv, GraphTypeOK
<1>5. (live' = Absent \/ live' \in Seq(Record \cup {Torn})) /\ ragged' \in BOOLEAN
  <2>1. CASE half
    <3>1. serialised[w] \in Seq(Record)
      BY <1>1
    <3> QED BY <2>1, <3>1, HalvesTyped DEF GraphInv
  <2>2. CASE cut
    BY <2>2, CutAppend
  <2>3. CASE UNCHANGED <<live, ragged>>
    BY <2>3 DEF GraphInv, GraphTypeOK
  <2> QED BY <1>2, <2>1, <2>2, <2>3
<1>6. /\ archived' \subseteq Record /\ acked' \subseteq Trades \X Endings
      /\ torn' \in BOOLEAN /\ (torn => torn')
  BY <1>2, <1>5 DEF GraphInv, GraphTypeOK
<1>7. ASSUME Kept, ~torn'
      PROVE  /\ OnDisk \subseteq OnDisk' /\ acked' \subseteq OnDisk' /\ Whole' /\ Accounted(w)'
             /\ \A v \in Writers \ {w} :
                   (lock' = v <=> lock = v) /\ (pc[v] = "replace" => live' = Absent)
  <2>1. ragged' = FALSE
    BY <1>2, <1>5, <1>7
  <2>2. Whole' /\ Lines(live) \subseteq Lines(live')
    <3>1. CASE cut
      BY <1>7, <2>1, <3>1, CutAppend DEF Kept, Whole
    <3>2. CASE UNCHANGED <<live, ragged>>
      BY <1>7, <3>2 DEF Kept, Whole
    <3>3. ~half
      BY <2>1
    <3> QED BY <1>2, <3>1, <3>2, <3>3
  <2>3. OnDisk \subseteq OnDisk'
    BY <1>2, <2>2 DEF OnDisk
  <2>4. acked' \subseteq OnDisk'
    BY <1>2, <1>7, <2>3 DEF Kept
  <2>5. pc'[w] = "down" /\ flushed'[w] = Unknown
    BY <1>1, <1>2
  <2>6. Accounted(w)'
    BY <1>4, <2>5 DEF Accounted, FlushedKeys
  <2>7. ASSUME NEW v \in Writers \ {w}, pc[v] = "replace" PROVE live' = Absent
    <3>1. lock = v /\ live = Absent
      BY <1>7, <2>7 DEF Kept, Accounted
    <3>2. pc[w] # "append"
      BY <1>7, <3>1 DEF Kept, Accounted
    <3> QED BY <1>2, <3>1, <3>2
  <2> QED BY <1>4, <2>2, <2>3, <2>4, <2>6, <2>7
<1>8. <<>> \in Seq(Record) /\ "down" \in Places
  BY EmptySeq DEF Places
<1> HIDE DEF half, cut
<1> QED BY <1>2, <1>3, <1>4, <1>5, <1>6, <1>7, <1>8, StepKeeps

LEMMA GraphInitially == GraphInit => GraphInv
<1> SUFFICES ASSUME GraphInit PROVE GraphInv
  OBVIOUS
<1>1. <<>> \in Seq(Record)
  BY EmptySeq
<1>2. \A w \in Writers : pc[w] = "down" /\ lock # w /\ flushed[w] = Unknown
  BY GraphAssumption DEF GraphInit
<1>3. GraphTypeOK
  BY <1>1 DEF GraphInit, GraphTypeOK, NewNode
<1>4. Whole /\ acked \subseteq OnDisk
  BY DEF Whole, GraphInit
<1>5. \A w \in Writers : Accounted(w)
  BY <1>2 DEF Accounted, FlushedKeys
<1> QED BY <1>3, <1>4, <1>5 DEF GraphInv, Kept

LEMMA GraphStep == GraphInv /\ [GraphNext]_graphVars => GraphInv'
<1> SUFFICES ASSUME GraphInv, [GraphNext]_graphVars PROVE GraphInv'
  OBVIOUS
<1>1. CASE UNCHANGED graphVars
  <2>1. /\ UNCHANGED <<live, ragged, archived, lock>> /\ UNCHANGED <<graph, flushed, pc>>
        /\ UNCHANGED <<serialised, acked, torn>>
    BY <1>1 DEF graphVars
  <2>2. GraphTypeOK' /\ (Whole' <=> Whole) /\ OnDisk' = OnDisk
    BY <2>1 DEF GraphInv, GraphTypeOK, Whole, OnDisk
  <2>3. ASSUME NEW w \in Writers, Accounted(w) PROVE Accounted(w)'
    BY <2>1, <2>2, <2>3 DEF Accounted, Written, FlushedKeys
  <2>4. Kept => Kept'
    BY <2>1, <2>2, <2>3 DEF Kept
  <2> QED BY <2>1, <2>2, <2>4 DEF GraphInv
<1>2. CASE GraphNext
  <2>1. PICK w \in Writers :
          \/ OpenGraph(w) \/ Purge(w) \/ PurgeTimesOut(w)
          \/ ToJsonl(w) \/ Acquire(w) \/ LockTimeout(w)
          \/ Rotate(w) \/ AppendLines(w)
          \/ Compact(w) \/ CompactArchive(w) \/ CompactReplace(w) \/ Crash(w)
          \/ \E t \in Trades, e \in Endings : AddTrade(w, t, e)
    BY <1>2 DEF GraphNext
  <2> QED BY <2>1, OpenKeeps, PurgeKeeps, PurgeTimesOutKeeps, ToJsonlKeeps, AcquireKeeps,
             LockTimeoutKeeps, RotateKeeps, AppendKeeps, CompactKeeps, CompactArchiveKeeps,
             CompactReplaceKeeps, CrashKeeps, AddTradeKeeps
<1> QED BY <1>1, <1>2

(* As long as no append was torn, what to_jsonl has returned for, and what *)
(* a writer takes to be written, is in the file or its archives after any  *)
(* interleaving of appends, rotations, compactions, openings and crashes   *)
(* of any number of writers (docstring of graph.py:10-24).                 *)
THEOREM LossesAreTears == GraphSpec => []LossNeedsTear
<1>1. GraphInv => LossNeedsTear
  BY DEF GraphInv, Kept, Accounted, FlushedKeys, LossNeedsTear, FlushedIsKept
<1> QED BY GraphInitially, GraphStep, <1>1, PTL DEF GraphSpec

(* The file, the archives and each writer's memory hold records of trades, *)
(* torn lines and repairs included.                                        *)
THEOREM GraphTypeCorrect == GraphSpec => []GraphTypeOK
<1>1. GraphInv => GraphTypeOK
  BY DEF GraphInv
<1> QED BY GraphInitially, GraphStep, <1>1, PTL DEF GraphSpec

----------------------------------------------------------------------------
(* The allocator.                                                          *)

Notional == [o \in Offers |-> o.notional]

LEMMA SumsOfOffers ==
    ASSUME NEW U \in SUBSET Offers
    PROVE  /\ SumOf(U) \in Nat
           /\ \A T \in SUBSET U : SumOf(T) \in Nat /\ SumOf(T) <= SumOf(U)
           /\ \A o \in Offers : SumOf(U \cup {o}) \in Nat /\ o.notional \in Nat
                                /\ SumOf(U \cup {o}) <= SumOf(U) + o.notional
<1>1. IsFiniteSet(Offers) /\ \A o \in Offers : o.notional \in Nat /\ Notional[o] = o.notional
  BY AllocationAssumption DEF Notional
<1>2. \A T : SumOf(T) = SumFunctionOnSet(Notional, T)
  BY DEF SumOf, Notional
<1>3. \A T \in SUBSET Offers : IsFiniteSet(T) /\ \A o \in T : Notional[o] \in Nat
  BY <1>1, FS_Subset
<1>4. ASSUME NEW T \in SUBSET Offers, NEW W \in SUBSET T
      PROVE  SumOf(W) \in Nat /\ SumOf(T) \in Nat /\ SumOf(W) <= SumOf(T)
  BY <1>2, <1>3, SumGrows
<1>5. ASSUME NEW o \in Offers, o \notin U
      PROVE  SumOf(U \cup {o}) = SumOf(U) + o.notional
  <2> DEFINE W == U \cup {o}
  <2>1. W \in SUBSET Offers /\ o \in W /\ W \ {o} = U
    BY <1>5
  <2> HIDE DEF W
  <2>2. IsFiniteSet(W) /\ \A x \in W : Notional[x] \in Int
    <3>1. IsFiniteSet(W) /\ \A x \in W : Notional[x] \in Nat
      BY <1>3, <2>1
    <3>2. \A x \in W : Notional[x] \in Int
      BY <3>1
    <3> QED BY <3>1, <3>2
  <2>3. SumFunctionOnSet(Notional, W) = Notional[o] + SumFunctionOnSet(Notional, W \ {o})
    BY <2>1, <2>2, SumSplit
  <2>4. SumOf(W) = o.notional + SumOf(U)
    BY <1>1, <1>2, <2>1, <2>3
  <2>5. SumOf(U) \in Nat /\ o.notional \in Nat
    BY <1>1, <1>4
  <2> QED BY <2>4, <2>5 DEF W
<1>6. ASSUME NEW o \in Offers
      PROVE  SumOf(U \cup {o}) \in Nat /\ SumOf(U \cup {o}) <= SumOf(U) + o.notional
  <2>1. SumOf(U) \in Nat /\ o.notional \in Nat
    BY <1>1, <1>4
  <2>2. CASE o \in U
    <3>1. U \cup {o} = U
      BY <2>2
    <3> QED BY <2>1, <3>1
  <2>3. CASE o \notin U
    BY <1>5, <2>1, <2>3
  <2> QED BY <2>2, <2>3
<1> QED BY <1>1, <1>4, <1>6

LEMMA SizesOfOffers ==
    ASSUME NEW U \in SUBSET Offers
    PROVE  /\ Cardinality(U) \in Nat
           /\ \A T \in SUBSET U : Cardinality(T) \in Nat /\ Cardinality(T) <= Cardinality(U)
           /\ \A o \in Offers : Cardinality(U \cup {o}) \in Nat
                                /\ Cardinality(U \cup {o}) <= Cardinality(U) + 1
<1>1. \A T \in SUBSET Offers : IsFiniteSet(T) /\ Cardinality(T) \in Nat
  BY AllocationAssumption, FS_Subset, FS_CardinalityType
<1>2. \A T \in SUBSET U : Cardinality(T) <= Cardinality(U)
  BY <1>1, FS_Subset
<1>3. ASSUME NEW o \in Offers PROVE Cardinality(U \cup {o}) <= Cardinality(U) + 1
  <2>1. IsFiniteSet(U) /\ Cardinality(U) \in Nat
    BY <1>1
  <2>2. Cardinality(U \cup {o}) = IF o \in U THEN Cardinality(U) ELSE Cardinality(U) + 1
    BY <2>1, FS_AddElement
  <2> QED BY <2>1, <2>2
<1> QED BY <1>1, <1>2, <1>3

(* The turns of the loop, as a sequence of what has been granted so far.   *)
LEMMA GrantsInTurn ==
    ASSUME held \in SUBSET Offers, NEW orders \in SUBSET Offers, NEW ranking \in Seq(orders)
    PROVE  \E g \in [0..Len(ranking) -> SUBSET Offers] :
              /\ g[0] = {} /\ g[Len(ranking)] = FoldLeft(Consider, {}, ranking)
              /\ \A i \in 1..Len(ranking) : g[i] = Consider(g[i - 1], ranking[i])
<1> DEFINE n == Len(ranking)
           V == SUBSET Offers
           G == [iv \in (1..n) \X V |-> Consider(iv[2], ranking[iv[1]])]
           last == LastOf(n)
           Eq(e) == e = [s \in SUBSET DOMAIN ranking |->
                           IF s = {} THEN {}
                           ELSE Consider(e[s \ {Max(s)}], ranking[Max(s)])]
           iter == CHOOSE e : Eq(e)
<1>1. n \in Nat /\ DOMAIN ranking = 1..n /\ \A i \in 1..n : ranking[i] \in Offers
  BY LenProperties, ElementOfSeq
<1>2. \A i \in 1..n, v \in V : G[<<i, v>>] = Consider(v, ranking[i])
  OBVIOUS
<1>3. \A i \in 1..n, v \in V : Consider(v, ranking[i]) \in V
  BY <1>1 DEF Consider
<1>4. {} \in V /\ \A i \in 1..n, v \in V : G[<<i, v>>] \in V
  BY <1>2, <1>3
<1>5. PICK f, g : FoldRuns(f, g, n, V, {}, G)
  <2> DEFINE none == {}
  <2>1. n \in Nat /\ none \in V /\ StepsIn(n, V, G)
    BY <1>1, <1>4 DEF StepsIn
  <2> HIDE DEF n, V, G, none
  <2>2. \E f, g : FoldRuns(f, g, n, V, none, G)
    BY <2>1, FoldsLeft
  <2> QED BY <2>2 DEF none
<1>6. \A T \in SUBSET (1..n) : T # {} => last[T] = Max(T) /\ Max(T) \in 1..n /\ T \ {Max(T)} \in SUBSET (1..n)
  BY <1>1, LargestOf DEF LastOf
<1>0. /\ f \in [SUBSET (1..n) -> V] /\ Recursive(f, 1..n, {}, last, G)
      /\ g \in [0..n -> V] /\ g[0] = {} /\ \A i \in 1..n : g[i] = G[<<i, g[i - 1]>>]
      /\ f[1..n] = g[n]
  BY <1>5 DEF FoldRuns
<1> HIDE DEF G, last
<1>7. Eq(f)
  <2>1. ASSUME NEW T \in SUBSET (1..n)
        PROVE  f[T] = IF T = {} THEN {} ELSE Consider(f[T \ {Max(T)}], ranking[Max(T)])
    <3>1. CASE T = {}
      BY <1>0, <3>1 DEF Recursive
    <3>2. CASE T # {}
      <4> DEFINE m == Max(T)
                 U == T \ {m}
      <4>1. last[T] = m /\ m \in 1..n /\ U \in SUBSET (1..n)
        BY <1>6, <3>2
      <4>2. f[T] = G[<<m, f[U]>>]
        <5>1. f[T] = G[<<last[T], f[T \ {last[T]}]>>]
          BY <1>0, <3>2 DEF Recursive
        <5> QED BY <4>1, <5>1
      <4>3. f[U] \in V
        BY <1>0, <4>1
      <4>4. G[<<m, f[U]>>] = Consider(f[U], ranking[m])
        BY <1>2, <4>1, <4>3
      <4> QED BY <3>2, <4>2, <4>4
    <3> QED BY <3>1, <3>2
  <2> QED BY <1>1, <1>0, <2>1
<1>8. Eq(iter)
  <2> HIDE DEF Eq
  <2> QED BY <1>7
<1>9. FoldLeft(Consider, {}, ranking) = iter[DOMAIN ranking]
  BY Zenon DEF FoldLeft, MapThenFoldSet
<1> HIDE DEF iter
<1>10. iter = [s \in SUBSET (1..n) |->
                 IF s = {} THEN {} ELSE Consider(iter[s \ {Max(s)}], ranking[Max(s)])]
  BY <1>1, <1>8
<1>11. iter[1..n] = f[1..n]
  <2>1. ASSUME NEW T \in SUBSET (1..n), \A U \in SUBSET T : U # T => iter[U] = f[U]
        PROVE  iter[T] = f[T]
    <3>1. iter[T] = IF T = {} THEN {} ELSE Consider(iter[T \ {Max(T)}], ranking[Max(T)])
      BY <1>10
    <3>2. f[T] = IF T = {} THEN {} ELSE Consider(f[T \ {Max(T)}], ranking[Max(T)])
      BY <1>1, <1>7
    <3>3. T # {} => iter[T \ {Max(T)}] = f[T \ {Max(T)}]
      <4>1. T # {} => Max(T) \in T
        BY <1>1, LargestOf
      <4> QED BY <2>1, <4>1
    <3> QED BY <3>1, <3>2, <3>3
  <2>2. IsFiniteSet(1..n)
    BY <1>1, FS_Interval
  <2> HIDE DEF n
  <2> QED BY <2>1, <2>2, SameByParts
<1>12. g[n] = FoldLeft(Consider, {}, ranking)
  BY <1>1, <1>0, <1>9, <1>11
<1>13. \A i \in 1..n : g[i] = Consider(g[i - 1], ranking[i])
  <2>1. ASSUME NEW i \in 1..n PROVE g[i] = Consider(g[i - 1], ranking[i])
    <3>1. i - 1 \in 0..n
      BY <1>1
    <3>2. g[i - 1] \in V
      BY <1>0, <3>1
    <3> QED BY <1>2, <1>0, <3>2
  <2> QED BY <2>1
<1> QED BY <1>0, <1>12, <1>13

(* What the granted orders g come to with the positions, for o to fit.     *)
Count(g) == Cardinality(held) + Cardinality(g)
Exposed(g) == SumOf(held) + SumOf(g)

TurnedAway(g, o) ==
    \/ Count(g) >= MaxPositions
    \/ ~WithinExposure(Exposed(g) + o.notional)
    \/ ~WithinSingle(o)

GrantsFit(g) ==
    /\ g # {} => Count(g) <= MaxPositions /\ WithinExposure(Exposed(g))
    /\ \A o \in g : WithinSingle(o)

LEMMA ConsiderFits ==
    ASSUME held \in SUBSET Offers, equity \in Nat, NEW g \in SUBSET Offers, NEW o \in Offers,
           GrantsFit(g)
    PROVE  /\ Consider(g, o) \in SUBSET Offers /\ g \subseteq Consider(g, o)
           /\ GrantsFit(Consider(g, o))
           /\ o \in Consider(g, o) \/ TurnedAway(g, o)
<1> DEFINE new == g \cup {o}
           cap == equity * ExposurePct
<1>1. cap \in Int /\ MaxPositions \in Nat
  BY AllocationAssumption
<1>2. /\ SumOf(held) \in Nat /\ SumOf(g) \in Nat /\ SumOf(new) \in Nat /\ o.notional \in Nat
      /\ SumOf(new) <= SumOf(g) + o.notional
  BY SumsOfOffers
<1>3. /\ Cardinality(held) \in Nat /\ Cardinality(g) \in Nat /\ Cardinality(new) \in Nat
      /\ Cardinality(new) <= Cardinality(g) + 1
  BY SizesOfOffers
<1>4. \A x : WithinExposure(x) <=> 100 * x <= cap
  BY DEF WithinExposure
<1> HIDE DEF cap, new
<1>5. CASE /\ Count(g) < MaxPositions
           /\ WithinExposure(Exposed(g) + o.notional) /\ WithinSingle(o)
  <2>1. Consider(g, o) = new
    BY <1>5 DEF Consider, Count, Exposed, new
  <2>2. Count(new) <= MaxPositions
    BY <1>1, <1>3, <1>5 DEF Count
  <2>3. WithinExposure(Exposed(new))
    BY <1>1, <1>2, <1>4, <1>5 DEF Exposed
  <2>4. \A x \in new : WithinSingle(x)
    BY <1>5 DEF GrantsFit, new
  <2> QED BY <2>1, <2>2, <2>3, <2>4 DEF GrantsFit, new
<1>6. CASE ~(/\ Count(g) < MaxPositions
             /\ WithinExposure(Exposed(g) + o.notional) /\ WithinSingle(o))
  <2>1. Consider(g, o) = g
    BY <1>6 DEF Consider, Count, Exposed
  <2>2. Count(g) \in Nat
    BY <1>3 DEF Count
  <2>3. TurnedAway(g, o)
    BY <1>1, <1>6, <2>2 DEF TurnedAway
  <2> QED BY <2>1, <2>3
<1> QED BY <1>5, <1>6

(* What is turned away once would be turned away at the end.               *)
LEMMA TurnedAwayForGood ==
    ASSUME held \in SUBSET Offers, equity \in Nat, NEW h \in SUBSET Offers, NEW g \in SUBSET h,
           NEW o \in Offers, TurnedAway(g, o)
    PROVE  TurnedAway(h, o)
<1> DEFINE cap == equity * ExposurePct
<1>1. cap \in Int /\ MaxPositions \in Nat
  BY AllocationAssumption
<1>2. /\ SumOf(held) \in Nat /\ SumOf(g) \in Nat /\ SumOf(h) \in Nat /\ o.notional \in Nat
      /\ SumOf(g) <= SumOf(h)
  BY SumsOfOffers
<1>3. /\ Cardinality(held) \in Nat /\ Cardinality(g) \in Nat /\ Cardinality(h) \in Nat
      /\ Cardinality(g) <= Cardinality(h)
  BY SizesOfOffers
<1>4. \A x : WithinExposure(x) <=> 100 * x <= cap
  BY DEF WithinExposure
<1> HIDE DEF cap
<1>5. Count(g) >= MaxPositions => Count(h) >= MaxPositions
  BY <1>1, <1>3 DEF Count
<1>6. ~WithinExposure(Exposed(g) + o.notional) => ~WithinExposure(Exposed(h) + o.notional)
  BY <1>1, <1>2, <1>4 DEF Exposed
<1> QED BY <1>5, <1>6 DEF TurnedAway

LEMMA BatchIsDecided ==
    ASSUME held \in SUBSET Offers, equity \in Nat,
           NEW orders \in SUBSET Offers, NEW ranking \in Ranked(orders)
    PROVE  LET got == FoldLeft(Consider, {}, ranking)
           IN  /\ got \in SUBSET Offers /\ GrantsFit(got)
               /\ \A o \in orders \ got : TurnedAway(got, o)
<1> DEFINE n == Len(ranking)
           got == FoldLeft(Consider, {}, ranking)
<1>1. /\ ranking \in Seq(orders) /\ n \in Nat
      /\ \A o \in orders : \E i \in 1..n : ranking[i] = o
      /\ \A i \in 1..n : ranking[i] \in Offers
  <2>1. IsFiniteSet(orders)
    BY AllocationAssumption, FS_Subset
  <2>2. ranking \in SetToSeqs(orders)
    BY DEF Ranked
  <2>3. /\ ranking \in Seq(orders)
        /\ \A o \in orders : \E i \in 1..Len(ranking) : ranking[i] = o
    BY <2>1, <2>2, SetToSeqsList
  <2>4. n \in Nat /\ \A i \in 1..n : ranking[i] \in orders
    BY <2>3, LenProperties, ElementOfSeq
  <2> QED BY <2>3, <2>4
<1>2. PICK g \in [0..n -> SUBSET Offers] :
         /\ g[0] = {} /\ g[n] = got
         /\ \A i \in 1..n : g[i] = Consider(g[i - 1], ranking[i])
  BY <1>1, GrantsInTurn
<1> HIDE DEF n, got
<1>3. \A i \in 1..n : i - 1 \in 0..n /\ g[i - 1] \in SUBSET Offers /\ g[i] \in SUBSET Offers
  BY <1>1, <1>2
<1>4. \A i \in 0..n : GrantsFit(g[i])
  <2> DEFINE P == {i \in 0..n : GrantsFit(g[i])}
  <2>1. 0 \in P
    BY <1>1, <1>2 DEF GrantsFit
  <2>2. ASSUME NEW i \in 1..n, i - 1 \in P PROVE i \in P
    <3>1. GrantsFit(Consider(g[i - 1], ranking[i]))
      BY <1>1, <1>3, <2>2, ConsiderFits
    <3> QED BY <1>1, <1>2, <3>1
  <2>3. \A i \in 0..n : i \in P
    <3> HIDE DEF P
    <3> QED BY <1>1, <2>1, <2>2, StepsReach
  <2> QED BY <2>3
<1>5. \A i \in 1..n : /\ g[i - 1] \subseteq g[i]
                      /\ ranking[i] \in g[i] \/ TurnedAway(g[i - 1], ranking[i])
  <2>1. ASSUME NEW i \in 1..n
        PROVE  /\ g[i - 1] \subseteq g[i]
               /\ ranking[i] \in g[i] \/ TurnedAway(g[i - 1], ranking[i])
    <3>1. g[i - 1] \in SUBSET Offers /\ GrantsFit(g[i - 1]) /\ ranking[i] \in Offers
      BY <1>1, <1>3, <1>4
    <3>2. /\ g[i - 1] \subseteq Consider(g[i - 1], ranking[i])
          /\ \/ ranking[i] \in Consider(g[i - 1], ranking[i])
             \/ TurnedAway(g[i - 1], ranking[i])
      BY <3>1, ConsiderFits
    <3> QED BY <1>2, <3>2
  <2> QED BY <2>1
<1>6. \A i \in 0..n : \A j \in 0..i : g[j] \subseteq g[i]
  <2> DEFINE P == {i \in 0..n : \A j \in 0..i : g[j] \subseteq g[i]}
  <2>1. 0 \in P
    BY <1>1
  <2>2. ASSUME NEW i \in 1..n, i - 1 \in P PROVE i \in P
    <3>1. ASSUME NEW j \in 0..i PROVE g[j] \subseteq g[i]
      <4>1. CASE j = i
        BY <4>1
      <4>2. CASE j # i
        <5>1. j \in 0..i - 1
          BY <1>1, <4>2
        <5> QED BY <1>5, <2>2, <5>1
      <4> QED BY <4>1, <4>2
    <3> QED BY <1>1, <3>1
  <2>3. \A i \in 0..n : i \in P
    <3> HIDE DEF P
    <3> QED BY <1>1, <2>1, <2>2, StepsReach
  <2> QED BY <2>3
<1>7. n \in 0..n /\ got \in SUBSET Offers /\ GrantsFit(got)
  BY <1>1, <1>2, <1>4
<1>8. ASSUME NEW o \in orders \ got PROVE TurnedAway(got, o)
  <2>1. PICK i \in 1..n : ranking[i] = o
    BY <1>1
  <2>2. i \in 0..n /\ i - 1 \in 0..n
    BY <1>1
  <2>3. g[i] \subseteq got /\ g[i - 1] \subseteq got
    BY <1>1, <1>2, <1>6, <1>7, <2>2
  <2>4. TurnedAway(g[i - 1], o) /\ o \in Offers
    BY <1>1, <1>5, <1>8, <2>1, <2>3
  <2> QED BY <1>7, <2>3, <2>4, TurnedAwayForGood
<1> QED BY <1>7, <1>8 DEF got

AllocationInv == AllocationTypeOK /\ BatchFitsAndIsMaximal

(* The outcome of the last call, as a record of any positions and equity.  *)
Outcome(before, accepted, rejected, money) ==
    [before |-> before, accepted |-> accepted, rejected |-> rejected, equity |-> money]

LEMMA BatchIsRight ==
    ASSUME held \in SUBSET Offers, equity \in Nat,
           NEW orders \in SUBSET Offers, NEW got \in SUBSET Offers,
           GrantsFit(got), \A o \in orders \ got : TurnedAway(got, o),
           batch' = Outcome(held, got, orders \ got, equity)
    PROVE  BatchFitsAndIsMaximal'
<1>1. /\ batch'.before = held /\ batch'.accepted = got
      /\ batch'.rejected = orders \ got /\ batch'.equity = equity
  BY DEF Outcome
<1>2. got # {} => /\ Cardinality(held) + Cardinality(got) <= MaxPositions
                  /\ 100 * (SumOf(held) + SumOf(got)) <= equity * ExposurePct
  BY DEF GrantsFit, Count, Exposed, WithinExposure
<1>3. \A o \in orders \ got :
         \/ Cardinality(held) + Cardinality(got) >= MaxPositions
         \/ ~(100 * (SumOf(held) + SumOf(got) + o.notional) <= equity * ExposurePct)
         \/ 100 * o.notional > equity * SinglePct
  <2>1. ASSUME NEW o \in orders \ got
        PROVE  \/ Cardinality(held) + Cardinality(got) >= MaxPositions
               \/ ~(100 * (SumOf(held) + SumOf(got) + o.notional) <= equity * ExposurePct)
               \/ 100 * o.notional > equity * SinglePct
    <3>1. 100 * o.notional \in Int /\ equity * SinglePct \in Int
      BY AllocationAssumption
    <3> DEFINE a == 100 * o.notional
               b == equity * SinglePct
    <3>2. ~(a <= b) => a > b
      <4> HIDE DEF a, b
      <4>1. a \in Int /\ b \in Int
        BY <3>1 DEF a, b
      <4> QED BY <4>1
    <3> QED BY <3>2 DEF TurnedAway, Count, Exposed, WithinExposure, WithinSingle
  <2> QED BY <2>1
<1>4. \A o \in got : 100 * o.notional <= equity * SinglePct
  BY DEF GrantsFit, WithinSingle
<1> QED BY <1>1, <1>2, <1>3, <1>4 DEF BatchFitsAndIsMaximal, SumOf

LEMMA AllocationInitially == AllocationInit => AllocationInv
BY DEF AllocationInit, AllocationInv, AllocationTypeOK, BreakerTiers, NoBatch,
       BatchFitsAndIsMaximal

LEMMA AllocationStep ==
    AllocationInv /\ [AllocationNext]_allocationVars => AllocationInv'
<1> SUFFICES ASSUME AllocationInv, [AllocationNext]_allocationVars PROVE AllocationInv'
  OBVIOUS
<1>1. /\ AllocationTypeOK /\ BatchFitsAndIsMaximal
      /\ held \in SUBSET Offers /\ equity \in Nat
  BY AllocationAssumption DEF AllocationInv, AllocationTypeOK
<1>2. ASSUME batch' = NoBatch PROVE BatchFitsAndIsMaximal'
  BY <1>2 DEF NoBatch, BatchFitsAndIsMaximal
<1>3. ASSUME NEW orders \in SUBSET Offers, AllocateCapital(orders) PROVE AllocationInv'
  <2>1. PICK ranking \in Ranked(orders) :
           LET got == FoldLeft(Consider, {}, ranking)
           IN  /\ granted' = granted \cup got
               /\ recent' = IF Clocked THEN recent \cup {o.asset : o \in got} ELSE recent
               /\ batch' = [before |-> held, accepted |-> got,
                            rejected |-> orders \ got, equity |-> equity]
    BY <1>3, Zenon DEF AllocateCapital
  <2> DEFINE got == FoldLeft(Consider, {}, ranking)
  <2>2. /\ granted' = granted \cup got
        /\ recent' = IF Clocked THEN recent \cup {o.asset : o \in got} ELSE recent
        /\ batch' = Outcome(held, got, orders \ got, equity)
    BY <2>1 DEF Outcome
  <2>3. got \in SUBSET Offers /\ GrantsFit(got) /\ \A o \in orders \ got : TurnedAway(got, o)
    BY <1>1, BatchIsDecided
  <2> HIDE DEF got
  <2>4. BatchFitsAndIsMaximal'
    BY <1>1, <2>2, <2>3, BatchIsRight
  <2>5. spent' = spent \cup orders /\ UNCHANGED <<held, equity, tier, told, exiting>>
    BY <1>3 DEF AllocateCapital
  <2>6. recent' \subseteq OfferAssets
    <3>1. {o.asset : o \in got} \subseteq OfferAssets
      BY <2>3 DEF OfferAssets
    <3>2. recent' \in {recent, recent \cup {o.asset : o \in got}}
      BY <2>2
    <3> QED BY <1>1, <3>1, <3>2 DEF AllocationTypeOK
  <2> QED BY <1>1, <2>2, <2>3, <2>4, <2>5, <2>6 DEF AllocationInv, AllocationTypeOK
<1>4. ASSUME NEW o \in Offers, PositionOpens(o) PROVE AllocationInv'
  BY <1>1, <1>2, <1>4 DEF PositionOpens, Others, AllocationInv, AllocationTypeOK
<1>5. ASSUME NEW o \in Offers, NEW e \in Equities, PositionCloses(o, e) PROVE AllocationInv'
  BY <1>1, <1>2, <1>5 DEF PositionCloses, Others, AllocationInv, AllocationTypeOK
<1>6. CASE DayPasses
  BY <1>1, <1>2, <1>6 DEF DayPasses, Others, AllocationInv, AllocationTypeOK
<1>7. ASSUME NEW move, NEW marked, NEW top, EvaluatePortfolioDrawdown(move, marked, top)
      PROVE  AllocationInv'
  <2> DEFINE now == TierOf(100 * (top - equity) - UnrealizedPnl(move, marked), top)
  <2>1. now \in BreakerTiers
    BY DEF TierOf, BreakerTiers
  <2>2. /\ \/ told' = "normal" /\ tier' = tier /\ exiting' = {}
           \/ told' = now /\ tier' = now /\ exiting' \in {held, {}}
        /\ batch' = NoBatch /\ UNCHANGED <<granted, held, spent, equity, recent>>
    BY <1>7 DEF EvaluatePortfolioDrawdown
  <2> HIDE DEF now
  <2>3. told' \in BreakerTiers /\ tier' \in BreakerTiers /\ exiting' \subseteq Offers
    BY <1>1, <2>1, <2>2 DEF AllocationTypeOK, BreakerTiers
  <2> QED BY <1>1, <1>2, <2>2, <2>3 DEF AllocationInv, AllocationTypeOK
<1>8. CASE UNCHANGED allocationVars
  <2>1. AllocationTypeOK'
    BY <1>1, <1>8 DEF allocationVars, AllocationTypeOK
  <2>2. BatchFitsAndIsMaximal'
    BY <1>1, <1>8 DEF allocationVars, BatchFitsAndIsMaximal
  <2> QED BY <2>1, <2>2 DEF AllocationInv
<1> QED BY <1>3, <1>4, <1>5, <1>6, <1>7, <1>8 DEF AllocationNext

(* However many orders compete, in whatever order equal scores come, and   *)
(* whatever is held: each call keeps the limits, and turns an order away   *)
(* only if it would not fit beside what was granted                        *)
(* (capital_allocator.py:139-188).                                         *)
THEOREM AllocatorIsGreedy == AllocationSpec => []BatchFitsAndIsMaximal
<1>1. AllocationInv => BatchFitsAndIsMaximal
  BY DEF AllocationInv
<1> QED BY AllocationInitially, AllocationStep, <1>1, PTL DEF AllocationSpec

(* What is granted, held and exited are offers; the breaker is in a tier.  *)
THEOREM AllocationTypeCorrect == AllocationSpec => []AllocationTypeOK
<1>1. AllocationInv => AllocationTypeOK
  BY DEF AllocationInv
<1> QED BY AllocationInitially, AllocationStep, <1>1, PTL DEF AllocationSpec

----------------------------------------------------------------------------
(* The gate before live trading.                                           *)

Streaks == [run : Nat, max : Nat]

LEMMA StreakKeeps ==
    ASSUME NEW s \in Streaks, s.run <= s.max, NEW record, NEW n
    PROVE  LET t == Streak(s, record, n)
           IN  /\ t \in Streaks /\ t.run <= t.max /\ s.max <= t.max
               /\ DayBreach(record, n) => t.run = s.run + 1
<1> DEFINE t == Streak(s, record, n)
<1>1. s.run \in Nat /\ s.max \in Nat /\ s = [run |-> s.run, max |-> s.max]
  BY DEF Streaks
<1>2. CASE DayBreach(record, n)
  <2>1. t = [run |-> s.run + 1, max |-> IF s.run >= s.max THEN s.run + 1 ELSE s.max]
    BY <1>2, Zenon DEF Streak
  <2>2. t.run = s.run + 1 /\ t.max = IF s.run >= s.max THEN s.run + 1 ELSE s.max
    BY <2>1
  <2>3. t = [run |-> t.run, max |-> t.max]
    BY <2>1
  <2>4. t.run \in Nat /\ t.max \in Nat /\ t.run <= t.max /\ s.max <= t.max
    <3> HIDE DEF t
    <3> QED BY <1>1, <2>2
  <2> HIDE DEF t
  <2>5. t \in Streaks
    BY <2>3, <2>4 DEF Streaks
  <2> QED BY <2>2, <2>4, <2>5 DEF t
<1>3. CASE ~DayBreach(record, n)
  <2>1. t = [s EXCEPT !.run = 0]
    BY <1>3, Zenon DEF Streak
  <2>2. t = [run |-> 0, max |-> s.max]
    BY <1>1, <2>1
  <2>3. t.run = 0 /\ t.max = s.max /\ t \in Streaks
    BY <1>1, <2>2 DEF Streaks
  <2> HIDE DEF t
  <2> QED BY <1>1, <1>3, <2>3 DEF t
<1> QED BY <1>2, <1>3

(* The streaks after each of the days.                                     *)
LEMMA StreaksInTurn ==
    ASSUME NEW days \in Seq(DayRecord)
    PROVE  \E g \in [0..Len(days) -> Streaks] :
              /\ g[0] = [run |-> 0, max |-> 0]
              /\ MaxConsecutive(days) = g[Len(days)].max
              /\ \A i \in 1..Len(days) :
                    g[i] = Streak(g[i - 1], days[i], Len(days))
<1> DEFINE n == Len(days)
           V == {s \in Streaks : s.run <= s.max}
           none == [run |-> 0, max |-> 0]
           G == [iv \in (1..n) \X V |-> Streak(iv[2], days[iv[1]], n)]
           last == LastOf(n)
           Eq(e) == e = [s \in SUBSET DOMAIN days |->
                           IF s = {} THEN none
                           ELSE Streak(e[s \ {Max(s)}], days[Max(s)], n)]
           iter == CHOOSE e : Eq(e)
<1>1. n \in Nat /\ DOMAIN days = 1..n
  BY LenProperties
<1>2. \A i \in 1..n, v \in V : G[<<i, v>>] = Streak(v, days[i], n)
  OBVIOUS
<1>3. \A i \in 1..n, v \in V : Streak(v, days[i], n) \in V
  BY StreakKeeps
<1>4. none \in V /\ \A i \in 1..n, v \in V : G[<<i, v>>] \in V
  <2>1. none \in V
    BY DEF Streaks
  <2> HIDE DEF V, G
  <2> QED BY <1>2, <1>3, <2>1
<1>5. PICK f, g : FoldRuns(f, g, n, V, none, G)
  <2>1. n \in Nat /\ none \in V /\ StepsIn(n, V, G)
    BY <1>1, <1>4 DEF StepsIn
  <2> HIDE DEF n, V, G, none
  <2> QED BY <2>1, FoldsLeft
<1>6. /\ f \in [SUBSET (1..n) -> V] /\ Recursive(f, 1..n, none, last, G)
      /\ g \in [0..n -> V] /\ g[0] = none /\ \A i \in 1..n : g[i] = G[<<i, g[i - 1]>>]
      /\ f[1..n] = g[n]
  BY <1>5 DEF FoldRuns
<1>7. \A T \in SUBSET (1..n) :
         T # {} => /\ last[T] = Max(T) /\ Max(T) \in T /\ Max(T) \in 1..n
                   /\ T \ {Max(T)} \in SUBSET (1..n)
  BY <1>1, LargestOf DEF LastOf
<1> HIDE DEF G, last, V, none
<1>8. ASSUME NEW T \in SUBSET (1..n)
      PROVE  f[T] = IF T = {} THEN none ELSE Streak(f[T \ {Max(T)}], days[Max(T)], n)
  <2>1. CASE T = {}
    BY <1>6, <2>1 DEF Recursive
  <2>2. CASE T # {}
    <3> DEFINE m == Max(T)
               U == T \ {m}
    <3>1. last[T] = m /\ m \in 1..n /\ U \in SUBSET (1..n)
      BY <1>7, <2>2
    <3>2. f[T] = G[<<m, f[U]>>]
      <4>1. f[T] = G[<<last[T], f[T \ {last[T]}]>>]
        BY <1>6, <2>2 DEF Recursive
      <4> QED BY <3>1, <4>1
    <3>3. G[<<m, f[U]>>] = Streak(f[U], days[m], n)
      BY <1>2, <1>6, <3>1
    <3> QED BY <2>2, <3>2, <3>3
  <2> QED BY <2>1, <2>2
<1>9. Eq(iter)
  <2>1. Eq(f)
    BY <1>1, <1>6, <1>8
  <2> HIDE DEF Eq
  <2> QED BY <2>1
<1>10. MaxConsecutive(days) = iter[DOMAIN days].max
  BY Zenon DEF MaxConsecutive, FoldLeft, MapThenFoldSet, none
<1> HIDE DEF iter
<1>11. iter = [s \in SUBSET (1..n) |->
                 IF s = {} THEN none ELSE Streak(iter[s \ {Max(s)}], days[Max(s)], n)]
  BY <1>1, <1>9
<1>12. iter[1..n] = f[1..n]
  <2>1. ASSUME NEW T \in SUBSET (1..n), \A U \in SUBSET T : U # T => iter[U] = f[U]
        PROVE  iter[T] = f[T]
    <3>1. iter[T] = IF T = {} THEN none ELSE Streak(iter[T \ {Max(T)}], days[Max(T)], n)
      BY <1>11
    <3>2. T # {} => iter[T \ {Max(T)}] = f[T \ {Max(T)}]
      BY <1>7, <2>1
    <3> QED BY <1>8, <3>1, <3>2
  <2>2. IsFiniteSet(1..n)
    BY <1>1, FS_Interval
  <2> HIDE DEF n
  <2> QED BY <2>1, <2>2, SameByParts
<1>13. MaxConsecutive(days) = g[n].max
  BY <1>1, <1>6, <1>10, <1>12
<1>14. \A i \in 1..n : g[i] = Streak(g[i - 1], days[i], n)
  <2>1. ASSUME NEW i \in 1..n PROVE g[i] = Streak(g[i - 1], days[i], n)
    <3>1. i - 1 \in 0..n
      BY <1>1
    <3>2. g[i - 1] \in V
      BY <1>6, <3>1
    <3> QED BY <1>2, <1>6, <3>2
  <2> QED BY <2>1
<1>15. g \in [0..n -> Streaks]
  BY <1>6 DEF V
<1> QED BY <1>6, <1>13, <1>14, <1>15 DEF none

(* Three breaches in a row are counted as such.                            *)
LEMMA ThreeInARowStop ==
    ASSUME NEW days \in Seq(DayRecord), NEW i \in 1..Len(days) - 2,
           \A j \in i..i + 2 : DayBreach(days[j], Len(days))
    PROVE  HardStopped(days)
<1> DEFINE n == Len(days)
<1>1. PICK g \in [0..n -> Streaks] :
         /\ g[0] = [run |-> 0, max |-> 0] /\ MaxConsecutive(days) = g[n].max
         /\ \A k \in 1..n : g[k] = Streak(g[k - 1], days[k], n)
  BY StreaksInTurn
<1>2. n \in Nat /\ i \in 1..n /\ i + 1 \in 1..n /\ i + 2 \in 1..n /\ i - 1 \in 0..n
      /\ \A k \in 1..n : k - 1 \in 0..n
  BY LenProperties
<1>3. \A j \in {i, i + 1, i + 2} : DayBreach(days[j], n)
  BY <1>2
<1> HIDE DEF n
<1>4. \A k \in 0..n : g[k].run <= g[k].max
  <2> DEFINE P == {k \in 0..n : g[k].run <= g[k].max}
  <2>1. 0 \in P
    BY <1>1, <1>2
  <2>2. ASSUME NEW k \in 1..n, k - 1 \in P PROVE k \in P
    <3>1. g[k - 1] \in Streaks /\ g[k - 1].run <= g[k - 1].max
      BY <1>1, <1>2, <2>2
    <3>2. g[k] = Streak(g[k - 1], days[k], n)
      BY <1>1
    <3>3. g[k].run <= g[k].max
      BY <3>1, <3>2, StreakKeeps
    <3> QED BY <1>2, <3>3
  <2>3. \A k \in 0..n : k \in P
    <3> HIDE DEF P
    <3> QED BY <1>2, <2>1, <2>2, StepsReach
  <2> QED BY <2>3
<1>5. \A k \in 1..n : /\ g[k - 1].max <= g[k].max
                      /\ DayBreach(days[k], n) => g[k].run = g[k - 1].run + 1
  <2>1. ASSUME NEW k \in 1..n
        PROVE  /\ g[k - 1].max <= g[k].max
               /\ DayBreach(days[k], n) => g[k].run = g[k - 1].run + 1
    <3>1. g[k - 1] \in Streaks /\ g[k - 1].run <= g[k - 1].max
      BY <1>1, <1>2, <1>4
    <3>2. g[k] = Streak(g[k - 1], days[k], n)
      BY <1>1
    <3> QED BY <3>1, <3>2, StreakKeeps
  <2> QED BY <2>1
<1>6. \A k \in 0..n : g[k].run \in Nat /\ g[k].max \in Nat
  BY <1>1 DEF Streaks
<1>7. g[i + 2].run >= 3
  <2>1. (i + 1) - 1 = i /\ (i + 2) - 1 = i + 1
    BY <1>2
  <2>2. /\ g[i].run = g[i - 1].run + 1 /\ g[i + 1].run = g[i].run + 1
        /\ g[i + 2].run = g[i + 1].run + 1
    BY <1>2, <1>3, <1>5, <2>1
  <2>3. g[i - 1].run \in Nat
    BY <1>2, <1>6
  <2> QED BY <2>2, <2>3
<1>8. \A k \in 0..n : k >= i + 2 => g[k].max >= 3
  <2> DEFINE P == {k \in 0..n : k >= i + 2 => g[k].max >= 3}
  <2>1. 0 \in P
    BY <1>2
  <2>2. ASSUME NEW k \in 1..n, k - 1 \in P PROVE k \in P
    <3>1. SUFFICES ASSUME k >= i + 2 PROVE g[k].max >= 3
      BY <1>2
    <3>2. CASE k = i + 2
      BY <1>2, <1>4, <1>6, <1>7, <3>2
    <3>3. CASE k # i + 2
      <4>1. k - 1 >= i + 2 /\ k - 1 \in 0..n /\ k \in 0..n
        BY <1>2, <3>1, <3>3
      <4>2. g[k - 1].max >= 3 /\ g[k - 1].max <= g[k].max
        BY <1>5, <2>2, <4>1
      <4> QED BY <1>6, <4>1, <4>2
    <3> QED BY <3>2, <3>3
  <2>3. \A k \in 0..n : k \in P
    <3> HIDE DEF P
    <3> QED BY <1>2, <2>1, <2>2, StepsReach
  <2> QED BY <2>3
<1>9. n \in 0..n /\ n >= i + 2
  BY <1>2
<1> QED BY <1>1, <1>8, <1>9 DEF HardStopped

(* A sum of integers is one.                                               *)
LEMMA TotalIsInt ==
    ASSUME NEW days \in Seq(DayRecord)
    PROVE  TotalPnl(days) \in Int
<1> DEFINE n == Len(days)
           G == [iv \in (1..n) \X Int |-> iv[2] + days[iv[1]].pnl]
           last == LastOf(n)
           Eq(e) == e = [s \in SUBSET DOMAIN days |->
                           IF s = {} THEN 0 ELSE e[s \ {Max(s)}] + days[Max(s)].pnl]
           iter == CHOOSE e : Eq(e)
<1>1. n \in Nat /\ DOMAIN days = 1..n /\ \A i \in 1..n : days[i].pnl \in Int
  <2>1. n \in Nat /\ DOMAIN days = 1..n
    BY LenProperties
  <2>2. \A i \in 1..n : days[i] \in DayRecord
    BY ElementOfSeq
  <2>3. \A record \in DayRecord : record.pnl \in Int
    BY DEF DayRecord
  <2> QED BY <2>1, <2>2, <2>3
<1>2. \A i \in 1..n, v \in Int : G[<<i, v>>] = v + days[i].pnl /\ G[<<i, v>>] \in Int
  BY <1>1
<1>3. PICK f, g : FoldRuns(f, g, n, Int, 0, G)
  <2>1. n \in Nat /\ 0 \in Int /\ StepsIn(n, Int, G)
    BY <1>1, <1>2 DEF StepsIn
  <2> HIDE DEF n, G
  <2> QED BY <2>1, FoldsLeft
<1>4. f \in [SUBSET (1..n) -> Int] /\ Recursive(f, 1..n, 0, last, G)
  BY <1>3 DEF FoldRuns
<1>5. \A T \in SUBSET (1..n) :
         T # {} => /\ last[T] = Max(T) /\ Max(T) \in T /\ Max(T) \in 1..n
                   /\ T \ {Max(T)} \in SUBSET (1..n)
  BY <1>1, LargestOf DEF LastOf
<1> HIDE DEF G, last
<1>6. ASSUME NEW T \in SUBSET (1..n)
      PROVE  f[T] = IF T = {} THEN 0 ELSE f[T \ {Max(T)}] + days[Max(T)].pnl
  <2>1. CASE T = {}
    BY <1>4, <2>1 DEF Recursive
  <2>2. CASE T # {}
    <3> DEFINE m == Max(T)
               U == T \ {m}
    <3>1. last[T] = m /\ m \in 1..n /\ U \in SUBSET (1..n)
      BY <1>5, <2>2
    <3>2. f[T] = G[<<m, f[U]>>]
      <4>1. f[T] = G[<<last[T], f[T \ {last[T]}]>>]
        BY <1>4, <2>2 DEF Recursive
      <4> QED BY <3>1, <4>1
    <3>3. f[U] \in Int
      BY <1>4, <3>1
    <3>4. G[<<m, f[U]>>] = f[U] + days[m].pnl
      BY <1>2, <3>1, <3>3
    <3> QED BY <2>2, <3>2, <3>4
  <2> QED BY <2>1, <2>2
<1>7. Eq(iter)
  <2>1. Eq(f)
    BY <1>1, <1>4, <1>6
  <2> HIDE DEF Eq
  <2> QED BY <2>1
<1>8. TotalPnl(days) = iter[DOMAIN days]
  BY Zenon DEF TotalPnl, FoldLeft, MapThenFoldSet
<1> HIDE DEF iter
<1>9. iter = [s \in SUBSET (1..n) |->
                IF s = {} THEN 0 ELSE iter[s \ {Max(s)}] + days[Max(s)].pnl]
  BY <1>1, <1>7
<1>10. iter[1..n] = f[1..n]
  <2>1. ASSUME NEW T \in SUBSET (1..n), \A U \in SUBSET T : U # T => iter[U] = f[U]
        PROVE  iter[T] = f[T]
    <3>1. iter[T] = IF T = {} THEN 0 ELSE iter[T \ {Max(T)}] + days[Max(T)].pnl
      BY <1>9
    <3>2. T # {} => iter[T \ {Max(T)}] = f[T \ {Max(T)}]
      BY <1>5, <2>1
    <3> QED BY <1>6, <3>1, <3>2
  <2>2. IsFiniteSet(1..n)
    BY <1>1, FS_Interval
  <2> HIDE DEF n
  <2> QED BY <2>1, <2>2, SameByParts
<1>11. f[1..n] \in Int
  BY <1>4
<1> QED BY <1>1, <1>8, <1>10, <1>11

LEMMA LatestProperties ==
    ASSUME NEW days \in Seq(DayRecord)
    PROVE  Latest(days, Window) \in Seq(DayRecord)
<1> DEFINE n == Len(days)
           m == n - Window + 1
           w == Latest(days, Window)
<1>1. n \in Nat /\ Window \in Nat \ {0}
  BY LenProperties, PromotionAssumption
<1>2. CASE n <= Window
  BY <1>2 DEF Latest
<1>3. CASE ~(n <= Window)
  <2>1. w = SubSeq(days, m, n) /\ m \in 1..n + 1
    BY <1>1, <1>3 DEF Latest
  <2>2. \A i \in m..n : days[i] \in DayRecord
    <3>1. \A i \in m..n : i \in 1..n
      BY <1>1, <2>1
    <3> QED BY <3>1, ElementOfSeq
  <2> HIDE DEF n, m, w
  <2>3. w \in Seq(DayRecord)
    BY <1>1, <2>1, <2>2, SubSeqProperties
  <2> QED BY <2>3 DEF w
<1> QED BY <1>2, <1>3

(* What the report has seen of a campaign that it passes.                  *)
Earned(days) ==
    LET window == Latest(days, Window)
    IN  /\ Cardinality({r.date : r \in ToSet(days)}) >= MinDays
        /\ Len(window) >= MinDays
        /\ \A i \in 1 .. Len(window) - 2 :
              \E j \in i .. i + 2 : ~DayBreach(window[j], Len(window))
        /\ TotalPnl(window) >= Expected - ZThreshold * StdDev

(* There are as many dates as there may be, a number.                      *)
LEMMA DatesAreCounted ==
    ASSUME NEW days \in Seq(DayRecord)
    PROVE  Cardinality({r.date : r \in ToSet(days)}) \in Nat
<1> DEFINE D == {r.date : r \in ToSet(days)}
<1>1. D \subseteq 1..MaxDate
  <2>1. ASSUME NEW r \in ToSet(days) PROVE r.date \in 1..MaxDate
    <3>1. DOMAIN days = 1..Len(days) /\ ToSet(days) = {days[i] : i \in DOMAIN days}
      BY LenProperties DEF ToSet
    <3>2. PICK i \in 1..Len(days) : r = days[i]
      BY <3>1
    <3>3. r \in DayRecord
      BY <3>2, ElementOfSeq
    <3> QED BY <3>3 DEF DayRecord
  <2> QED BY <2>1
<1>2. IsFiniteSet(1..MaxDate)
  BY FS_Interval, PromotionAssumption
<1> HIDE DEF D
<1>3. IsFiniteSet(D)
  BY <1>1, <1>2, FS_Subset
<1>4. Cardinality(D) \in Nat
  BY <1>3, FS_CardinalityType
<1> QED BY <1>4 DEF D

(* What the report passes has been earned.                                 *)
LEMMA PassIsEarned ==
    ASSUME NEW days \in Seq(DayRecord), Gate1Report(days) = "GATE_1_PASS"
    PROVE  Earned(days)
<1> DEFINE w == Latest(days, Window)
           dates == Cardinality({r.date : r \in ToSet(days)})
<1>1. w \in Seq(DayRecord)
  BY LatestProperties
<1>2. ~(dates < MinDays) /\ CampaignStatus(w) = "GATE_1_PASS"
  BY DEF Gate1Report
<1>9. dates \in Nat
  BY DatesAreCounted
<1> HIDE DEF w, dates
<1>3. TotalPnl(w) \in Int /\ Len(w) \in Nat /\ MinDays \in Nat
  BY <1>1, TotalIsInt, LenProperties, PromotionAssumption
<1> DEFINE failed == HardStopped(w) \/ TotalPnl(w) - Expected < -ZThreshold * StdDev
<1>4. ~failed /\ Len(w) >= MinDays
  BY <1>2 DEF CampaignStatus
<1>5. TotalPnl(w) >= Expected - ZThreshold * StdDev
  BY <1>3, <1>4 DEF Expected, ZThreshold, StdDev
<1>6. dates >= MinDays
  BY <1>2, <1>3, <1>9
<1>7. ASSUME NEW i \in 1..Len(w) - 2
      PROVE  \E j \in i..i + 2 : ~DayBreach(w[j], Len(w))
  BY <1>1, <1>4, ThreeInARowStop
<1> HIDE DEF failed
<1> QED BY <1>4, <1>5, <1>6, <1>7 DEF Earned, w, dates

(* Records are records, and live trading is earned.                        *)
PromotionInv ==
    /\ PromotionTypeOK
    /\ (mode \in Live \/ "gate1" \in evidence) => Earned(judged)

LEMMA PromotionInitInv ==
    PromotionInit => PromotionInv
<1> SUFFICES ASSUME PromotionInit PROVE PromotionInv
  OBVIOUS
<1>1. campaign = <<>> /\ judged = <<>> /\ <<>> \in Seq(DayRecord) /\ Len(<<>>) = 0
  BY EmptySeq DEF PromotionInit
<1>2. MaxDate \in Nat \ {0}
  BY PromotionAssumption
<1>3. PromotionTypeOK
  BY <1>1, <1>2 DEF PromotionInit, PromotionTypeOK
<1>5. ~(mode \in Live \/ "gate1" \in evidence)
  BY DEF PromotionInit, Live
<1> QED BY <1>3, <1>5 DEF PromotionInv

(* One more record, of whatever day.                                       *)
LEMMA RecordDayInv ==
    ASSUME PromotionInv, NEW d \in Days, RecordDay(d)
    PROVE  PromotionInv'
<1> DEFINE r == [date |-> today, pnl |-> d.pnl, slipped |-> d.slipped]
<1>1. PromotionTypeOK /\ ((mode \in Live \/ "gate1" \in evidence) => Earned(judged))
  BY DEF PromotionInv
<1>2. r \in DayRecord
  <2>1. d.pnl \in Int /\ d.slipped \in BOOLEAN
    BY PromotionAssumption
  <2>2. today \in 1..MaxDate
    BY <1>1 DEF PromotionTypeOK
  <2> QED BY <2>1, <2>2 DEF DayRecord
<1>3. campaign' = Append(campaign, r) /\ campaign \in Seq(DayRecord)
  BY <1>1 DEF RecordDay, PromotionTypeOK
<1> HIDE DEF r
<1>6. campaign' \in Seq(DayRecord)
  BY <1>2, <1>3, AppendProperties
<1>9. UNCHANGED <<today, problems, evidence, judged, mode, restarts>>
  BY DEF RecordDay
<1>10. PromotionTypeOK'
  BY <1>1, <1>6, <1>9 DEF PromotionTypeOK
<1>11. ((mode \in Live \/ "gate1" \in evidence) => Earned(judged))'
  BY <1>1, <1>9
<1> QED BY <1>10, <1>11 DEF PromotionInv

(* The report, on the store it finds.                                      *)
LEMMA RunGate1Inv ==
    ASSUME PromotionInv, NEW days \in Seq(DayRecord), RunGate1(days)
    PROVE  PromotionInv'
<1>1. PromotionTypeOK /\ ((mode \in Live \/ "gate1" \in evidence) => Earned(judged))
  BY DEF PromotionInv
<1>2. UNCHANGED <<campaign, today, problems, mode, restarts>>
  BY DEF RunGate1
<1>4. CASE Gate1Report(days) = "GATE_1_PASS"
  <2>1. judged' = days /\ evidence' = evidence \cup {"gate1"}
    BY <1>4 DEF RunGate1, Verdict
  <2>2. judged' \in Seq(DayRecord) /\ Earned(judged')
    BY <1>4, <2>1, PassIsEarned
  <2>3. PromotionTypeOK'
    BY <1>1, <1>2, <2>1, <2>2 DEF PromotionTypeOK
  <2> QED BY <2>2, <2>3 DEF PromotionInv
<1>5. CASE Gate1Report(days) # "GATE_1_PASS"
  <2>1. judged' = judged /\ evidence' = evidence \ {"gate1"}
    BY <1>5 DEF RunGate1, Verdict
  <2>2. PromotionTypeOK'
    BY <1>1, <1>2, <2>1 DEF PromotionTypeOK
  <2>3. (mode \in Live \/ "gate1" \in evidence)' => Earned(judged)'
    BY <1>1, <1>2, <2>1
  <2> QED BY <2>2, <2>3 DEF PromotionInv
<1> QED BY <1>4, <1>5

(* The steps that neither record nor judge.                                *)
LEMMA OtherPromotionSteps ==
    ASSUME PromotionInv, UNCHANGED <<campaign, judged>>,
           today' \in 1..MaxDate, problems' \subseteq problems,
           evidence' \subseteq {"preflight", "gate1", "reconciliation", "drills"},
           mode' \in {"backtest", "paper", "shadow"} \cup Live,
           (mode' \in Live \/ "gate1" \in evidence') => (mode \in Live \/ "gate1" \in evidence)
    PROVE  PromotionInv'
<1>1. PromotionTypeOK'
  BY DEF PromotionInv, PromotionTypeOK
<1>3. (mode \in Live \/ "gate1" \in evidence)' => Earned(judged)'
  BY DEF PromotionInv
<1> QED BY <1>1, <1>3 DEF PromotionInv

LEMMA PromotionStep ==
    ASSUME PromotionInv, [PromotionNext]_promotionVars
    PROVE  PromotionInv'
<1>1. /\ PromotionTypeOK /\ campaign \in Seq(DayRecord)
      /\ today \in 1..MaxDate
      /\ evidence \subseteq {"preflight", "gate1", "reconciliation", "drills"}
      /\ mode \in {"backtest", "paper", "shadow"} \cup Live
      /\ problems \subseteq Problems
  BY DEF PromotionInv, PromotionTypeOK
<1>2. <<>> \in Seq(DayRecord)
  BY EmptySeq
<1>3. CASE UNCHANGED promotionVars
  BY <1>1, <1>3, OtherPromotionSteps DEF promotionVars
<1>4. CASE NextDay
  <2>1. today' \in 1..MaxDate
    BY <1>1, <1>4, PromotionAssumption DEF NextDay
  <2> QED BY <1>1, <1>4, <2>1, OtherPromotionSteps DEF NextDay
<1>5. CASE Restart
  <2>1. campaign' = <<>> /\ UNCHANGED <<today, problems, evidence, judged, mode>>
    BY <1>5 DEF Restart
  <2>2. PromotionTypeOK'
    BY <1>1, <1>2, <2>1 DEF PromotionTypeOK
  <2>4. (mode \in Live \/ "gate1" \in evidence)' => Earned(judged)'
    BY <2>1 DEF PromotionInv
  <2> QED BY <2>2, <2>4 DEF PromotionInv
<1>6. CASE Gate1OnStore
  BY <1>1, <1>6, RunGate1Inv DEF Gate1OnStore
<1>7. CASE Gate1Command
  BY <1>2, <1>7, RunGate1Inv DEF Gate1Command
<1>8. CASE ReconcileReport
  BY <1>1, <1>8, OtherPromotionSteps DEF ReconcileReport, Verdict
<1>9. CASE Drills
  BY <1>1, <1>9, OtherPromotionSteps DEF Drills, Verdict
<1>10. ASSUME NEW d \in Days, RecordDay(d) PROVE PromotionInv'
  BY <1>10, RecordDayInv
<1>11. ASSUME NEW p \in problems, Mend(p) PROVE PromotionInv'
  BY <1>1, <1>11, OtherPromotionSteps DEF Mend
<1>12. ASSUME NEW target \in {"paper", "shadow", "live_restricted", "live_full"},
              Preflight(target)
       PROVE  PromotionInv'
  BY <1>1, <1>12, OtherPromotionSteps DEF Preflight, Verdict
<1>13. ASSUME NEW target \in {"paper", "shadow", "live_restricted", "live_full"},
              Promote(target)
       PROVE  PromotionInv'
  <2>1. mode' = target /\ UNCHANGED <<campaign, today, problems, evidence, judged>>
    BY <1>13 DEF Promote
  <2>2. Required(target) \subseteq evidence
    BY <1>13 DEF Promote, PromoteExecutionMode
  <2>3. target \in Live => "gate1" \in evidence
    BY <2>2 DEF Required, Live
  <2>4. mode' \in {"backtest", "paper", "shadow"} \cup Live
    BY <2>1 DEF Live
  <2> QED BY <1>1, <2>1, <2>3, <2>4, OtherPromotionSteps
<1> QED BY <1>3, <1>4, <1>5, <1>6, <1>7, <1>8, <1>9, <1>10, <1>11, <1>12, <1>13
         DEF PromotionNext

(* Whatever the records, however the reports, preflights and restarts are  *)
(* interleaved: a live mode rests on a passing report whose campaign had   *)
(* enough days and records, no three bad ones in a row in the window, and a *)
(* total above the floor (promote_mode.py:48-62).                          *)
THEOREM LiveTradingIsEarned == PromotionSpec => []LiveWasEarned
<1>1. PromotionInv => LiveWasEarned
  BY DEF PromotionInv, LiveWasEarned, Earned
<1> QED BY PromotionInitInv, PromotionStep, <1>1, PTL DEF PromotionSpec

(* The campaign, what was judged of it and the mode have their types.      *)
THEOREM PromotionTypeCorrect == PromotionSpec => []PromotionTypeOK
<1>1. PromotionInv => PromotionTypeOK
  BY DEF PromotionInv
<1> QED BY PromotionInitInv, PromotionStep, <1>1, PTL DEF PromotionSpec

=============================================================================
