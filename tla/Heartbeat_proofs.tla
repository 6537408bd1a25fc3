-------------------------- MODULE Heartbeat_proofs --------------------------
(***************************************************************************)
(* Theorems about Heartbeat, for any symbols, classes, limits and          *)
(* conditions: types, entries after a defence, the bound of the heat.      *)
(***************************************************************************)
EXTENDS Heartbeat, FiniteFolds, TLAPS

\* What RawTier returns is a tier, and what EffectiveRisk returns a risk.
LEMMA RawTierIsTier ==
  ASSUME NEW c, NEW l
  PROVE  RawTier(c, l) \in Tier
BY DEF RawTier, Tier, COOLDOWN, SURVIVAL, CAUTION, NORMAL

LEMMA MinOfTwo ==
  ASSUME NEW a \in Int, NEW b \in Int
  PROVE  /\ Min({a, b}) \in {a, b}
         /\ Min({a, b}) <= a
         /\ Min({a, b}) <= b
<1>1. \E x \in {a, b} : \A y \in {a, b} : x <= y
  <2>1. CASE a <= b
    BY <2>1
  <2>2. CASE b <= a
    BY <2>2
  <2> QED
    BY <2>1, <2>2
<1> QED
  BY <1>1 DEF Min

LEMMA CappedCount ==
  ASSUME NEW n \in Nat, NEW cap \in Nat
  PROVE  Min({n + 1, cap}) \in 0..cap
<1>1. n + 1 \in Int /\ cap \in Int
  OBVIOUS
<1>2. /\ Min({n + 1, cap}) \in {n + 1, cap}
      /\ Min({n + 1, cap}) <= cap
  BY <1>1, MinOfTwo
<1> QED
  BY <1>2

LEMMA RiskIsBounded ==
  ASSUME NEW c \in Condition
  PROVE  EffectiveRisk(c) \in 0..RiskPct
<1> DEFINE weekly == IF c.weekly THEN RiskPct \div 2 ELSE RiskPct
           event  == IF c.event THEN weekly \div 2 ELSE weekly
<1>1. RiskPct \in Nat
  BY RiskAssumption
<1>2. weekly \in Nat
  BY <1>1
<1>3. event \in Nat
  BY <1>2
<1>4. c.garch \in {50, 100, 200}
  BY DEF Condition
<1>5. (event * c.garch) \div 100 \in Nat
  <2> HIDE DEF event
  <2>1. CASE c.garch = 50
    BY <1>3, <2>1
  <2>2. CASE c.garch = 100
    BY <1>3, <2>2
  <2>3. CASE c.garch = 200
    BY <1>3, <2>3
  <2> QED
    BY <1>4, <2>1, <2>2, <2>3
<1>6. EffectiveRisk(c) = Min({(event * c.garch) \div 100, RiskPct})
  BY DEF EffectiveRisk
<1> DEFINE x == (event * c.garch) \div 100
<1>7. x \in Nat /\ EffectiveRisk(c) = Min({x, RiskPct})
  BY <1>5, <1>6
<1> HIDE DEF x
<1>8. /\ Min({x, RiskPct}) \in {x, RiskPct}
      /\ Min({x, RiskPct}) <= RiskPct
  <2>1. x \in Int /\ RiskPct \in Int
    BY <1>1, <1>7
  <2> QED
    BY <2>1, MinOfTwo
<1> QED
  BY <1>1, <1>7, <1>8

-----------------------------------------------------------------------------
(* The tier and the ticks since a defence                                  *)

\* calm is at least the dwell unless a defence is on, and while it is at
\* SURVIVAL it is at least the calmer ticks counted so far.
CalmInv ==
  /\ tier < SURVIVAL => calm >= MinDwell
  /\ tier = SURVIVAL => below <= calm

Tiers ==
  /\ tier \in Tier
  /\ below \in 0..MinDwell - 1
  /\ calm \in 0..MinDwell

LEMMA EvaluateStep ==
  ASSUME Tiers, NEW raw \in Tier, Evaluate(raw)
  PROVE  /\ Tiers'
         /\ \/ raw > tier /\ tier' = raw /\ below' = 0
            \/ raw = tier /\ tier' = tier /\ below' = 0
            \/ /\ raw < tier /\ below + 1 >= MinDwell
               /\ tier' = tier - 1 /\ below' = 0
            \/ /\ raw < tier /\ below + 1 < MinDwell
               /\ tier' = tier /\ below' = below + 1
         /\ IF raw >= SURVIVAL THEN calm' = 0
            ELSE /\ calm' >= calm
                 /\ calm' = calm + 1 \/ calm' = MinDwell
<1>1. MinDwell \in Nat \ {0}
  BY HeartbeatAssumption
<1>2. /\ raw \in 0..3 /\ tier \in 0..3
      /\ below \in 0..MinDwell - 1
      /\ calm \in 0..MinDwell
  BY DEF Tiers, Tier, NORMAL, COOLDOWN
<1>3. \/ raw > tier /\ After(raw) = [tier |-> raw, below |-> 0]
      \/ raw = tier /\ After(raw) = [tier |-> tier, below |-> 0]
      \/ /\ raw < tier /\ below + 1 >= MinDwell
         /\ After(raw) = [tier |-> tier - 1, below |-> 0]
      \/ /\ raw < tier /\ below + 1 < MinDwell
         /\ After(raw) = [tier |-> tier, below |-> below + 1]
  BY <1>1, <1>2 DEF After
<1>4. tier' = After(raw).tier /\ below' = After(raw).below
  BY DEF Evaluate
<1>5. /\ \/ raw > tier /\ tier' = raw /\ below' = 0
         \/ raw = tier /\ tier' = tier /\ below' = 0
         \/ /\ raw < tier /\ below + 1 >= MinDwell
            /\ tier' = tier - 1 /\ below' = 0
         \/ /\ raw < tier /\ below + 1 < MinDwell
            /\ tier' = tier /\ below' = below + 1
      /\ tier' \in 0..3 /\ below' \in 0..MinDwell - 1
  BY <1>1, <1>2, <1>3, <1>4
<1>6. /\ IF raw >= SURVIVAL THEN calm' = 0
         ELSE /\ calm' >= calm
              /\ calm' = calm + 1 \/ calm' = MinDwell
      /\ calm' \in 0..MinDwell
  <2>1. CASE raw >= SURVIVAL
    BY <1>1, <2>1 DEF Evaluate
  <2>2. CASE ~(raw >= SURVIVAL)
    <3>1. calm' = Min({calm + 1, MinDwell})
      BY <2>2 DEF Evaluate
    <3>2. /\ Min({calm + 1, MinDwell}) \in {calm + 1, MinDwell}
          /\ Min({calm + 1, MinDwell}) <= MinDwell
      <4>1. calm + 1 \in Int /\ MinDwell \in Int
        BY <1>1, <1>2
      <4> QED
        BY <4>1, MinOfTwo
    <3> QED
      BY <1>1, <1>2, <2>2, <3>1, <3>2
  <2> QED
    BY <2>1, <2>2
<1> QED
  BY <1>5, <1>6 DEF Tiers, Tier, NORMAL, COOLDOWN

LEMMA EvaluateKeepsCalm ==
  ASSUME Tiers, CalmInv, NEW raw \in Tier, Evaluate(raw)
  PROVE  /\ tier' < SURVIVAL => calm' >= MinDwell
         /\ tier' = SURVIVAL => below' <= calm'
<1>1. MinDwell \in Nat \ {0}
  BY HeartbeatAssumption
<1>2. /\ raw \in 0..3 /\ tier \in 0..3
      /\ below \in 0..MinDwell - 1
      /\ calm \in 0..MinDwell
  BY DEF Tiers, Tier, NORMAL, COOLDOWN
<1>3. /\ tier < 2 => calm >= MinDwell
      /\ tier = 2 => below <= calm
  BY DEF CalmInv, SURVIVAL
<1>4. calm' \in 0..MinDwell
  BY EvaluateStep DEF Tiers
<1>5. /\ \/ raw > tier /\ tier' = raw /\ below' = 0
         \/ raw = tier /\ tier' = tier /\ below' = 0
         \/ /\ raw < tier /\ below + 1 >= MinDwell
            /\ tier' = tier - 1 /\ below' = 0
         \/ /\ raw < tier /\ below + 1 < MinDwell
            /\ tier' = tier /\ below' = below + 1
      /\ IF raw >= 2 THEN calm' = 0
         ELSE /\ calm' >= calm
              /\ calm' = calm + 1 \/ calm' = MinDwell
  BY EvaluateStep DEF SURVIVAL
<1> QED
  BY <1>1, <1>2, <1>3, <1>4, <1>5 DEF SURVIVAL

-----------------------------------------------------------------------------
(* The heat of a book                                                      *)

Stakes  == Symbol \X (1..RiskPct)
HeatMax == Max({MaxHeat, MaxHeatHighVol})

LEMMA StakesAreFinite == IsFiniteSet(Stakes) /\ IsFiniteSet(Symbol)
<1>1. IsFiniteSet(Symbol) /\ RiskPct \in Nat
  BY RiskAssumption
<1>2. IsFiniteSet(1..RiskPct)
  BY <1>1, FS_Interval
<1> QED
  BY <1>1, <1>2, FS_Product DEF Stakes

LEMMA AtStakeIs ==
  ASSUME NEW b \in Book, NEW s \in Symbol, NEW r \in 1..RiskPct
  PROVE  /\ AtStake(b)[<<s, r>>] = r * b[s][r]
         /\ AtStake(b)[<<s, r>>] \in Nat /\ b[s][r] \in Nat
<1>1. b[s][r] \in Nat /\ r \in Nat
  BY RiskAssumption DEF Book
<1>2. AtStake(b)[<<s, r>>] = r * b[s][r]
  BY DEF AtStake
<1>3. r * b[s][r] \in Nat
  BY <1>1
<1> QED
  BY <1>1, <1>2, <1>3

LEMMA HeatIsNat ==
  ASSUME NEW b \in Book
  PROVE  Heat(b) \in Nat
<1>1. \A x \in Stakes : AtStake(b)[x] \in Nat
  BY AtStakeIs DEF Stakes
<1>2. SumFunctionOnSet(AtStake(b), Stakes) \in Nat
  BY <1>1, StakesAreFinite, SumGrows
<1> QED
  BY <1>2 DEF Heat, RiskIn, Stakes

\* Positions that open or close in one symbol at one risk.
LEMMA HeatMoves ==
  ASSUME NEW b \in Book, NEW c \in Book, NEW s \in Symbol, NEW r \in 1..RiskPct,
         NEW d \in Int, c[s][r] = b[s][r] + d,
         \A t \in Symbol, q \in 1..RiskPct : t # s \/ q # r => c[t][q] = b[t][q]
  PROVE  Heat(c) = Heat(b) + r * d
<1> DEFINE x == <<s, r>>
           f == AtStake(b)
           g == AtStake(c)
<1>1. x \in Stakes
  BY DEF Stakes
<1>2. \A y \in Stakes : f[y] \in Int /\ g[y] \in Int
  BY AtStakeIs DEF Stakes
<1>3. \A y \in Stakes : y # x => g[y] = f[y]
  <2>1. ASSUME NEW t \in Symbol, NEW q \in 1..RiskPct, <<t, q>> # x
        PROVE  g[<<t, q>>] = f[<<t, q>>]
    <3>1. c[t][q] = b[t][q]
      BY <2>1
    <3>2. g[<<t, q>>] = q * c[t][q] /\ f[<<t, q>>] = q * b[t][q]
      BY AtStakeIs
    <3> QED
      BY <3>1, <3>2
  <2> QED
    BY <2>1 DEF Stakes
<1>4. f[x] = r * b[s][r] /\ g[x] = r * c[s][r] /\ b[s][r] \in Nat /\ c[s][r] \in Nat
  BY AtStakeIs
<1>5. Heat(b) = SumFunctionOnSet(f, Stakes) /\ Heat(c) = SumFunctionOnSet(g, Stakes)
  BY DEF Heat, RiskIn, Stakes
<1>6. Heat(b) \in Nat
  BY HeatIsNat
<1> HIDE DEF x, f, g
<1>7. SumFunctionOnSet(g, Stakes) = SumFunctionOnSet(f, Stakes) - f[x] + g[x]
  BY <1>1, <1>2, <1>3, StakesAreFinite, SumChange
<1>8. r \in Nat
  BY RiskAssumption
<1> DEFINE old == b[s][r]
<1>9. g[x] = r * old + r * d /\ f[x] = r * old /\ r * old \in Int /\ r * d \in Int
  <2>1. old \in Nat /\ g[x] = r * (old + d) /\ f[x] = r * old
    BY <1>4
  <2> HIDE DEF old
  <2> QED
    BY <1>8, <2>1
<1> HIDE DEF old
<1> QED
  BY <1>5, <1>6, <1>7, <1>9

LEMMA HeatMaxIs ==
  /\ HeatMax \in Nat
  /\ \A c \in Condition : HeatCap(c) <= HeatMax
<1>1. MaxHeat \in Nat /\ MaxHeatHighVol \in Nat
  BY RiskAssumption
<1>2. \E m \in {MaxHeat, MaxHeatHighVol} : \A y \in {MaxHeat, MaxHeatHighVol} : y <= m
  <2>1. CASE MaxHeat <= MaxHeatHighVol
    BY <1>1, <2>1
  <2>2. CASE MaxHeatHighVol <= MaxHeat
    BY <1>1, <2>2
  <2> QED
    BY <1>1, <2>1, <2>2
<1>3. /\ HeatMax \in {MaxHeat, MaxHeatHighVol}
      /\ MaxHeat <= HeatMax /\ MaxHeatHighVol <= HeatMax
  BY <1>2 DEF HeatMax, Max
<1> QED
  BY <1>1, <1>3 DEF HeatCap

\* The book with one more order of risk e in each symbol of T.
Placed(b, T, e) ==
  [s \in Symbol |-> [r \in 1..RiskPct |->
     IF s \in T /\ r = e THEN b[s][r] + 1 ELSE b[s][r]]]

LEMMA PlacedIsBook ==
  ASSUME NEW b \in Book, NEW T, NEW e
  PROVE  Placed(b, T, e) \in Book
<1>1. ASSUME NEW s \in Symbol, NEW r \in 1..RiskPct
      PROVE  (IF s \in T /\ r = e THEN b[s][r] + 1 ELSE b[s][r]) \in Nat
  <2>1. b[s][r] \in Nat
    BY AtStakeIs
  <2> QED
    BY <2>1
<1> QED
  BY <1>1 DEF Placed, Book

\* However many orders of one risk are placed, the heat grows by as many risks.
LEMMA HeatOfPlaced ==
  ASSUME NEW b \in Book, NEW e \in 1..RiskPct, NEW E \in SUBSET Symbol
  PROVE  Heat(Placed(b, E, e)) <= Heat(b) + Cardinality(Symbol) * e
<1> DEFINE Within(T) == Heat(Placed(b, T, e)) <= Heat(b) + Cardinality(T) * e
           P == {T \in SUBSET Symbol : Within(T)}
<1>1. /\ IsFiniteSet(Symbol) /\ Heat(b) \in Nat /\ e \in Nat
      /\ \A T \in SUBSET Symbol : /\ IsFiniteSet(T) /\ Cardinality(T) \in Nat
                                  /\ Placed(b, T, e) \in Book
                                  /\ Heat(Placed(b, T, e)) \in Nat
  BY StakesAreFinite, HeatIsNat, PlacedIsBook, RiskAssumption, FS_Subset,
     FS_CardinalityType
<1>2. {} \in P
  <2>1. Placed(b, {}, e) = b
    BY DEF Placed, Book
  <2>2. Cardinality({}) * e = 0
    BY <1>1, FS_EmptySet
  <2> QED
    BY <1>1, <2>1, <2>2
<1>3. ASSUME NEW T \in SUBSET Symbol, NEW s \in T, T \ {s} \in P
      PROVE  T \in P
  <2> DEFINE U == T \ {s}
             old == Placed(b, U, e)
             new == Placed(b, T, e)
             n == Cardinality(U)
  <2>1. old \in Book /\ new \in Book /\ s \in Symbol /\ Heat(old) \in Nat
        /\ n \in Nat /\ U \in SUBSET Symbol
    BY <1>1
  <2>2. /\ new[s][e] = old[s][e] + 1
        /\ \A t \in Symbol, q \in 1..RiskPct : t # s \/ q # e => new[t][q] = old[t][q]
    BY DEF Placed
  <2>3. Heat(old) <= Heat(b) + n * e
    BY <1>3
  <2>4. Cardinality(T) = n + 1
    <3>1. IsFiniteSet(T) /\ Cardinality(T) \in Nat
      BY <1>1
    <3>2. Cardinality(U) = Cardinality(T) - 1
      BY <3>1, FS_RemoveElement
    <3> QED
      BY <3>1, <3>2
  <2> HIDE DEF U, old, new, n
  <2>5. Heat(new) = Heat(old) + e * 1
    BY <2>1, <2>2, HeatMoves
  <2>6. (n + 1) * e = n * e + e /\ n * e \in Nat
    BY <1>1, <2>1
  <2>7. Heat(new) <= Heat(b) + (n + 1) * e
    BY <1>1, <2>1, <2>3, <2>5, <2>6
  <2> QED
    BY <2>4, <2>7 DEF new
<1>4. \A T \in SUBSET Symbol : T \in P
  <2> HIDE DEF P
  <2> QED
    BY <1>1, <1>2, <1>3, ElementInduction
<1>5. Heat(Placed(b, E, e)) <= Heat(b) + Cardinality(E) * e
  BY <1>4
<1>6. /\ Cardinality(E) <= Cardinality(Symbol)
      /\ Cardinality(E) \in Nat /\ Cardinality(Symbol) \in Nat
  BY <1>1, FS_Subset, FS_CardinalityType
<1>7. Cardinality(E) * e <= Cardinality(Symbol) * e
      /\ Cardinality(E) * e \in Nat /\ Cardinality(Symbol) * e \in Nat
  <2> DEFINE m == Cardinality(E)
             n == Cardinality(Symbol)
  <2>1. m \in Nat /\ n \in Nat /\ m <= n /\ e \in Nat
    BY <1>1, <1>6
  <2> HIDE DEF m, n
  <2>2. m * e <= n * e /\ m * e \in Nat /\ n * e \in Nat
    BY <2>1
  <2> QED
    BY <2>2 DEF m, n
<1>8. Heat(Placed(b, E, e)) \in Nat
  BY <1>1
<1> QED
  BY <1>1, <1>5, <1>7, <1>8

-----------------------------------------------------------------------------
(* The orders, the book and the account                                    *)

AccountTypes ==
  /\ fed \subseteq Symbol
  /\ orders \in Book
  /\ book \in Book
  /\ losses \in [Class -> 0..LossLimit]
  /\ since \in [Class -> 0..CooldownHours]
  /\ unseen \in Nat

Typed == Tiers /\ AccountTypes

\* The orders that are still to be filled count as if they were.
HeatInv ==
  Heat(book) + Heat(orders) <=
    HeatMax + (Cardinality(Symbol) - 1) * RiskPct + unseen

\* What a tick places, on top of what is not settled.
LEMMA TickPlaces ==
  ASSUME NEW c \in Conditions, NEW signal \in [Symbol -> Signal], Tick(c, signal)
  PROVE  /\ orders' = Placed(orders, Entries(c, signal, tier'), EffectiveRisk(c))
         /\ unseen' = IF Entries(c, signal, tier') = {} THEN unseen ELSE Heat(orders)
         /\ UNCHANGED <<fed, book, losses, since>>
         /\ Entries(c, signal, tier') \in SUBSET Symbol
         /\ Entries(c, signal, tier') # {} =>
              /\ tier' < SURVIVAL
              /\ EffectiveRisk(c) \in 1..RiskPct
              /\ Heat(book) + EffectiveRisk(c) <= HeatCap(c)
<1>1. c \in Condition
  BY HeartbeatAssumption
<1>2. EffectiveRisk(c) \in 0..RiskPct /\ RiskPct \in Nat
  BY <1>1, RiskIsBounded, RiskAssumption
<1>3. orders' = Placed(orders, Entries(c, signal, tier'), EffectiveRisk(c))
  BY DEF Tick, Place, Placed
<1>4. /\ unseen' = IF Entries(c, signal, tier') = {} THEN unseen ELSE Heat(orders)
      /\ UNCHANGED <<fed, book, losses, since>>
  BY DEF Tick, Place, account
<1>5. ASSUME NEW s \in Entries(c, signal, tier')
      PROVE  /\ tier' < SURVIVAL
             /\ EffectiveRisk(c) > 0
             /\ Heat(book) + EffectiveRisk(c) <= HeatCap(c)
  BY DEF Entries, Approves
<1>6. Entries(c, signal, tier') \in SUBSET Symbol
  BY DEF Entries
<1> HIDE DEF Entries
<1> QED
  BY <1>2, <1>3, <1>4, <1>5, <1>6

LEMMA TickStep ==
  ASSUME Typed, CalmInv, NEW c \in Conditions,
         NEW signal \in [Symbol -> Signal],
         TickWithoutData(c) \/ Tick(c, signal)
  PROVE  Typed' /\ CalmInv'
<1>1. PICK raw \in Tier : Evaluate(raw)
  BY RawTierIsTier DEF TickWithoutData, Tick
<1>2. /\ Tiers'
      /\ tier' < SURVIVAL => calm' >= MinDwell
      /\ tier' = SURVIVAL => below' <= calm'
  BY <1>1, EvaluateStep, EvaluateKeepsCalm DEF Typed
<1>3. /\ fed' = fed /\ book' = book /\ losses' = losses /\ since' = since
      /\ orders' \in Book /\ unseen' \in Nat
  <2>1. CASE TickWithoutData(c)
    BY <2>1 DEF TickWithoutData, account, Typed, AccountTypes
  <2>2. CASE Tick(c, signal)
    <3>1. orders \in Book /\ unseen \in Nat /\ Heat(orders) \in Nat
      BY HeatIsNat DEF Typed, AccountTypes
    <3>2. orders' = Placed(orders, Entries(c, signal, tier'), EffectiveRisk(c))
          /\ unseen' \in {unseen, Heat(orders)}
          /\ UNCHANGED <<fed, book, losses, since>>
      BY <2>2, TickPlaces
    <3> QED
      BY <3>1, <3>2, PlacedIsBook
  <2> QED
    BY <2>1, <2>2
<1> QED
  BY <1>2, <1>3 DEF Typed, AccountTypes, CalmInv

\* One position or order more or less.
LEMMA BookMoves ==
  ASSUME NEW b \in Book, NEW s \in Symbol, NEW r \in 1..RiskPct, NEW n \in Nat
  PROVE  [b EXCEPT ![s][r] = n] \in Book
BY DEF Book

LEMMA OutsideStep ==
  ASSUME Typed, CalmInv, NEW s \in Symbol,
         \/ HourPasses \/ FeedMarketData(s)
         \/ \E r \in 1..RiskPct :
              OrderFills(s, r) \/ OrderLapses(s, r) \/ PositionCloses(s, r)
  PROVE  Typed' /\ CalmInv'
<1>1. UNCHANGED <<tier, below, calm>>
  BY DEF HourPasses, FeedMarketData, OrderFills, OrderLapses, PositionCloses,
         survival
<1>2. Tiers' /\ CalmInv'
  BY <1>1 DEF Typed, Tiers, CalmInv
<1>3. AccountTypes'
  <2>1. /\ RiskPct \in Nat /\ LossLimit \in Nat /\ CooldownHours \in Nat
        /\ ClassOf[s] \in Class
    BY RiskAssumption
  <2> DEFINE o(r) == orders[s][r]
             b(r) == book[s][r]
  <2>0. \A r \in 1..RiskPct : o(r) \in Nat /\ b(r) \in Nat
    BY AtStakeIs DEF Typed, AccountTypes
  <2>2. CASE HourPasses
    <3>1. \A k \in Class : Min({since[k] + 1, CooldownHours}) \in 0..CooldownHours
      BY <2>1, CappedCount DEF Typed, AccountTypes
    <3> QED
      BY <2>2, <3>1 DEF HourPasses, Typed, AccountTypes, survival
  <2>3. CASE FeedMarketData(s)
    BY <2>1, <2>3 DEF FeedMarketData, Typed, AccountTypes, survival, account
  <2>4. ASSUME NEW r \in 1..RiskPct, OrderLapses(s, r)
        PROVE  AccountTypes'
    <3>1. /\ o(r) > 0
          /\ orders' = [orders EXCEPT ![s][r] = o(r) - 1]
      BY <2>4 DEF OrderLapses
    <3>2. orders' \in Book
      <4> HIDE DEF o
      <4>1. o(r) - 1 \in Nat /\ orders \in Book
        BY <2>0, <3>1 DEF Typed, AccountTypes
      <4> QED
        BY <3>1, <4>1, BookMoves
    <3> QED
      BY <2>4, <3>2 DEF OrderLapses, Typed, AccountTypes, survival, account
  <2>5. ASSUME NEW r \in 1..RiskPct, OrderFills(s, r)
        PROVE  AccountTypes'
    <3>1. /\ o(r) > 0
          /\ orders' = [orders EXCEPT ![s][r] = o(r) - 1]
          /\ book' = [book EXCEPT ![s][r] = b(r) + 1]
      BY <2>5 DEF OrderFills
    <3>2. orders' \in Book /\ book' \in Book
      <4> HIDE DEF o, b
      <4>1. o(r) - 1 \in Nat /\ b(r) + 1 \in Nat /\ orders \in Book /\ book \in Book
        BY <2>0, <3>1 DEF Typed, AccountTypes
      <4> QED
        BY <3>1, <4>1, BookMoves
    <3> QED
      BY <2>5, <3>2 DEF OrderFills, Typed, AccountTypes, survival
  <2>6. ASSUME NEW r \in 1..RiskPct, PositionCloses(s, r)
        PROVE  AccountTypes'
    <3>1. b(r) > 0 /\ book' = [book EXCEPT ![s][r] = b(r) - 1]
      BY <2>6 DEF PositionCloses
    <3>2. book' \in Book
      <4> HIDE DEF b
      <4>1. b(r) - 1 \in Nat /\ book \in Book
        BY <2>0, <3>1 DEF Typed, AccountTypes
      <4> QED
        BY <3>1, <4>1, BookMoves
    <3>3. Min({losses[ClassOf[s]] + 1, LossLimit}) \in 0..LossLimit
      BY <2>1, CappedCount DEF Typed, AccountTypes
    <3>4. /\ losses' \in [Class -> 0..LossLimit]
          /\ since' \in [Class -> 0..CooldownHours]
      BY <2>1, <2>6, <3>3 DEF PositionCloses, Typed, AccountTypes
    <3> QED
      BY <2>6, <3>2, <3>4 DEF PositionCloses, Typed, AccountTypes
  <2> QED
    BY <2>2, <2>3, <2>4, <2>5, <2>6
<1> QED
  BY <1>2, <1>3 DEF Typed

LEMMA NextKeeps ==
  ASSUME Typed, CalmInv, [Next]_vars
  PROVE  Typed' /\ CalmInv'
<1>1. CASE AnyTick
  <2>1. PICK c \in Conditions :
          \/ TickWithoutData(c)
          \/ \E signal \in [Symbol -> Signal] : Tick(c, signal)
    BY <1>1 DEF AnyTick
  <2>2. [s \in Symbol |-> "none"] \in [Symbol -> Signal]
    BY DEF Signal
  <2> QED
    BY <2>1, <2>2, TickStep
<1>2. CASE HourPasses
  BY <1>2, OutsideStep, HeartbeatAssumption
<1>3. ASSUME NEW s \in Symbol,
             \/ FeedMarketData(s)
             \/ \E r \in 1..RiskPct :
                  OrderFills(s, r) \/ OrderLapses(s, r) \/ PositionCloses(s, r)
      PROVE  Typed' /\ CalmInv'
  BY <1>3, OutsideStep
<1>4. CASE UNCHANGED vars
  BY <1>4 DEF vars, survival, account, Typed, Tiers, AccountTypes, CalmInv
<1> QED
  BY <1>1, <1>2, <1>3, <1>4 DEF Next

LEMMA InitHolds == Init => Typed /\ CalmInv
<1> SUFFICES ASSUME Init PROVE Typed /\ CalmInv
  OBVIOUS
<1>1. MinDwell \in Nat \ {0} /\ RiskPct \in Nat /\ LossLimit \in Nat
      /\ CooldownHours \in Nat
  BY HeartbeatAssumption, RiskAssumption
<1>2. Tiers
  BY <1>1 DEF Init, Tiers, Tier, NORMAL, COOLDOWN
<1>3. AccountTypes
  BY <1>1 DEF Init, AccountTypes, NoPositions, Book
<1> QED
  BY <1>1, <1>2, <1>3 DEF Typed, CalmInv, Init, NORMAL, SURVIVAL

LEMMA Invariance == Spec => [](Typed /\ CalmInv)
<1>1. Typed /\ CalmInv /\ [Next]_vars => (Typed /\ CalmInv)'
  BY NextKeeps
<1> QED
  BY <1>1, InitHolds, PTL DEF Spec

\* The tier, the account and the orders of the daemon stay in their types.
THEOREM TypeCorrect == Spec => []TypeOK
<1>1. Typed => TypeOK
  BY DEF Typed, Tiers, AccountTypes, TypeOK
<1> QED
  BY <1>1, Invariance, PTL

\* Only a tick approves, and only in a tier below SURVIVAL.
LEMMA EntersInTick ==
  ASSUME Typed, CalmInv', [Next]_vars, NEW s \in Symbol, Enters(s)
  PROVE  calm' >= MinDwell
<1>1. PICK r \in 1..RiskPct : orders'[s][r] > orders[s][r]
  BY DEF Enters
<1>2. orders \in Book /\ orders[s][r] \in Nat
  BY AtStakeIs DEF Typed, AccountTypes
<1>3. ASSUME NEW c \in Conditions, NEW signal \in [Symbol -> Signal], Tick(c, signal)
      PROVE  calm' >= MinDwell
  <2>1. Entries(c, signal, tier') # {}
    <3>1. orders' = Placed(orders, Entries(c, signal, tier'), EffectiveRisk(c))
      BY <1>3, TickPlaces
    <3>2. Entries(c, signal, tier') = {} => orders'[s][r] = orders[s][r]
      BY <3>1 DEF Placed
    <3> QED
      BY <1>1, <1>2, <3>2
  <2>2. tier' < SURVIVAL
    BY <1>3, <2>1, TickPlaces
  <2> QED
    BY <2>2 DEF CalmInv
<1>4. ASSUME NEW t \in Symbol, NEW q \in 1..RiskPct,
             OrderFills(t, q) \/ OrderLapses(t, q)
      PROVE  FALSE
  <2>1. orders' = [orders EXCEPT ![t][q] = orders[t][q] - 1] /\ orders[t][q] \in Nat
    BY <1>2, <1>4, AtStakeIs DEF OrderFills, OrderLapses
  <2>2. orders'[s][r] \in {orders[s][r], orders[s][r] - 1}
    BY <1>2, <2>1 DEF Book
  <2> QED
    BY <1>1, <1>2, <2>2
<1>5. orders' # orders
  BY <1>1, <1>2
<1> QED
  BY <1>3, <1>4, <1>5 DEF Next, AnyTick, TickWithoutData, HourPasses,
     FeedMarketData, PositionCloses, vars, account

\* No entry is approved before the dwell has passed in ticks that ask for no
\* capital defence, whatever the account goes through in between.
THEOREM DefenceIsWaitedOut == Spec => EntriesWaitOutDefence
<1>1. ASSUME Typed, CalmInv', [Next]_vars
      PROVE  [(\E s \in Symbol : Enters(s)) => calm' >= MinDwell]_vars
  BY <1>1, EntersInTick
<1> QED
  BY <1>1, Invariance, PTL DEF Spec, EntriesWaitOutDefence

-----------------------------------------------------------------------------
(* The bound of the heat                                                   *)

\* All the orders of a tick are judged against the same heat, which has nothing
\* of what was not settled.
LEMMA TickKeepsHeat ==
  ASSUME AccountTypes, HeatInv, NEW c \in Conditions,
         NEW signal \in [Symbol -> Signal], Tick(c, signal)
  PROVE  HeatInv'
<1> DEFINE n == Cardinality(Symbol)
           e == EffectiveRisk(c)
           h == Heat(book)
           o == Heat(orders)
           E == Entries(c, signal, tier')
<1>1. /\ orders' = Placed(orders, E, e)
      /\ unseen' = IF E = {} THEN unseen ELSE o
      /\ book' = book
      /\ E \in SUBSET Symbol
      /\ E # {} => e \in 1..RiskPct /\ h + e <= HeatCap(c)
  BY TickPlaces
<1>2. h \in Nat /\ o \in Nat /\ orders \in Book /\ unseen \in Nat
  BY HeatIsNat DEF AccountTypes
<1>3. n \in Nat /\ n > 0
  <2>1. IsFiniteSet(Symbol) /\ n \in Nat
    BY StakesAreFinite, FS_CardinalityType
  <2> QED
    BY <2>1, FS_EmptySet, HeartbeatAssumption
<1>4. HeatCap(c) \in Int /\ HeatCap(c) <= HeatMax /\ HeatMax \in Nat /\ RiskPct \in Nat
  BY RiskAssumption, HeatMaxIs, HeartbeatAssumption DEF HeatCap
<1>5. HeatInv' <=> h + Heat(orders') <= HeatMax + (n - 1) * RiskPct + unseen'
  BY <1>1 DEF HeatInv, HeatMax
<1>6. CASE E = {}
  <2>1. Placed(orders, {}, e) = orders
    BY <1>2 DEF Placed, Book
  <2>2. orders' = orders /\ unseen' = unseen
    BY <1>1, <1>6, <2>1
  <2> QED
    BY <1>5, <2>2 DEF HeatInv
<1>7. CASE E # {}
  <2>1. /\ Heat(orders') <= o + n * e
        /\ e \in 1..RiskPct /\ h + e <= HeatCap(c) /\ unseen' = o
    <3> HIDE DEF E, e, n, o, h
    <3>1. e \in 1..RiskPct /\ h + e <= HeatCap(c) /\ unseen' = o
      BY <1>1, <1>7
    <3>2. Heat(Placed(orders, E, e)) <= Heat(orders) + Cardinality(Symbol) * e
      BY <1>1, <1>2, <3>1, HeatOfPlaced
    <3> QED
      BY <1>1, <3>1, <3>2 DEF n, o
  <2>2. Heat(orders') \in Nat
    BY <1>1, <1>2, PlacedIsBook, HeatIsNat
  <2> HIDE DEF E, e, n, o, h
  <2>3. (n - 1) * e <= (n - 1) * RiskPct /\ n * e = (n - 1) * e + e
        /\ (n - 1) * e \in Int /\ (n - 1) * RiskPct \in Int
    BY <1>3, <1>4, <2>1
  <2>4. h + Heat(orders') <= h + o + (n - 1) * e + e
    BY <1>2, <2>1, <2>2, <2>3
  <2>5. h + e <= HeatMax
    BY <1>2, <1>4, <2>1
  <2>6. h + Heat(orders') <= HeatMax + (n - 1) * RiskPct + o
    BY <1>2, <1>4, <2>1, <2>2, <2>3, <2>4, <2>5
  <2> QED
    BY <1>5, <2>1, <2>6
<1> QED
  BY <1>6, <1>7

LEMMA OutsideKeepsHeat ==
  ASSUME AccountTypes, AccountTypes', HeatInv, NEW s \in Symbol, NEW r \in 1..RiskPct,
         OrderFills(s, r) \/ OrderLapses(s, r) \/ PositionCloses(s, r)
  PROVE  HeatInv'
<1> DEFINE top == HeatMax + (Cardinality(Symbol) - 1) * RiskPct + unseen
<1>1. /\ book \in Book /\ book' \in Book /\ orders \in Book /\ orders' \in Book
      /\ Heat(book) \in Nat /\ Heat(book') \in Nat
      /\ Heat(orders) \in Nat /\ Heat(orders') \in Nat /\ r \in Nat
  BY HeatIsNat, RiskAssumption DEF AccountTypes
<1>2. top \in Int /\ Heat(book) + Heat(orders) <= top
  <2>1. Cardinality(Symbol) \in Nat /\ RiskPct \in Nat /\ HeatMax \in Nat /\ unseen \in Nat
    BY StakesAreFinite, FS_CardinalityType, RiskAssumption, HeatMaxIs DEF AccountTypes
  <2>2. (Cardinality(Symbol) - 1) * RiskPct \in Int
    BY <2>1
  <2> QED
    BY <2>1, <2>2 DEF HeatInv
<1>3. HeatInv' <=> Heat(book') + Heat(orders') <= top
  BY DEF HeatInv, HeatMax, OrderFills, OrderLapses, PositionCloses
<1> HIDE DEF top
<1>4. ASSUME NEW b \in Book, NEW c \in Book, c = [b EXCEPT ![s][r] = @ - 1]
      PROVE  Heat(c) = Heat(b) + r * (-1)
  <2>1. /\ c[s][r] = b[s][r] + (-1)
        /\ \A t \in Symbol, q \in 1..RiskPct : t # s \/ q # r => c[t][q] = b[t][q]
    BY <1>4 DEF Book
  <2> QED
    BY <2>1, HeatMoves
<1>5. ASSUME NEW b \in Book, NEW c \in Book, c = [b EXCEPT ![s][r] = @ + 1]
      PROVE  Heat(c) = Heat(b) + r * 1
  <2>1. /\ c[s][r] = b[s][r] + 1
        /\ \A t \in Symbol, q \in 1..RiskPct : t # s \/ q # r => c[t][q] = b[t][q]
    BY <1>5 DEF Book
  <2> QED
    BY <2>1, HeatMoves
<1>6. CASE OrderFills(s, r)
  <2>1. /\ orders' = [orders EXCEPT ![s][r] = @ - 1]
        /\ book' = [book EXCEPT ![s][r] = @ + 1]
    BY <1>6 DEF OrderFills
  <2>2. Heat(orders') = Heat(orders) + r * (-1) /\ Heat(book') = Heat(book) + r * 1
    BY <1>1, <1>4, <1>5, <2>1
  <2> QED
    BY <1>1, <1>2, <1>3, <2>2
<1>7. CASE OrderLapses(s, r)
  <2>1. orders' = [orders EXCEPT ![s][r] = @ - 1] /\ book' = book
    BY <1>7 DEF OrderLapses, account
  <2>2. Heat(orders') = Heat(orders) + r * (-1)
    BY <1>1, <1>4, <2>1
  <2> QED
    BY <1>1, <1>2, <1>3, <2>1, <2>2
<1>8. CASE PositionCloses(s, r)
  <2>1. book' = [book EXCEPT ![s][r] = @ - 1] /\ orders' = orders
    BY <1>8 DEF PositionCloses
  <2>2. Heat(book') = Heat(book) + r * (-1)
    BY <1>1, <1>4, <2>1
  <2> QED
    BY <1>1, <1>2, <1>3, <2>1, <2>2
<1> QED
  BY <1>6, <1>7, <1>8

LEMMA NothingAtStake == NoPositions \in Book /\ Heat(NoPositions) = 0
<1>1. NoPositions \in Book
  BY DEF NoPositions, Book
<1>2. SumFunctionOnSet(AtStake(NoPositions), Stakes) <= Cardinality(Stakes) * 0
  <2>1. \A x \in Stakes : AtStake(NoPositions)[x] \in Nat /\ AtStake(NoPositions)[x] <= 0
    <3>1. ASSUME NEW s \in Symbol, NEW r \in 1..RiskPct
          PROVE  AtStake(NoPositions)[<<s, r>>] = 0
      <4>1. AtStake(NoPositions)[<<s, r>>] = r * NoPositions[s][r] /\ NoPositions[s][r] = 0
        BY <1>1, AtStakeIs DEF NoPositions
      <4>2. r \in Nat
        BY RiskAssumption
      <4> QED
        BY <4>1, <4>2
    <3> QED
      BY <3>1 DEF Stakes
  <2>2. 0 \in Nat
    OBVIOUS
  <2> QED
    BY <2>1, <2>2, StakesAreFinite, SumWithin
<1>3. Cardinality(Stakes) \in Nat
  BY StakesAreFinite, FS_CardinalityType
<1>4. Heat(NoPositions) \in Nat /\ Heat(NoPositions) <= 0
  BY <1>1, <1>2, <1>3, HeatIsNat DEF Heat, RiskIn, Stakes
<1> QED
  BY <1>1, <1>4

LEMMA HeatInvHolds == Spec => []HeatInv
<1>1. Init => HeatInv
  <2> SUFFICES ASSUME Init PROVE HeatInv
    OBVIOUS
  <2>1. Heat(book) = 0 /\ Heat(orders) = 0 /\ unseen = 0
    BY NothingAtStake DEF Init
  <2>2. Cardinality(Symbol) \in Nat /\ Cardinality(Symbol) # 0 /\ RiskPct \in Nat
        /\ HeatMax \in Nat
    BY StakesAreFinite, FS_CardinalityType, FS_EmptySet, RiskAssumption, HeatMaxIs,
       HeartbeatAssumption
  <2>3. (Cardinality(Symbol) - 1) * RiskPct \in Nat
    <3>1. Cardinality(Symbol) - 1 \in Nat
      BY <2>2
    <3> QED
      BY <2>2, <3>1
  <2> QED
    BY <2>1, <2>2, <2>3 DEF HeatInv
<1>2. ASSUME Typed, Typed', HeatInv, [Next]_vars PROVE HeatInv'
  <2>1. AccountTypes /\ AccountTypes'
    BY <1>2 DEF Typed
  <2>2. ASSUME NEW c \in Conditions, NEW signal \in [Symbol -> Signal], Tick(c, signal)
        PROVE HeatInv'
    BY <1>2, <2>1, <2>2, TickKeepsHeat
  <2>3. CASE UNCHANGED <<orders, book, unseen>>
    <3>1. HeatInv' <=> HeatInv
      BY <2>3 DEF HeatInv, HeatMax
    <3> QED
      BY <1>2, <3>1
  <2>4. ASSUME NEW s \in Symbol, NEW r \in 1..RiskPct,
               OrderFills(s, r) \/ OrderLapses(s, r) \/ PositionCloses(s, r)
        PROVE  HeatInv'
    BY <1>2, <2>1, <2>4, OutsideKeepsHeat
  <2>5. CASE UNCHANGED vars
    BY <2>3, <2>5 DEF vars, account
  <2>6. CASE Next
    <3>1. \/ UNCHANGED <<orders, book, unseen>>
          \/ \E c \in Conditions, signal \in [Symbol -> Signal] : Tick(c, signal)
          \/ \E s \in Symbol, r \in 1..RiskPct :
               OrderFills(s, r) \/ OrderLapses(s, r) \/ PositionCloses(s, r)
      BY <2>6 DEF Next, AnyTick, TickWithoutData, HourPasses, FeedMarketData, account
    <3> QED
      BY <2>2, <2>3, <2>4, <3>1
  <2> QED
    BY <1>2, <2>5, <2>6
<1>3. Typed /\ Typed' /\ HeatInv /\ [Next]_vars => HeatInv'
  BY <1>2
<1> QED
  BY <1>1, <1>3, Invariance, PTL DEF Spec

\* However many symbols there are, whatever they risk and whenever their orders
\* are settled, the heat exceeds the cap by no more than the risk of every symbol
\* but one and what no account showed when the last entry was approved.
THEOREM OvershootIsBounded == Spec => []OvershootBounded
<1>1. Typed /\ HeatInv => OvershootBounded
  <2> SUFFICES ASSUME Typed, HeatInv PROVE OvershootBounded
    OBVIOUS
  <2>1. Heat(book) \in Nat /\ Heat(orders) \in Nat
    BY HeatIsNat DEF Typed, AccountTypes
  <2> DEFINE top == HeatMax + (Cardinality(Symbol) - 1) * RiskPct + unseen
  <2>2. top \in Int /\ Heat(book) + Heat(orders) <= top
    <3>1. Cardinality(Symbol) \in Nat /\ RiskPct \in Nat /\ HeatMax \in Nat /\ unseen \in Nat
      BY StakesAreFinite, FS_CardinalityType, RiskAssumption, HeatMaxIs
      DEF Typed, AccountTypes
    <3> QED
      BY <3>1 DEF HeatInv
  <2>3. OvershootBounded <=> Heat(book) <= top
    BY DEF OvershootBounded, HeatMax
  <2> HIDE DEF top
  <2> QED
    BY <2>1, <2>2, <2>3
<1> QED
  BY <1>1, HeatInvHolds, Invariance, PTL
=============================================================================
