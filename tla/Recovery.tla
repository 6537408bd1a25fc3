------------------------------ MODULE Recovery ------------------------------
(***************************************************************************)
(* What compares the local positions with the venue's:                     *)
(* StateReconciler (src/src/trading/execution/reconciler.py) and           *)
(* StateRecoveryEngine (src/src/trading/infrastructure/state_recovery.py), *)
(* while orders execute at the venue and their fills reach the local side  *)
(* later or never.                                                         *)
(*                                                                         *)
(* Both read the key "symbol" of a venue position.  The mock and the       *)
(* synthetic venue write it; CcxtLiveAdapter.fetch_positions writes "asset"*)
(* and "size" instead.  Which one answers is chosen in RecoveryInit.       *)
(***************************************************************************)
EXTENDS Integers, FiniteSets, FiniteSetsExt

CONSTANTS
    Held,           \* assets
    MaxHeld,        \* bound: the largest position, in fractions of a unit
    Unit,           \* how many of those fractions are the quantity 1.0
    MaxLost         \* bound: fill messages lost for good

ASSUME RecoveryAssumption ==
    /\ MaxHeld \in Nat /\ Unit \in Nat \ {0} /\ MaxLost \in Nat

VARIABLES
    keyed,          \* do the adapter's positions carry "symbol"
    venueQty,       \* the venue's positions
    localQty,       \* the local positions
    unheard,        \* fills on their way to the local side, of each asset
    unsent,         \* fills lost so far
    quarantine,     \* the item_ids in quarantine_items, a list that is only added to
    cycle,          \* reconcile_once: running or not, and its argument
    recovery,       \* recover_state: where it is, its argument, what it fetched
    result,         \* StateRecoveryResult of the last recovery
    moved           \* for the properties: assets that moved since the cycle began

recoveryVars == <<keyed, venueQty, localQty, unheard, unsent, quarantine, cycle, recovery, result, moved>>

Quantities == [Held -> 0..MaxHeld]
Items == Held \cup {"venue_connectivity"}

RecoveryTypeOK ==
    /\ keyed \in BOOLEAN
    /\ venueQty \in Quantities /\ localQty \in Quantities
    /\ unheard \in [Held -> -MaxHeld..MaxHeld] /\ unsent \in 0..MaxLost
    /\ quarantine \subseteq Items
    /\ cycle \in [running : BOOLEAN, local : Quantities]
    /\ recovery \in [pc : {"idle", "positions", "orders"}, local : Quantities, venue : Quantities]
    /\ result \in [mismatched : SUBSET Held, flatten : BOOLEAN, exits : SUBSET Held]
    /\ moved \subseteq Held

Zero == [a \in Held |-> 0]
NoResult == [mismatched |-> {}, flatten |-> FALSE, exits |-> {}]

RecoveryInit ==
    /\ keyed \in BOOLEAN
    /\ venueQty \in Quantities /\ localQty \in Quantities
    /\ unheard = Zero /\ unsent = 0
    /\ quarantine = {}
    /\ cycle = [running |-> FALSE, local |-> Zero]
    /\ recovery = [pc |-> "idle", local |-> Zero, venue |-> Zero]
    /\ result = NoResult /\ moved = {}

----------------------------------------------------------------------------
(* The world.                                                              *)

VenueExecutes(a, d) ==
    /\ venueQty[a] + d \in 0..MaxHeld
    /\ venueQty' = [venueQty EXCEPT ![a] = @ + d]
    /\ \/ unheard[a] + d \in -MaxHeld..MaxHeld
          /\ unheard' = [unheard EXCEPT ![a] = @ + d] /\ unsent' = unsent
       \/ unsent < MaxLost /\ unsent' = unsent + 1 /\ unheard' = unheard
    /\ localQty' = localQty /\ moved' = IF cycle.running THEN moved \cup {a} ELSE {}
    /\ UNCHANGED <<keyed, quarantine, cycle, recovery, result>>

LocalHears(a) ==
    /\ unheard[a] # 0 /\ localQty[a] + unheard[a] \in 0..MaxHeld
    /\ localQty' = [localQty EXCEPT ![a] = @ + unheard[a]]
    /\ unheard' = [unheard EXCEPT ![a] = 0]
    /\ venueQty' = venueQty /\ moved' = IF cycle.running THEN moved \cup {a} ELSE {}
    /\ UNCHANGED <<keyed, unsent, quarantine, cycle, recovery, result>>

----------------------------------------------------------------------------
(* reconcile_once                                                          *)

(* The positions of fetch_positions, as the reconciler maps them.          *)
ExMap == IF keyed THEN venueQty ELSE Zero

(* A bug: only the assets of the venue's answer are compared.              *)
ComparedAtVenue == {a \in Held : ExMap[a] # 0 /\ cycle.local[a] # ExMap[a]}

Compared == {a \in Held : cycle.local[a] # ExMap[a]}

Add(items) == quarantine' = quarantine \cup items

(* Its caller passes the local positions; then the venue is awaited.       *)
ReconcileOnce ==
    /\ ~cycle.running
    /\ cycle' = [running |-> TRUE, local |-> localQty]
    /\ moved' = {}
    /\ UNCHANGED <<keyed, venueQty, localQty, unheard, unsent, quarantine, recovery, result>>

Reconciled ==
    /\ cycle.running
    /\ cycle' = [running |-> FALSE, local |-> Zero] /\ moved' = {}
    /\ Add(Compared)
    /\ UNCHANGED <<keyed, venueQty, localQty, unheard, unsent, recovery, result>>

FetchFails ==
    /\ cycle.running
    /\ cycle' = [running |-> FALSE, local |-> Zero] /\ moved' = {}
    /\ Add({"venue_connectivity"})
    /\ UNCHANGED <<keyed, venueQty, localQty, unheard, unsent, recovery, result>>

HasQuarantine == quarantine # {}

ClearQuarantine ==
    /\ HasQuarantine
    /\ quarantine' = {}
    /\ UNCHANGED <<keyed, venueQty, localQty, unheard, unsent, cycle, recovery, result, moved>>

----------------------------------------------------------------------------
(* recover_state: two fetches, of which only the first is used.            *)

RecoverState ==
    /\ recovery.pc = "idle"
    /\ recovery' = [pc |-> "positions", local |-> localQty, venue |-> Zero]
    /\ UNCHANGED <<keyed, venueQty, localQty, unheard, unsent, quarantine, cycle, result, moved>>

RecoverPositions ==
    /\ recovery.pc = "positions"
    /\ recovery' = [recovery EXCEPT !.pc = "orders", !.venue = ExMap]
    /\ UNCHANGED <<keyed, venueQty, localQty, unheard, unsent, quarantine, cycle, result, moved>>

Delta(a) == LET d == recovery.venue[a] - recovery.local[a] IN IF d < 0 THEN -d ELSE d

(* The largest difference against half the largest venue position, taken   *)
(* as at least one unit, and over different assets.                        *)
Severe ==
    LET maxDelta == Max({Delta(a) : a \in Held})
        maxVenue == Max({recovery.venue[a] : a \in Held} \cup {Unit})
    IN  2 * maxDelta > maxVenue

RecoverOrders ==
    /\ recovery.pc = "orders"
    /\ recovery' = [pc |-> "idle", local |-> Zero, venue |-> Zero]
    /\ LET wrong == {a \in Held : Delta(a) > 0}
           flatten == wrong # {} /\ Severe
       IN  result' = [mismatched |-> wrong, flatten |-> flatten,
                      exits |-> IF flatten THEN wrong ELSE {}]
    /\ UNCHANGED <<keyed, venueQty, localQty, unheard, unsent, quarantine, cycle, moved>>

RecoveryNext ==
    \/ \E a \in Held, d \in {-1, 1} : VenueExecutes(a, d)
    \/ \E a \in Held : LocalHears(a)
    \/ ReconcileOnce \/ Reconciled \/ FetchFails \/ ClearQuarantine
    \/ RecoverState \/ RecoverPositions \/ RecoverOrders

RecoverySpec == RecoveryInit /\ [][RecoveryNext]_recoveryVars

----------------------------------------------------------------------------
(* Whatever the adapter calls a position, and while orders execute and     *)
(* fills arrive around the await: an asset that moved on neither side since*)
(* the cycle began is in quarantine afterwards when the local side holds a *)
(* position that the venue does not have like that, and is not put there   *)
(* when neither side holds any (reconciler.py:45-83).                      *)
HeldDisagreementIsCaught ==
    [][Reconciled => \A a \in Held \ moved :
         /\ localQty[a] # 0 /\ venueQty[a] # localQty[a] => a \in quarantine'
         /\ localQty[a] = 0 /\ venueQty[a] = 0 => (a \in quarantine' => a \in quarantine)]_recoveryVars

(* "Monitors alignment between venue exchange state and local OMS database"*)
(* (reconciler.py:32): of an asset that stood still, differences are caught*)
(* and only they.  Not with the live adapter's keys.                       *)
StillDisagreementIsCaught ==
    [][Reconciled => \A a \in Held \ moved :
         IF venueQty[a] = localQty[a] THEN a \in quarantine' => a \in quarantine
                                      ELSE a \in quarantine']_recoveryVars

(* state_recovery.py:86-88 (VA-036): a full discrepancy on the one held    *)
(* asset triggers a flatten.  Below half a unit it does not.               *)
FullDiscrepancyFlattens ==
    [][\A a \in Held :
         (recovery.pc = "orders" /\ recovery'.pc = "idle" /\ recovery.venue[a] > 0 /\ recovery.local[a] = 0
          /\ \A b \in Held \ {a} : recovery.venue[b] = 0 /\ recovery.local[b] = 0)
         => result'.flatten]_recoveryVars

(* An exit is minted for an asset only if there is something to close.     *)
ExitsCloseSomething ==
    [][\A a \in result'.exits : result' # result => recovery.venue[a] > 0]_recoveryVars
=============================================================================
