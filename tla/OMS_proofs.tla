----------------------------- MODULE OMS_proofs -----------------------------
(***************************************************************************)
(* Proofs about OMS, for any orders, sizes and number of submissions, with *)
(* or without an outbox, a shadow mode and failing calls: types, positions *)
(* and cumulative fills.                                                   *)
(*                                                                         *)
(* Without an outbox store no handler of the OMS suspends between reading  *)
(* an order's state and writing it: the OMS then implements the order life *)
(* cycle, and one submission counts no more fills than the venue executed. *)
(* With or without one, an order open at the venue that the system does    *)
(* not work is one whose submit_order raised.                              *)
(*                                                                         *)
(* The order chaser beside it, for any orders on a symbol, implements the  *)
(* OMS, never takes a live order for a finished one, and an order it       *)
(* cancels for an opposite one never rests beside that one.                *)
(***************************************************************************)
EXTENDS OrderChase, TLAPS

USE DEF NoState

-----------------------------------------------------------------------------
(* The operators: the transition table and what one event may do           *)

\* Legal moves end in states.
LEMMA TableType ==
  ASSUME NEW s \in OrderState
  PROVE  LEGAL_TRANSITIONS[s] \subseteq OrderState
BY DEF LEGAL_TRANSITIONS, OrderState

\* An event leads to a legal successor or is refused.
LEMMA TransitionOrderState ==
  ASSUME NEW s, NEW e, NEW q, NEW i, NEW p
  PROVE  \/ transition_order_state(s, e, q, i, p) = Illegal
         \/ transition_order_state(s, e, q, i, p) \in LEGAL_TRANSITIONS[s]
BY DEF transition_order_state

LEMMA CurrentType ==
  ASSUME TypeOK, NEW o \in Orders
  PROVE  Current(o) \in OrderState
<1>1. active[o] \in OrderState \cup {NoState}
  BY DEF TypeOK
<1> QED
  BY <1>1 DEF Current, OrderState

LEMMA OutcomeType ==
  ASSUME TypeOK, NEW o \in Orders, NEW e, NEW q
  PROVE  Outcome(o, e, q) \in OrderState \cup {Illegal}
<1>1. Current(o) \in OrderState /\ "SUBMITTED" \in OrderState
  BY CurrentType DEF OrderState
<1> QED
  BY <1>1, TableType, TransitionOrderState DEF Outcome

LEMMA TransitionType ==
  ASSUME TypeOK, NEW o \in Orders, NEW e, NEW q \in Nat, Transition(o, e, q)
  PROVE  /\ active' \in [Orders -> OrderState \cup {NoState}]
         /\ fills' \in [Orders -> Nat]
<1>1. Outcome(o, e, q) \in OrderState
  BY OutcomeType DEF Transition
<1> QED
  BY <1>1 DEF Transition, TypeOK

LEMMA TransitionRaisesType ==
  ASSUME TypeOK, NEW o \in Orders, NEW e, NEW q, TransitionRaises(o, e, q)
  PROVE  /\ active' \in [Orders -> OrderState \cup {NoState}]
         /\ fills' \in [Orders -> Nat]
<1>1. "SUBMITTED" \in OrderState
  BY DEF OrderState
<1> QED
  BY <1>1 DEF TransitionRaises, TypeOK

LEMMA ReturnAfterType ==
  ASSUME TypeOK, NEW o \in Orders, NEW e, NEW q \in Nat, ReturnAfter(o, e, q)
  PROVE  /\ active' \in [Orders -> OrderState \cup {NoState}]
         /\ fills' \in [Orders -> Nat]
         /\ task' \in [Orders -> AtRest \cup Suspended]
<1>1. PICK t \in {"returning", "returned", "illegal"} :
        task' = [task EXCEPT ![o] = t]
  BY DEF ReturnAfter
<1>2. t \in AtRest \cup Suspended /\ task \in [Orders -> AtRest \cup Suspended]
  BY DEF TypeOK, AtRest, Suspended
<1>3. task' \in [Orders -> AtRest \cup Suspended]
  BY <1>1, <1>2
<1> QED
  BY <1>3, TransitionType, TransitionRaisesType DEF ReturnAfter

LEMMA FillTargetType ==
  ASSUME NEW q, NEW i, NEW p
  PROVE  FillTarget(q, i, p) \in {"PARTIALLY_FILLED", "FILLED"}
BY DEF FillTarget

\* What finalization writes is a state.
LEMMA FinalizedType ==
  ASSUME NEW s \in OrderState
  PROVE  Finalized(s) \in OrderState
BY DEF Finalized, OrderState

LEMMA MaxOfType ==
  ASSUME NEW a \in Nat, NEW b \in Nat
  PROVE  MaxOf(a, b) \in Nat /\ MaxOf(a, b) >= a
BY DEF MaxOf
-----------------------------------------------------------------------------
(* Type correctness                                                        *)

\* The variables a transition does not touch.
Beside == <<record, moved, reply, submits, applying, finalizing, venue,
            inflight>>

LEMMA ReturnTypeOK ==
  ASSUME TypeOK, NEW o \in Orders, NEW e, NEW q \in Nat, ReturnAfter(o, e, q),
         UNCHANGED Beside
  PROVE  TypeOK'
BY ReturnAfterType DEF TypeOK, Beside

\* A step that at most moves the coroutine keeps the types.
LEMMA TaskTypeOK ==
  ASSUME TypeOK, NEW o \in Orders, NEW t \in AtRest \cup Suspended,
         task' = [task EXCEPT ![o] = t],
         UNCHANGED <<memory, submits, applying, finalizing, inflight>>,
         reply' \in [Orders -> VenueStatus],
         venue' \in [Orders -> [status : VenueStatus, exec : Nat]]
  PROVE  TypeOK'
BY DEF TypeOK, memory

\* A step of submit_order that moves the order's state leaves the rest typed.
LEMMA MovedTypeOK ==
  ASSUME TypeOK,
         task' \in [Orders -> AtRest \cup Suspended],
         active' \in [Orders -> OrderState \cup {NoState}],
         fills' \in [Orders -> Nat],
         UNCHANGED <<record, moved, reply, submits, applying, finalizing, venue, inflight>>
  PROVE  TypeOK'
BY Zenon DEF TypeOK

LEMMA SubmitTypeOK ==
  ASSUME TypeOK, NEW o \in Orders, SubmitOrder(o)
  PROVE  TypeOK'
<1>1. submits' \in [Orders -> 0..MaxSubmits]
  BY OMSAssumption DEF SubmitOrder, TypeOK
<1>2. CASE o \in BelowGrid
  <2>1. ReturnAfter(o, "REJECTED", 0)
    BY <1>2 DEF SubmitOrder
  <2> QED
    BY <1>1, <1>2, <2>1, ReturnAfterType DEF SubmitOrder, TypeOK
<1>3. CASE o \notin BelowGrid
  <2>1. record' \in [Orders -> {"none", "sided", "sideless"}]
    <3>1. record' = [record EXCEPT ![o] = IF @ = "none" THEN "sided" ELSE @]
      BY <1>3, Zenon DEF SubmitOrder
    <3>2. record \in [Orders -> {"none", "sided", "sideless"}]
      BY DEF TypeOK
    <3> QED
      BY <3>1, <3>2
  <2>2. /\ task' = [task EXCEPT ![o] = "preflight"]
        /\ UNCHANGED <<active, fills, moved, reply, applying, finalizing, venue, inflight>>
    BY <1>3, Zenon DEF SubmitOrder
  <2>3. task' \in [Orders -> AtRest \cup Suspended]
    BY <2>2 DEF TypeOK, Suspended
  <2> QED
    BY <1>1, <2>1, <2>2, <2>3 DEF TypeOK
<1> QED
  BY <1>2, <1>3

LEMMA SubmissionTypeOK ==
  ASSUME TypeOK, NEW o \in Orders, Submission(o)
  PROVE  TypeOK'
<1> USE DEF AtRest, Suspended
<1>1. CASE RejectStale(o)
  BY <1>1, ReturnTypeOK DEF RejectStale, Beside
<1>2. CASE QueryVenue(o)
  BY <1>2, TaskTypeOK DEF QueryVenue, TypeOK
<1>3. CASE VenueReplies(o)
  BY <1>3, TaskTypeOK DEF VenueReplies, TypeOK
<1>4. CASE QueryFails(o)
  BY <1>4, TaskTypeOK DEF QueryFails, TypeOK
<1>5. ASSUME NEW q \in 0..Qty[o], ShadowFill(o, q)
      PROVE  TypeOK'
  <2>1. q \in Nat
    BY OMSAssumption
  <2>2. ReturnAfter(o, "FILL", q) \/ ReturnAfter(o, "REJECTED", 0)
    BY <1>5 DEF ShadowFill
  <2> QED
    BY <1>5, <2>1, <2>2, ReturnTypeOK DEF ShadowFill, Beside
<1>6. CASE AdoptExisting(o)
  <2>1. Qty[o] \in Nat
    BY OMSAssumption
  <2>2. ReturnAfter(o, "ACKED", 0) \/ ReturnAfter(o, "FILL", Qty[o])
    BY <1>6 DEF AdoptExisting
  <2> QED
    BY <1>6, <2>1, <2>2, ReturnTypeOK DEF AdoptExisting, Beside
<1>7. CASE CreateAtVenue(o)
  BY <1>7, TaskTypeOK DEF CreateAtVenue, TypeOK
<1>8. CASE Accepted(o)
  <2>1. task' \in [Orders -> AtRest \cup Suspended]
    BY <1>8 DEF Accepted, TypeOK
  <2>2. /\ active' \in [Orders -> OrderState \cup {NoState}]
        /\ fills' \in [Orders -> Nat]
    BY <1>8, TransitionType, TransitionRaisesType DEF Accepted
  <2>3. UNCHANGED <<record, moved, reply, submits, applying, finalizing, venue, inflight>>
    BY <1>8, Zenon DEF Accepted
  <2> HIDE DEF AtRest, Suspended
  <2> QED
    BY <2>1, <2>2, <2>3, MovedTypeOK
<1>9. CASE StatusSaved(o) \/ StatusSaveFails(o)
  <2>1. PICK t \in {"raised", "returned", "failed"} :
          task' = [task EXCEPT ![o] = t]
    BY <1>9 DEF StatusSaved, StatusSaveFails
  <2>2. UNCHANGED <<memory, reply, submits, applying, finalizing, venue,
                    inflight>>
    BY <1>9 DEF StatusSaved, StatusSaveFails
  <2>3. t \in AtRest \cup Suspended
    OBVIOUS
  <2> QED
    BY <2>1, <2>2, <2>3, TaskTypeOK DEF TypeOK
<1>11. CASE RejectFailed(o)
  <2>1. PICK t \in {"raising", "raised", "illegal"} : task' = [task EXCEPT ![o] = t]
    BY <1>11, Zenon DEF RejectFailed
  <2>2. task' \in [Orders -> AtRest \cup Suspended]
    BY <2>1 DEF TypeOK
  <2>3. Transition(o, "REJECTED", 0) \/ TransitionRaises(o, "REJECTED", 0)
    BY <1>11, Zenon DEF RejectFailed
  <2>4. /\ active' \in [Orders -> OrderState \cup {NoState}]
        /\ fills' \in [Orders -> Nat]
    BY <2>3, TransitionType, TransitionRaisesType
  <2>5. UNCHANGED <<record, moved, reply, submits, applying, finalizing, venue, inflight>>
    BY <1>11, Zenon DEF RejectFailed
  <2> HIDE DEF AtRest, Suspended
  <2> QED
    BY <2>2, <2>4, <2>5, MovedTypeOK
<1>12. CASE VenueAccepts(o)
  <2>1. venue' \in [Orders -> [status : VenueStatus, exec : Nat]]
    <3> HIDE DEF AtRest, Suspended
    <3>1. venue \in [Orders -> [status : VenueStatus, exec : Nat]]
      BY DEF TypeOK
    <3>2. venue' = [venue EXCEPT ![o].status = "open"] /\ "open" \in VenueStatus
      BY <1>12 DEF VenueAccepts, VenueStatus
    <3> HIDE DEF VenueStatus
    <3> QED
      BY <3>1, <3>2
  <2>2. reply' \in [Orders -> VenueStatus]
    BY <1>12 DEF VenueAccepts, TypeOK
  <2>3. \/ task' = [task EXCEPT ![o] = "accepted"]
        \/ task' = [task EXCEPT ![o] = "failed"]
    BY <1>12 DEF VenueAccepts
  <2> QED
    BY <1>12, <2>1, <2>2, <2>3, TaskTypeOK DEF VenueAccepts
<1>13. CASE VenueRefuses(o)
  BY <1>13, TaskTypeOK DEF VenueRefuses, TypeOK
<1>14. CASE PreflightRaises(o)
  BY <1>14, TaskTypeOK DEF PreflightRaises, TypeOK
<1> QED
  BY <1>1, <1>2, <1>3, <1>4, <1>5, <1>6, <1>7, <1>8, <1>9, <1>11,
     <1>12, <1>13, <1>14
  DEF Submission, Proceeds

LEMMA FillingTypeOK ==
  ASSUME TypeOK, NEW o \in Orders, Filling(o)
  PROVE  TypeOK'
<1>1. ASSUME NEW q \in 1..Qty[o], ApplyFill(o, q)
      PROVE  TypeOK'
  <2>1. q \in Nat /\ inflight[o] \in Nat /\ moved[o] \in Nat
    BY OMSAssumption DEF TypeOK
  <2>2. inflight' \in [Orders -> Nat]
    BY <1>1, <2>1 DEF ApplyFill, TypeOK
  <2>3. moved' \in [Orders -> Nat] /\ applying' \in [Orders -> Nat]
    <3>1. \/ moved' = moved /\ applying' = [applying EXCEPT ![o] = q]
          \/ moved' = [moved EXCEPT ![o] = @ + q] /\ applying' = applying
      BY <1>1, Zenon DEF ApplyFill
    <3>2. moved \in [Orders -> Nat] /\ applying \in [Orders -> Nat]
      BY DEF TypeOK
    <3> QED
      BY <2>1, <3>1, <3>2
  <2>4. /\ active' \in [Orders -> OrderState \cup {NoState}]
        /\ fills' \in [Orders -> Nat]
    BY <1>1, <2>1, TransitionType DEF ApplyFill
  <2> QED
    BY <1>1, <2>2, <2>3, <2>4 DEF ApplyFill, TypeOK
<1>2. ASSUME NEW q \in 1..Qty[o], FillRefused(o, q)
      PROVE  TypeOK'
  <2>1. inflight' \in [Orders -> Nat]
    BY <1>2, OMSAssumption DEF FillRefused, TypeOK
  <2>2. /\ active' \in [Orders -> OrderState \cup {NoState}]
        /\ fills' \in [Orders -> Nat]
    <3>1. CASE UNCHANGED <<active, fills>>
      BY <3>1 DEF TypeOK
    <3>2. CASE TransitionRaises(o, "FILL", q)
      BY <3>2, TransitionRaisesType
    <3> QED
      BY <1>2, <3>1, <3>2 DEF FillRefused
  <2> QED
    BY <1>2, <2>1, <2>2 DEF FillRefused, TypeOK
<1>3. CASE FillSaved(o)
  BY <1>3 DEF FillSaved, TypeOK
<1>4. CASE FillSaveFails(o)
  BY <1>4 DEF FillSaveFails, TypeOK, memory
<1> QED
  BY <1>1, <1>2, <1>3, <1>4 DEF Filling

LEMMA CancelTypeOK ==
  ASSUME TypeOK, NEW o \in Orders, CancelOrder(o)
  PROVE  TypeOK'
BY DEF CancelOrder, TypeOK, OrderState

LEMMA FinalizationTypeOK ==
  ASSUME TypeOK, NEW o \in Orders, Finalization(o)
  PROVE  TypeOK'
<1>1. ASSUME NEW q \in 0..Qty[o], FinalizePartialFill(o, q)
      PROVE  TypeOK'
  <2>1. q \in Nat /\ fills[o] \in Nat
    BY OMSAssumption DEF TypeOK
  <2>2. FinalizeFrom(o) \in OrderState
    BY DEF FinalizeFrom, TypeOK, OrderState
  <2>3. ReplayedState(o, q) \in OrderState
    BY FillTargetType DEF ReplayedState, OrderState
  <2>4. record' \in [Orders -> {"none", "sided", "sideless"}]
    BY <1>1 DEF FinalizePartialFill, TypeOK
  <2>5. CASE Replays(o) /\ HasOutbox
    <3>1. /\ active' = [active EXCEPT ![o] = ReplayedState(o, q)]
          /\ fills' = [fills EXCEPT ![o] = @ + q]
          /\ finalizing' = [finalizing EXCEPT
                              ![o] = [state |-> ReplayedState(o, q), qty |-> q]]
      BY <1>1, <2>5, Zenon DEF FinalizePartialFill
    <3>2. finalizing' \in
            [Orders -> [state : OrderState \cup {NoState}, qty : Nat]]
      BY <2>1, <2>3, <3>1 DEF TypeOK
    <3>3. /\ active' \in [Orders -> OrderState \cup {NoState}]
          /\ fills' \in [Orders -> Nat]
      BY <2>1, <2>3, <3>1 DEF TypeOK
    <3> QED
      BY <1>1, <2>4, <3>2, <3>3 DEF FinalizePartialFill, TypeOK
  <2>6. CASE ~(Replays(o) /\ HasOutbox)
    <3>1. PICK s \in OrderState, f \in Nat :
            /\ active' = [active EXCEPT ![o] = Finalized(s)]
            /\ fills' = [fills EXCEPT ![o] = MaxOf(f, q)]
            /\ finalizing' = finalizing
      <4>1. CASE Replays(o)
        <5>1. fills[o] + q \in Nat
          BY <2>1
        <5> QED
          BY <1>1, <2>3, <2>6, <4>1, <5>1, Zenon DEF FinalizePartialFill
      <4>2. CASE ~Replays(o)
        BY <1>1, <2>1, <2>2, <2>6, <4>2, Zenon DEF FinalizePartialFill
      <4> QED
        BY <4>1, <4>2
    <3>2. Finalized(s) \in OrderState /\ MaxOf(f, q) \in Nat
      BY <2>1, FinalizedType, MaxOfType
    <3> QED
      BY <1>1, <2>4, <3>1, <3>2 DEF FinalizePartialFill, TypeOK
  <2> QED
    BY <2>5, <2>6
<1>2. CASE FinalizeSaved(o)
  <2>1. /\ finalizing[o].state \in OrderState \cup {NoState}
        /\ finalizing[o].qty \in Nat
        /\ fills[o] \in Nat
    BY DEF TypeOK
  <2>2. Finalized(finalizing[o].state) \in OrderState \cup {NoState}
    BY <2>1, FinalizedType DEF Finalized, OrderState
  <2>3. MaxOf(fills[o], finalizing[o].qty) \in Nat
    BY <2>1, MaxOfType
  <2> QED
    BY <1>2, <2>2, <2>3 DEF FinalizeSaved, TypeOK, NotFinalizing
<1>3. CASE FinalizeSaveFails(o)
  BY <1>3 DEF FinalizeSaveFails, TypeOK, memory, NotFinalizing
<1> QED
  BY <1>1, <1>2, <1>3 DEF Finalization

LEMMA VenueTypeOK ==
  ASSUME TypeOK, NEW o \in Orders, VenueExecutes(o) \/ VenueCancels(o)
  PROVE  TypeOK'
<1>1. CASE VenueExecutes(o)
  <2>1. PICK q \in 1..(Qty[o] - venue[o].exec) :
          /\ venue' = [venue EXCEPT
                         ![o] = [status |-> IF venue[o].exec + q = Qty[o]
                                            THEN "closed" ELSE "open",
                                 exec   |-> venue[o].exec + q]]
          /\ inflight' = [inflight EXCEPT ![o] = @ + q]
    BY <1>1 DEF VenueExecutes
  <2>2. venue[o].exec \in Nat /\ inflight[o] \in Nat /\ q \in Nat
    BY <2>1, OMSAssumption DEF TypeOK
  <2>3. /\ venue' \in [Orders -> [status : VenueStatus, exec : Nat]]
        /\ inflight' \in [Orders -> Nat]
    BY <2>1, <2>2 DEF TypeOK, VenueStatus
  <2> QED
    BY <1>1, <2>3 DEF VenueExecutes, TypeOK, memory
<1>2. CASE VenueCancels(o)
  <2>1. venue' \in [Orders -> [status : VenueStatus, exec : Nat]]
    BY <1>2 DEF VenueCancels, TypeOK, VenueStatus
  <2> QED
    BY <1>2, <2>1 DEF VenueCancels, TypeOK, memory
<1> QED
  BY <1>1, <1>2

LEMMA NextTypeOK ==
  ASSUME TypeOK, [Next]_vars
  PROVE  TypeOK'
<1>1. CASE UNCHANGED vars
  BY <1>1 DEF vars, TypeOK
<1>2. ASSUME NEW o \in Orders,
             \/ SubmitOrder(o) \/ Submission(o) \/ Filling(o)
             \/ CancelOrder(o) \/ Finalization(o)
             \/ VenueExecutes(o) \/ VenueCancels(o)
      PROVE  TypeOK'
  BY <1>2, SubmitTypeOK, SubmissionTypeOK, FillingTypeOK, CancelTypeOK,
     FinalizationTypeOK, VenueTypeOK
<1> QED
  BY <1>1, <1>2 DEF Next

LEMMA InitTypeOK == Init => TypeOK
<1> SUFFICES ASSUME Init PROVE TypeOK
  OBVIOUS
<1>1. submits \in [Orders -> 0..MaxSubmits]
  BY OMSAssumption DEF Init
<1>2. finalizing \in [Orders -> [state : OrderState \cup {NoState}, qty : Nat]]
  BY DEF Init, NotFinalizing
<1>3. venue \in [Orders -> [status : VenueStatus, exec : Nat]]
  BY DEF Init, VenueStatus
<1> QED
  BY <1>1, <1>2, <1>3 DEF Init, TypeOK, AtRest, VenueStatus

\* Every variable of the OMS keeps its type, whatever the interleaving.
THEOREM TypeCorrect == Spec => []TypeOK
BY InitTypeOK, NextTypeOK, PTL DEF Spec
-----------------------------------------------------------------------------
(* The frame of a step                                                     *)

\* A step of one order leaves every other order alone.
StepOf(o) ==
  \/ SubmitOrder(o) \/ Submission(o) \/ Filling(o) \/ CancelOrder(o)
  \/ Finalization(o) \/ VenueExecutes(o) \/ VenueCancels(o)

Untouched(w) ==
  /\ active'[w] = active[w] /\ fills'[w] = fills[w] /\ task'[w] = task[w]
  /\ reply'[w] = reply[w] /\ submits'[w] = submits[w]
  /\ venue'[w] = venue[w] /\ inflight'[w] = inflight[w]

LEMMA StepOfOne ==
  ASSUME TypeOK, NEW o \in Orders, NEW w \in Orders, w # o, StepOf(o)
  PROVE  Untouched(w)
<1> USE DEF TypeOK, Untouched, Transition, TransitionRaises, ReturnAfter,
            memory
<1>1. CASE SubmitOrder(o)
  BY <1>1 DEF SubmitOrder
<1>2. CASE Submission(o)
  <2>1. CASE \/ RejectStale(o) \/ AdoptExisting(o)
             \/ \E q \in 0..Qty[o] : ShadowFill(o, q)
    BY <2>1 DEF RejectStale, AdoptExisting, ShadowFill
  <2>2. CASE Accepted(o) \/ RejectFailed(o)
    BY <2>2 DEF Accepted, RejectFailed
  <2>3. CASE \/ QueryVenue(o) \/ VenueReplies(o) \/ QueryFails(o)
             \/ CreateAtVenue(o) \/ StatusSaved(o)
             \/ StatusSaveFails(o) \/ PreflightRaises(o)
    BY <2>3 DEF QueryVenue, VenueReplies, QueryFails, CreateAtVenue,
                StatusSaved, StatusSaveFails, PreflightRaises
  <2>4. CASE VenueAccepts(o) \/ VenueRefuses(o)
    BY <2>4 DEF VenueAccepts, VenueRefuses
  <2> QED
    BY <1>2, <2>1, <2>2, <2>3, <2>4, Zenon DEF Submission, Proceeds
<1>3. CASE Filling(o)
  <2>1. ASSUME NEW q \in 1..Qty[o], ApplyFill(o, q)
        PROVE  Untouched(w)
    BY <2>1 DEF ApplyFill
  <2>2. ASSUME NEW q \in 1..Qty[o], FillRefused(o, q)
        PROVE  Untouched(w)
    BY <2>2 DEF FillRefused
  <2>3. CASE FillSaved(o) \/ FillSaveFails(o)
    BY <2>3 DEF FillSaved, FillSaveFails
  <2> QED
    BY <1>3, <2>1, <2>2, <2>3 DEF Filling
<1>4. CASE CancelOrder(o)
  BY <1>4 DEF CancelOrder
<1>5. CASE Finalization(o)
  <2>1. ASSUME NEW q \in 0..Qty[o], FinalizePartialFill(o, q)
        PROVE  Untouched(w)
    BY <2>1 DEF FinalizePartialFill
  <2>2. CASE FinalizeSaved(o) \/ FinalizeSaveFails(o)
    BY <2>2 DEF FinalizeSaved, FinalizeSaveFails
  <2> QED
    BY <1>5, <2>1, <2>2 DEF Finalization
<1>6. CASE VenueExecutes(o)
  BY <1>6 DEF VenueExecutes
<1>7. CASE VenueCancels(o)
  BY <1>7 DEF VenueCancels
<1> QED
  BY <1>1, <1>2, <1>3, <1>4, <1>5, <1>6, <1>7 DEF StepOf
-----------------------------------------------------------------------------
(* Positions                                                               *)

\* Submissions, cancellations and finalizations move no position and
\* neither execute nor report anything.
LEMMA PositionsUntouched ==
  ASSUME TypeOK, NEW o \in Orders,
         \/ SubmitOrder(o) \/ Submission(o) \/ CancelOrder(o)
         \/ Finalization(o) \/ VenueCancels(o)
  PROVE  /\ UNCHANGED <<moved, applying, inflight>>
         /\ \A w \in Orders : venue'[w].exec = venue[w].exec
<1>1. UNCHANGED <<moved, applying, inflight>>
  BY DEF SubmitOrder, Submission, Proceeds, RejectStale, QueryVenue,
         VenueReplies, QueryFails, ShadowFill, AdoptExisting, CreateAtVenue,
         Accepted, StatusSaved, StatusSaveFails, RejectFailed,
         VenueAccepts, VenueRefuses, PreflightRaises, CancelOrder,
         Finalization, FinalizePartialFill, FinalizeSaved, FinalizeSaveFails,
         VenueCancels, memory
<1>2. \/ UNCHANGED venue
      \/ \E s : venue' = [venue EXCEPT ![o].status = s]
  BY DEF SubmitOrder, Submission, Proceeds, RejectStale, QueryVenue,
         VenueReplies, QueryFails, ShadowFill, AdoptExisting, CreateAtVenue,
         Accepted, StatusSaved, StatusSaveFails, RejectFailed,
         VenueAccepts, VenueRefuses, PreflightRaises, CancelOrder,
         Finalization, FinalizePartialFill, FinalizeSaved, FinalizeSaveFails,
         VenueCancels
<1>3. \A w \in Orders : venue'[w].exec = venue[w].exec
  <2>1. CASE UNCHANGED venue
    BY <2>1
  <2>2. ASSUME NEW s, venue' = [venue EXCEPT ![o].status = s]
        PROVE  \A w \in Orders : venue'[w].exec = venue[w].exec
    <3>1. venue \in [Orders -> [status : VenueStatus, exec : Nat]]
      BY DEF TypeOK
    <3> QED
      BY <2>2, <3>1
  <2> QED
    BY <1>2, <2>1, <2>2
<1> QED
  BY <1>1, <1>3

LEMMA FillingPositions ==
  ASSUME TypeOK, NoPhantomPosition, NEW o \in Orders, Filling(o)
  PROVE  NoPhantomPosition'
<1> USE DEF NoPhantomPosition, TypeOK
<1>1. ASSUME NEW q \in 1..Qty[o], ApplyFill(o, q)
      PROVE  NoPhantomPosition'
  <2>1. /\ q \in 1..inflight[o]
        /\ applying[o] = 0
        /\ inflight' = [inflight EXCEPT ![o] = @ - q]
        /\ venue' = venue
    BY <1>1 DEF ApplyFill
  <2>2. \/ moved' = moved /\ applying' = [applying EXCEPT ![o] = q]
        \/ moved' = [moved EXCEPT ![o] = @ + q] /\ applying' = applying
    BY <1>1, Zenon DEF ApplyFill
  <2> QED
    BY <2>1, <2>2
<1>2. ASSUME NEW q \in 1..Qty[o], FillRefused(o, q)
      PROVE  NoPhantomPosition'
  BY <1>2 DEF FillRefused
<1>3. CASE FillSaved(o)
  BY <1>3 DEF FillSaved
<1>4. CASE FillSaveFails(o)
  BY <1>4 DEF FillSaveFails, memory
<1> QED
  BY <1>1, <1>2, <1>3, <1>4 DEF Filling

\* An order never adds more to the net position than the venue executed,
\* however its fills interleave with submissions, cancellations,
\* finalizations and failing saves.
THEOREM PositionsAreExecuted == Spec => []NoPhantomPosition
<1>1. Init => NoPhantomPosition
  BY DEF Init, NoPhantomPosition
<1>2. TypeOK /\ NoPhantomPosition /\ [Next]_vars => NoPhantomPosition'
  <2> SUFFICES ASSUME TypeOK, NoPhantomPosition, [Next]_vars
               PROVE  NoPhantomPosition'
    OBVIOUS
  <2>1. CASE UNCHANGED vars
    BY <2>1 DEF vars, NoPhantomPosition
  <2>2. ASSUME NEW o \in Orders,
               \/ SubmitOrder(o) \/ Submission(o) \/ CancelOrder(o)
               \/ Finalization(o) \/ VenueCancels(o)
        PROVE  NoPhantomPosition'
    BY <2>2, PositionsUntouched DEF NoPhantomPosition
  <2>3. ASSUME NEW o \in Orders, Filling(o)
        PROVE  NoPhantomPosition'
    BY <2>3, FillingPositions
  <2>4. ASSUME NEW o \in Orders, VenueExecutes(o)
        PROVE  NoPhantomPosition'
    <3>1. PICK q \in 1..(Qty[o] - venue[o].exec) :
            /\ venue' = [venue EXCEPT
                           ![o] = [status |-> IF venue[o].exec + q = Qty[o]
                                              THEN "closed" ELSE "open",
                                   exec   |-> venue[o].exec + q]]
            /\ inflight' = [inflight EXCEPT ![o] = @ + q]
      BY <2>4 DEF VenueExecutes
    <3>2. UNCHANGED <<moved, applying>>
      BY <2>4 DEF VenueExecutes, memory
    <3> QED
      BY <3>1, <3>2, OMSAssumption DEF NoPhantomPosition, TypeOK
  <2> QED
    BY <2>1, <2>2, <2>3, <2>4 DEF Next
<1> QED
  BY <1>1, <1>2, TypeCorrect, PTL DEF Spec
-----------------------------------------------------------------------------
(* Cumulative fills                                                        *)

Grows == \A o \in Orders : fills'[o] >= fills[o]

LEMMA TransitionGrows ==
  ASSUME TypeOK, NEW o \in Orders, NEW e, NEW q \in Nat,
         Transition(o, e, q) \/ TransitionRaises(o, e, q)
  PROVE  Grows
BY DEF Transition, TransitionRaises, TypeOK, Grows

LEMMA UnchangedGrows ==
  ASSUME TypeOK, UNCHANGED fills
  PROVE  Grows
BY DEF Grows, TypeOK

\* In submissions and fillings, an order's state and fills move by events.
MovesByEvent(o) ==
  \/ UNCHANGED <<active, fills>>
  \/ \E e : \E q \in Nat : Transition(o, e, q) \/ TransitionRaises(o, e, q)

LEMMA SubmissionMoves ==
  ASSUME NEW o \in Orders, SubmitOrder(o) \/ Submission(o)
  PROVE  MovesByEvent(o)
<1>1. Qty[o] \in Nat /\ 0 \in Nat /\ \A q \in 0..Qty[o] : q \in Nat
  BY OMSAssumption
<1>2. CASE SubmitOrder(o)
  BY <1>1, <1>2 DEF SubmitOrder, ReturnAfter, MovesByEvent
<1>3. CASE RejectStale(o) \/ AdoptExisting(o)
  BY <1>1, <1>3 DEF RejectStale, AdoptExisting, ReturnAfter, MovesByEvent
<1>4. ASSUME NEW q \in 0..Qty[o], ShadowFill(o, q)
      PROVE  MovesByEvent(o)
  BY <1>1, <1>4 DEF ShadowFill, ReturnAfter, MovesByEvent
<1>5. CASE Accepted(o) \/ RejectFailed(o)
  BY <1>1, <1>5 DEF Accepted, RejectFailed, MovesByEvent
<1>6. CASE \/ QueryVenue(o) \/ VenueReplies(o) \/ QueryFails(o)
           \/ CreateAtVenue(o) \/ StatusSaved(o)
           \/ StatusSaveFails(o) \/ VenueAccepts(o)
           \/ VenueRefuses(o) \/ PreflightRaises(o)
  BY <1>6 DEF QueryVenue, VenueReplies, QueryFails, CreateAtVenue,
              StatusSaved, StatusSaveFails, VenueAccepts,
              VenueRefuses, PreflightRaises, memory, MovesByEvent
<1> QED
  BY <1>2, <1>3, <1>4, <1>5, <1>6, Zenon DEF Submission, Proceeds

LEMMA FillingMoves ==
  ASSUME NEW o \in Orders, Filling(o)
  PROVE  MovesByEvent(o)
<1>1. \A q \in 1..Qty[o] : q \in Nat
  BY OMSAssumption
<1>2. \/ UNCHANGED <<active, fills>>
      \/ \E q \in 1..Qty[o] : \/ Transition(o, "FILL", q)
                              \/ TransitionRaises(o, "FILL", q)
  BY DEF Filling, ApplyFill, FillRefused, FillSaved, FillSaveFails, memory
<1> QED
  BY <1>1, <1>2 DEF MovesByEvent

LEMMA EventGrows ==
  ASSUME TypeOK, NEW o \in Orders, MovesByEvent(o)
  PROVE  Grows
BY TransitionGrows, UnchangedGrows DEF MovesByEvent

LEMMA FinalizationGrows ==
  ASSUME TypeOK, NEW o \in Orders, Finalization(o)
  PROVE  Grows
<1>1. ASSUME NEW q \in 0..Qty[o], FinalizePartialFill(o, q)
      PROVE  Grows
  <2>1. q \in Nat /\ fills[o] \in Nat /\ fills[o] + q \in Nat
    BY OMSAssumption DEF TypeOK
  <2>2. \/ fills' = [fills EXCEPT ![o] = fills[o] + q]
        \/ fills' = [fills EXCEPT ![o] = MaxOf(fills[o] + q, q)]
        \/ fills' = [fills EXCEPT ![o] = MaxOf(fills[o], q)]
    <3>1. CASE Replays(o) /\ HasOutbox
      BY <1>1, <3>1, Zenon DEF FinalizePartialFill
    <3>2. CASE Replays(o) /\ ~HasOutbox
      BY <1>1, <3>2, Zenon DEF FinalizePartialFill
    <3>3. CASE ~Replays(o)
      BY <1>1, <3>3, Zenon DEF FinalizePartialFill
    <3> QED
      BY <3>1, <3>2, <3>3
  <2>3. PICK f \in Nat : f >= fills[o] /\ fills' = [fills EXCEPT ![o] = f]
    <3>1. /\ MaxOf(fills[o] + q, q) \in Nat
          /\ MaxOf(fills[o], q) \in Nat
          /\ MaxOf(fills[o] + q, q) >= fills[o] + q
          /\ MaxOf(fills[o], q) >= fills[o]
      BY <2>1, MaxOfType
    <3> QED
      BY <2>1, <2>2, <3>1
  <2> QED
    BY <2>3 DEF Grows, TypeOK
<1>2. CASE FinalizeSaved(o)
  <2>1. fills[o] \in Nat /\ finalizing[o].qty \in Nat
    BY DEF TypeOK
  <2>2. PICK f \in Nat : f >= fills[o] /\ fills' = [fills EXCEPT ![o] = f]
    <3>1. /\ MaxOf(fills[o], finalizing[o].qty) \in Nat
          /\ MaxOf(fills[o], finalizing[o].qty) >= fills[o]
      BY <2>1, MaxOfType
    <3> QED
      BY <1>2, <3>1 DEF FinalizeSaved
  <2> QED
    BY <2>2 DEF Grows, TypeOK
<1>3. CASE FinalizeSaveFails(o)
  BY <1>3, UnchangedGrows DEF FinalizeSaveFails, memory
<1> QED
  BY <1>1, <1>2, <1>3 DEF Finalization

\* No step discards filled quantity the system already counted.
THEOREM FillsOnlyGrow == Spec => FillsNeverShrink
<1>1. TypeOK /\ [Next]_vars => [Grows]_vars
  <2> SUFFICES ASSUME TypeOK, Next
               PROVE  Grows
    OBVIOUS
  <2>1. ASSUME NEW o \in Orders,
               SubmitOrder(o) \/ Submission(o) \/ Filling(o)
        PROVE  Grows
    BY <2>1, SubmissionMoves, FillingMoves, EventGrows
  <2>3. ASSUME NEW o \in Orders, Finalization(o)
        PROVE  Grows
    BY <2>3, FinalizationGrows
  <2>4. ASSUME NEW o \in Orders,
               CancelOrder(o) \/ VenueExecutes(o) \/ VenueCancels(o)
        PROVE  Grows
    BY <2>4, UnchangedGrows
    DEF CancelOrder, VenueExecutes, VenueCancels, memory
  <2> QED
    BY <2>1, <2>3, <2>4 DEF Next
<1> QED
  BY <1>1, TypeCorrect, PTL DEF Spec, FillsNeverShrink, Grows
-----------------------------------------------------------------------------
(* What the life cycle lets a handler reach                                *)

\* The abstract specification and the OMS use one table.
LEMMA SameTable == Lifecycle!LEGAL_TRANSITIONS = LEGAL_TRANSITIONS
BY DEF LEGAL_TRANSITIONS, OrderState, Lifecycle!LEGAL_TRANSITIONS,
       Lifecycle!OrderState

\* A handler may chain up to three legal moves, or make none.
LEMMA FollowSteps ==
  ASSUME NEW S, NEW s \in S
  PROVE  /\ s \in Lifecycle!Follow(S)
         /\ LEGAL_TRANSITIONS[s] \subseteq Lifecycle!Follow(S)
BY SameTable DEF Lifecycle!Follow

LEMMA ReachableSteps ==
  ASSUME NEW s
  PROVE  /\ s \in Lifecycle!Reachable(s)
         /\ \A t \in LEGAL_TRANSITIONS[s] :
              /\ t \in Lifecycle!Reachable(s)
              /\ \A u \in LEGAL_TRANSITIONS[t] :
                   /\ u \in Lifecycle!Reachable(s)
                   /\ LEGAL_TRANSITIONS[u] \subseteq Lifecycle!Reachable(s)
<1> DEFINE F1 == Lifecycle!Follow({s})
           F2 == Lifecycle!Follow(F1)
           F3 == Lifecycle!Follow(F2)
           F4 == Lifecycle!Follow(F3)
<1>1. s \in F1 /\ LEGAL_TRANSITIONS[s] \subseteq F1
  BY FollowSteps
<1>2. \A x \in F1 : x \in F2 /\ LEGAL_TRANSITIONS[x] \subseteq F2
  BY FollowSteps
<1>3. \A x \in F2 : x \in F3 /\ LEGAL_TRANSITIONS[x] \subseteq F3
  BY FollowSteps
<1>4. \A x \in F3 : x \in F4
  BY FollowSteps
<1>5. Lifecycle!Reachable(s) = F4
  BY DEF Lifecycle!Reachable
<1> HIDE DEF F1, F2, F3, F4
<1> QED
  BY <1>1, <1>2, <1>3, <1>4, <1>5

\* The hops the handlers of the OMS chain.
LEMMA Hops ==
  /\ "SUBMITTED" \in LEGAL_TRANSITIONS["CREATED"]
  /\ {"PARTIALLY_FILLED", "FILLED"} \subseteq LEGAL_TRANSITIONS["SUBMITTED"]
BY DEF LEGAL_TRANSITIONS, OrderState
-----------------------------------------------------------------------------
(* Steps of the OMS as steps of the life cycle                             *)

LEMMA AdvancesBy ==
  ASSUME TypeOK, NEW o \in Orders,
         NEW s \in OrderState, s \in Lifecycle!Reachable(Current(o)),
         NEW f \in Nat, f >= fills[o],
         active' = [active EXCEPT ![o] = s],
         fills' = [fills EXCEPT ![o] = f]
  PROVE  Lifecycle!LNext
<1>1. /\ active'[o] = s /\ \A w \in Orders : w # o => active'[w] = active[w]
      /\ fills'[o] = f
  BY DEF TypeOK
<1>2. Current(o)' = s /\ \A w \in Orders : w # o => Current(w)' = Current(w)
  BY <1>1 DEF Current, OrderState
<1>3. [w \in Orders |-> Current(w)]' =
        [[w \in Orders |-> Current(w)] EXCEPT ![o] = s]
  BY <1>2
<1> QED
  BY <1>1, <1>3 DEF Lifecycle!LNext, Lifecycle!Advance

LEMMA AdvancesStill ==
  ASSUME TypeOK, NEW o \in Orders, NEW f \in Nat, f >= fills[o],
         active' = active, fills' = [fills EXCEPT ![o] = f]
  PROVE  Lifecycle!LNext
<1>1. fills'[o] = f
  BY DEF TypeOK
<1>2. [w \in Orders |-> Current(w)]' = [w \in Orders |-> Current(w)]
  BY DEF Current
<1>3. [w \in Orders |-> Current(w)] =
        [[w \in Orders |-> Current(w)] EXCEPT ![o] = Current(o)]
  OBVIOUS
<1>4. Current(o) \in Lifecycle!Reachable(Current(o))
  BY ReachableSteps
<1> QED
  BY <1>1, <1>2, <1>3, <1>4 DEF Lifecycle!LNext, Lifecycle!Advance

\* An event takes an order to a state it can reach, over the implicit
\* SUBMITTED hop if need be, and so does an event that is refused.
LEMMA OutcomeReachable ==
  ASSUME TypeOK, NEW o \in Orders, NEW e, NEW q, Outcome(o, e, q) # Illegal
  PROVE  Outcome(o, e, q) \in Lifecycle!Reachable(Current(o))
<1>1. \/ Outcome(o, e, q) \in LEGAL_TRANSITIONS[Current(o)]
      \/ /\ Current(o) = "CREATED"
         /\ Outcome(o, e, q) \in LEGAL_TRANSITIONS["SUBMITTED"]
  BY TransitionOrderState DEF Outcome
<1> QED
  BY <1>1, ReachableSteps, Hops

LEMMA EventAdvances ==
  ASSUME TypeOK, NEW o \in Orders, NEW e, NEW q \in Nat,
         Transition(o, e, q) \/ TransitionRaises(o, e, q)
  PROVE  Lifecycle!LNext \/ UNCHANGED <<active, fills>>
<1>1. fills[o] \in Nat /\ fills[o] + q \in Nat /\ fills[o] + q >= fills[o]
  BY DEF TypeOK
<1>2. CASE Transition(o, e, q)
  <2>1. /\ Outcome(o, e, q) \in OrderState
        /\ Outcome(o, e, q) \in Lifecycle!Reachable(Current(o))
    BY <1>2, OutcomeType, OutcomeReachable DEF Transition
  <2>2. /\ active' = [active EXCEPT ![o] = Outcome(o, e, q)]
        /\ fills' = [fills EXCEPT ![o] = fills[o] + q]
    BY <1>2 DEF Transition
  <2> QED
    BY <1>1, <2>1, <2>2, AdvancesBy
<1>3. CASE TransitionRaises(o, e, q) /\ Current(o) = "CREATED"
  <2>1. /\ "SUBMITTED" \in OrderState
        /\ "SUBMITTED" \in Lifecycle!Reachable(Current(o))
    BY <1>3, ReachableSteps, Hops DEF OrderState
  <2>2. /\ active' = [active EXCEPT ![o] = "SUBMITTED"]
        /\ fills' = [fills EXCEPT ![o] = fills[o]]
    BY <1>3 DEF TransitionRaises, TypeOK
  <2>3. fills[o] >= fills[o]
    BY <1>1
  <2> QED
    BY <1>1, <2>1, <2>2, <2>3, AdvancesBy
<1>4. CASE TransitionRaises(o, e, q) /\ Current(o) # "CREATED"
  BY <1>4 DEF TransitionRaises
<1> QED
  BY <1>2, <1>3, <1>4

LEMMA CancelAdvances ==
  ASSUME TypeOK, NEW o \in Orders, CancelOrder(o)
  PROVE  Lifecycle!LNext
<1>1. fills[o] \in Nat /\ fills[o] >= fills[o]
  BY DEF TypeOK
<1>2. Current(o) = active[o] /\ active[o] \in OrderState
  BY DEF CancelOrder, Current, TypeOK
<1>3. "CANCELED" \in LEGAL_TRANSITIONS[active[o]]
  <2>1. EventTarget["CANCEL"] = "CANCELED" /\ "CANCELED" # Illegal
    BY DEF EventTarget, OrderEventType, Illegal
  <2> QED
    BY <2>1 DEF CancelOrder, transition_order_state
<1>4. /\ "CANCELED" \in OrderState
      /\ "CANCELED" \in Lifecycle!Reachable(Current(o))
  BY <1>2, <1>3, ReachableSteps DEF OrderState
<1>5. /\ active' = [active EXCEPT ![o] = "CANCELED"]
      /\ fills' = [fills EXCEPT ![o] = fills[o]]
  BY DEF CancelOrder, TypeOK
<1> QED
  BY <1>1, <1>4, <1>5, AdvancesBy

\* Without an outbox, finalization is one step: it follows the table from
\* the order's current state, replaying a fill first for a new order.
LEMMA FinalizeAdvances ==
  ASSUME TypeOK, ~HasOutbox, NEW o \in Orders, NEW q \in Nat,
         FinalizePartialFill(o, q)
  PROVE  Lifecycle!LNext
<1> DEFINE r == ReplayedState(o, q)
<1>1. fills[o] \in Nat /\ fills[o] + q \in Nat /\ fills[o] + q >= fills[o]
  BY DEF TypeOK
<1>2. r \in OrderState /\ r \in LEGAL_TRANSITIONS["SUBMITTED"]
  BY FillTargetType, Hops DEF ReplayedState, OrderState
<1>3. CASE Replays(o)
  <2>1. /\ active' = [active EXCEPT ![o] = Finalized(r)]
        /\ fills' = [fills EXCEPT ![o] = MaxOf(fills[o] + q, q)]
    BY <1>3, Zenon DEF FinalizePartialFill
  <2>2. Current(o) \in {"CREATED", "SUBMITTED"}
    BY <1>3 DEF Replays, FinalizeFrom, Current
  <2>3. Finalized(r) = r \/ Finalized(r) \in LEGAL_TRANSITIONS[r]
    BY DEF Finalized
  <2>4. Finalized(r) \in Lifecycle!Reachable(Current(o))
    BY <1>2, <2>2, <2>3, ReachableSteps, Hops
  <2>5. /\ MaxOf(fills[o] + q, q) \in Nat
        /\ MaxOf(fills[o] + q, q) >= fills[o]
    BY <1>1, MaxOfType DEF MaxOf
  <2>6. Finalized(r) \in OrderState
    BY <1>2, FinalizedType
  <2> QED
    BY <2>1, <2>4, <2>5, <2>6, AdvancesBy
<1>4. CASE ~Replays(o)
  <2>1. /\ active' = [active EXCEPT ![o] = Finalized(FinalizeFrom(o))]
        /\ fills' = [fills EXCEPT ![o] = MaxOf(fills[o], q)]
    BY <1>4, Zenon DEF FinalizePartialFill
  <2>2. FinalizeFrom(o) = Current(o) /\ Current(o) \in OrderState
    BY <1>4, CurrentType DEF Replays, FinalizeFrom, Current
  <2>3. \/ Finalized(Current(o)) = Current(o)
        \/ Finalized(Current(o)) \in LEGAL_TRANSITIONS[Current(o)]
    BY DEF Finalized
  <2>4. Finalized(Current(o)) \in Lifecycle!Reachable(Current(o))
    BY <2>3, ReachableSteps
  <2>5. MaxOf(fills[o], q) \in Nat /\ MaxOf(fills[o], q) >= fills[o]
    BY <1>1, MaxOfType
  <2>6. Finalized(Current(o)) \in OrderState
    BY <2>2, FinalizedType
  <2> QED
    BY <2>1, <2>2, <2>4, <2>5, <2>6, AdvancesBy
<1> QED
  BY <1>3, <1>4

\* ... and no finalization is ever left half done.
NoneFinalizing == \A o \in Orders : finalizing[o] = NotFinalizing

LEMMA NoneFinalizingStays ==
  ASSUME TypeOK, NoneFinalizing, ~HasOutbox, [Next]_vars
  PROVE  NoneFinalizing'
<1>1. UNCHANGED finalizing
  <2>1. CASE UNCHANGED vars
    BY <2>1 DEF vars
  <2>2. ASSUME NEW o \in Orders, Finalization(o)
        PROVE  UNCHANGED finalizing
    <3>1. PICK q \in 0..Qty[o] : FinalizePartialFill(o, q)
      BY <2>2 DEF Finalization, FinalizeSaved, FinalizeSaveFails, NoneFinalizing
    <3> QED
      BY <3>1, Zenon DEF FinalizePartialFill
  <2>3. ASSUME NEW o \in Orders,
               \/ SubmitOrder(o) \/ Submission(o) \/ Filling(o)
               \/ CancelOrder(o) \/ VenueExecutes(o) \/ VenueCancels(o)
        PROVE  UNCHANGED finalizing
    BY <2>3
    DEF SubmitOrder, Submission, Proceeds, RejectStale, QueryVenue,
        VenueReplies, QueryFails, ShadowFill, AdoptExisting, CreateAtVenue,
        Accepted, StatusSaved, StatusSaveFails, RejectFailed,
        VenueAccepts, VenueRefuses, PreflightRaises, Filling, ApplyFill,
        FillRefused, FillSaved, FillSaveFails, CancelOrder, VenueExecutes,
        VenueCancels
  <2> QED
    BY <2>1, <2>2, <2>3 DEF Next
<1> QED
  BY <1>1 DEF NoneFinalizing
-----------------------------------------------------------------------------
(* Refinement                                                              *)

LEMMA StillMapped ==
  ASSUME UNCHANGED <<active, fills>>
  PROVE  UNCHANGED <<[o \in Orders |-> Current(o)], fills>>
BY DEF Current

LEMMA StepMaps ==
  ASSUME TypeOK, NoneFinalizing, ~HasOutbox, [Next]_vars
  PROVE  [Lifecycle!LNext]_(Lifecycle!lifecycle)
<1>1. Lifecycle!LNext \/ UNCHANGED <<active, fills>>
  <2>1. CASE UNCHANGED vars
    BY <2>1 DEF vars
  <2>2. ASSUME NEW o \in Orders,
               \/ SubmitOrder(o) \/ Submission(o) \/ Filling(o)
               \/ CancelOrder(o)
        PROVE  Lifecycle!LNext \/ UNCHANGED <<active, fills>>
    BY <2>2, SubmissionMoves, FillingMoves, EventAdvances, CancelAdvances
    DEF MovesByEvent
  <2>3. ASSUME NEW o \in Orders, Finalization(o)
        PROVE  Lifecycle!LNext
    <3>1. PICK q \in 0..Qty[o] : FinalizePartialFill(o, q)
      BY <2>3 DEF Finalization, FinalizeSaved, FinalizeSaveFails, NoneFinalizing
    <3>2. q \in Nat
      BY OMSAssumption
    <3> QED
      BY <3>1, <3>2, FinalizeAdvances
  <2>4. ASSUME NEW o \in Orders, VenueExecutes(o) \/ VenueCancels(o)
        PROVE  UNCHANGED <<active, fills>>
    BY <2>4 DEF VenueExecutes, VenueCancels, memory
  <2> QED
    BY <2>1, <2>2, <2>3, <2>4 DEF Next
<1> QED
  BY <1>1, StillMapped DEF Lifecycle!lifecycle

\* Without an outbox the OMS implements the life cycle of an order, whatever
\* coroutines, fills, cancellations and venue answers interleave.
THEOREM FollowsLifecycle ==
  ASSUME ~HasOutbox
  PROVE  Spec => ImplementsLifecycle
<1>1. Init => Lifecycle!LInit /\ NoneFinalizing
  <2> SUFFICES ASSUME Init PROVE Lifecycle!LInit /\ NoneFinalizing
    OBVIOUS
  <2>1. [o \in Orders |-> Current(o)] = [o \in Orders |-> "CREATED"]
    BY DEF Init, Current
  <2> QED
    BY <2>1 DEF Init, NoneFinalizing, Lifecycle!LInit
<1>2. TypeOK /\ NoneFinalizing /\ [Next]_vars => NoneFinalizing'
  BY NoneFinalizingStays
<1>3. TypeOK /\ NoneFinalizing /\ [Next]_vars
        => [Lifecycle!LNext]_(Lifecycle!lifecycle)
  BY StepMaps
<1> QED
  BY <1>1, <1>2, <1>3, TypeCorrect, PTL
  DEF Spec, ImplementsLifecycle, Lifecycle!LSpec

LEMMA FinalUnderSteps ==
  ASSUME TypeOK, NEW o \in Orders, active[o] \in TERMINAL_STATES,
         [Lifecycle!LNext]_(Lifecycle!lifecycle)
  PROVE  active'[o] = active[o]
<1>1. /\ active[o] \in OrderState
      /\ LEGAL_TRANSITIONS[active[o]] = {}
      /\ Current(o) = active[o]
  BY DEF TERMINAL_STATES, Current, OrderState
<1>2. active[o] # "CREATED"
  BY <1>1, Hops
<1>3. Lifecycle!Reachable(active[o]) = {active[o]}
  BY <1>1, SameTable DEF Lifecycle!Reachable, Lifecycle!Follow
<1>4. Current(o)' = Current(o)
  <2>1. CASE UNCHANGED Lifecycle!lifecycle
    <3>1. [w \in Orders |-> Current(w)]' = [w \in Orders |-> Current(w)]
      BY <2>1 DEF Lifecycle!lifecycle
    <3>2. [w \in Orders |-> Current(w)]'[o] = Current(o)'
      OBVIOUS
    <3> QED
      BY <3>1, <3>2
  <2>2. CASE Lifecycle!LNext
    <3>1. PICK w \in Orders :
            \E s \in Lifecycle!Reachable(Current(w)) :
              [v \in Orders |-> Current(v)]' =
                [[v \in Orders |-> Current(v)] EXCEPT ![w] = s]
      BY <2>2 DEF Lifecycle!LNext, Lifecycle!Advance
    <3>2. [v \in Orders |-> Current(v)]'[o] = Current(o)'
      OBVIOUS
    <3>3. PICK s \in Lifecycle!Reachable(Current(w)) :
            Current(o)' = IF w = o THEN s ELSE Current(o)
      BY <3>1, <3>2
    <3> QED
      BY <1>1, <1>3, <3>3
  <2> QED
    BY <2>1, <2>2
<1> QED
  BY <1>1, <1>2, <1>4 DEF Current

\* Without an outbox no handler writes over a terminal state.
THEOREM TerminalIsFinal ==
  ASSUME ~HasOutbox
  PROVE  Spec => TerminalStatesAreFinal
<1>1. Init => NoneFinalizing
  BY DEF Init, NoneFinalizing
<1>2. TypeOK /\ NoneFinalizing /\ [Next]_vars => NoneFinalizing'
  BY NoneFinalizingStays
<1>3. TypeOK /\ NoneFinalizing /\ [Next]_vars
        => [\A o \in Orders : active[o] \in TERMINAL_STATES
              => active'[o] = active[o]]_vars
  BY StepMaps, FinalUnderSteps
<1> QED
  BY <1>1, <1>2, <1>3, TypeCorrect, PTL DEF Spec, TerminalStatesAreFinal
-----------------------------------------------------------------------------
(* The inductive invariants, one order at a time                           *)

\* Nothing was sent to the venue yet.
Unsent == {"idle", "preflight", "fetching", "fetched", "creating"}

\* The first submission finds no order at the venue, so it adopts none.
FirstAt(o) ==
  submits[o] <= 1 =>
    /\ submits[o] = 0 => task[o] = "idle"
    /\ reply[o] = "none"
    /\ task[o] \in Unsent => venue[o].status = "none"

\* A working order counted each fill once, as an event; the aggregate of a
\* finalization replaces them in a state that takes no event any more.
FillsAt(o) ==
  submits[o] <= 1 =>
    /\ active[o] \in {NoState, "SUBMITTED", "PARTIALLY_FILLED"}
                       \cup TERMINAL_STATES
    /\ active[o] \in {NoState, "SUBMITTED"} => fills[o] = 0
    /\ active[o] = "PARTIALLY_FILLED" =>
         fills[o] + inflight[o] <= venue[o].exec
    /\ fills[o] <= venue[o].exec

\* Before an order is rejected, if it is.
Early == Unsent \cup {"accepted", "saving", "failed"}

\* As long as submit_order has not raised, an order the venue holds open is
\* not REJECTED, and is known once its acceptance is dealt with.
TrackedAt(o) ==
  submits[o] <= 1 /\ task[o] \notin {"raising", "raised"} =>
    /\ task[o] \in Early \/ venue[o].status = "open" =>
         active[o] # "REJECTED"
    /\ venue[o].status = "open"
         /\ task[o] \notin Unsent \cup {"accepted", "failed"} =>
         active[o] # NoState

\* What a finalization holds over its await is a fill.
FinalizingAt(o) ==
  \/ finalizing[o] = NotFinalizing
  \/ finalizing[o].state \in {"PARTIALLY_FILLED", "FILLED"}
-----------------------------------------------------------------------------
(* What an event makes of a state                                          *)

\* No event is legal in a terminal state.
LEMMA TerminalRefuses ==
  ASSUME NEW o \in Orders, NEW e, NEW q, active[o] \in TERMINAL_STATES
  PROVE  Outcome(o, e, q) = Illegal
<1>1. LEGAL_TRANSITIONS[active[o]] = {} /\ active[o] \in OrderState
  BY DEF TERMINAL_STATES
<1>2. active[o] # NoState /\ active[o] # "CREATED"
  BY <1>1, Hops DEF OrderState
<1> QED
  BY <1>1, <1>2 DEF Outcome, Current, transition_order_state

\* A fill event fills, partially or not.
LEMMA FillOutcome ==
  ASSUME NEW o \in Orders, NEW q
  PROVE  Outcome(o, "FILL", q) \in {Illegal, "PARTIALLY_FILLED", "FILLED"}
BY FillTargetType DEF Outcome, transition_order_state

\* A rejection rejects or is refused.
LEMMA RejectOutcome ==
  ASSUME NEW o \in Orders
  PROVE  Outcome(o, "REJECTED", 0) \in {Illegal, "REJECTED"}
<1>1. EventTarget["REJECTED"] = "REJECTED"
  BY DEF EventTarget, OrderEventType
<1> QED
  BY <1>1 DEF Outcome, transition_order_state

\* Only an order the system has no state of becomes SUBMITTED.
LEMMA SubmittedOutcome ==
  ASSUME TypeOK, NEW o \in Orders
  PROVE  Outcome(o, "SUBMITTED", 0) =
           IF Current(o) = "CREATED" THEN "SUBMITTED" ELSE Illegal
<1>1. EventTarget["SUBMITTED"] = "SUBMITTED"
  BY DEF EventTarget, OrderEventType
<1>2. \A s \in OrderState :
        "SUBMITTED" \in LEGAL_TRANSITIONS[s] <=> s = "CREATED"
  BY DEF LEGAL_TRANSITIONS, OrderState
<1>3. "SUBMITTED" # Illegal
  BY DEF Illegal
<1> QED
  BY <1>1, <1>2, <1>3, CurrentType DEF Outcome, transition_order_state

\* The states a finalization writes.
LEMMA TerminalStates ==
  TERMINAL_STATES = {"FILLED", "PARTIAL_FILL_FINALIZED", "CANCELED",
                     "REJECTED", "EXPIRED", "QUARANTINED"}
<1>1. /\ \A s \in {"FILLED", "PARTIAL_FILL_FINALIZED", "CANCELED",
                     "REJECTED", "EXPIRED", "QUARANTINED"} :
             s \in OrderState /\ LEGAL_TRANSITIONS[s] = {}
      /\ \A s \in {"CREATED", "SUBMITTED", "ACKED", "PARTIALLY_FILLED"} :
             "CANCELED" \in LEGAL_TRANSITIONS[s]
      /\ "QUARANTINED" \in LEGAL_TRANSITIONS["UNKNOWN"]
  BY DEF LEGAL_TRANSITIONS, OrderState
<1> QED
  BY <1>1 DEF TERMINAL_STATES, OrderState

LEMMA FinalizedStates ==
  /\ Finalized("PARTIALLY_FILLED") = "PARTIAL_FILL_FINALIZED"
  /\ \A s \in TERMINAL_STATES : Finalized(s) = s
<1>1. "PARTIAL_FILL_FINALIZED" \in LEGAL_TRANSITIONS["PARTIALLY_FILLED"]
  BY DEF LEGAL_TRANSITIONS, OrderState
<1> QED
  BY <1>1 DEF Finalized, TERMINAL_STATES
-----------------------------------------------------------------------------
(* The first submission                                                    *)

LEMMA FirstKept ==
  ASSUME TypeOK, NEW o \in Orders, FirstAt(o), StepOf(o)
  PROVE  FirstAt(o)'
<1> USE DEF TypeOK, FirstAt, Unsent, AtRest, ReturnAfter, memory
<1>1. CASE SubmitOrder(o)
  BY <1>1 DEF SubmitOrder
<1>2. CASE Submission(o)
  <2>1. CASE \/ RejectStale(o) \/ AdoptExisting(o)
             \/ \E q \in 0..Qty[o] : ShadowFill(o, q)
    BY <2>1 DEF RejectStale, AdoptExisting, ShadowFill
  <2>2. CASE Accepted(o) \/ RejectFailed(o)
    BY <2>2 DEF Accepted, RejectFailed
  <2>3. CASE \/ QueryVenue(o) \/ VenueReplies(o) \/ QueryFails(o)
             \/ CreateAtVenue(o) \/ StatusSaved(o)
             \/ StatusSaveFails(o) \/ PreflightRaises(o)
    BY <2>3 DEF QueryVenue, VenueReplies, QueryFails, CreateAtVenue,
                StatusSaved, StatusSaveFails, PreflightRaises
  <2>4. CASE VenueAccepts(o) \/ VenueRefuses(o)
    BY <2>4 DEF VenueAccepts, VenueRefuses
  <2> QED
    BY <1>2, <2>1, <2>2, <2>3, <2>4, Zenon DEF Submission, Proceeds
<1>3. CASE Filling(o)
  BY <1>3 DEF Filling, ApplyFill, FillRefused, FillSaved, FillSaveFails
<1>4. CASE CancelOrder(o)
  BY <1>4 DEF CancelOrder
<1>5. CASE Finalization(o)
  BY <1>5 DEF Finalization, FinalizePartialFill, FinalizeSaved,
              FinalizeSaveFails
<1>6. CASE VenueExecutes(o)
  BY <1>6 DEF VenueExecutes
<1>7. CASE VenueCancels(o)
  BY <1>7 DEF VenueCancels
<1> QED
  BY <1>1, <1>2, <1>3, <1>4, <1>5, <1>6, <1>7 DEF StepOf
-----------------------------------------------------------------------------
(* Fills of one submission                                                 *)

\* A transition without quantity keeps FillsAt: it leaves the fills alone and
\* makes the order SUBMITTED only if it had no fill.
LEMMA EventKeepsFills ==
  ASSUME TypeOK, NEW o \in Orders, FillsAt(o),
         submits'[o] \in {submits[o], submits[o] + 1},
         UNCHANGED <<venue, inflight>>,
         \/ Transition(o, "REJECTED", 0) \/ TransitionRaises(o, "REJECTED", 0)
         \/ Transition(o, "SUBMITTED", 0)
         \/ TransitionRaises(o, "SUBMITTED", 0)
         \/ UNCHANGED <<active, fills>>
  PROVE  FillsAt(o)'
<1>1. submits[o] <= 1 \/ ~(submits'[o] <= 1)
  BY DEF TypeOK
<1>2. SUFFICES ASSUME submits[o] <= 1, ~ UNCHANGED <<active, fills>>
               PROVE  FillsAt(o)'
  BY <1>1 DEF FillsAt
<1>3. fills'[o] = fills[o] /\ fills[o] \in Nat
  BY DEF Transition, TransitionRaises, TypeOK
<1>4. \/ active'[o] = "REJECTED"
      \/ active'[o] = "SUBMITTED" /\ Current(o) = "CREATED"
      \/ active'[o] = active[o]
  BY RejectOutcome, SubmittedOutcome DEF Transition, TransitionRaises, TypeOK
<1>5. Current(o) = "CREATED" => active[o] = NoState
  BY <1>2, TerminalStates DEF FillsAt, Current
<1> QED
  BY <1>2, <1>3, <1>4, <1>5, TerminalStates DEF FillsAt

LEMMA FinalizeKeepsFills ==
  ASSUME TypeOK, ~HasOutbox, NEW o \in Orders, FillsAt(o),
         NEW q \in Nat, q <= venue[o].exec, FinalizePartialFill(o, q)
  PROVE  FillsAt(o)'
<1>1. UNCHANGED <<submits, venue, inflight>>
  BY DEF FinalizePartialFill
<1>2. SUFFICES ASSUME submits[o] <= 1
               PROVE  FillsAt(o)'
  BY <1>1 DEF FillsAt
<1>3. fills[o] \in Nat /\ venue[o].exec \in Nat
  BY DEF TypeOK
<1>4. CASE Replays(o)
  <2>1. fills[o] = 0
    BY <1>2, <1>4, TerminalStates
    DEF FillsAt, Replays, FinalizeFrom
  <2>2. /\ active' = [active EXCEPT ![o] = Finalized(ReplayedState(o, q))]
        /\ fills' = [fills EXCEPT ![o] = MaxOf(fills[o] + q, q)]
    BY <1>4, Zenon DEF FinalizePartialFill
  <2>3. active'[o] \in TERMINAL_STATES
    BY <2>2, FillTargetType, FinalizedStates, TerminalStates
    DEF ReplayedState, TypeOK
  <2>4. fills'[o] = q
    BY <2>1, <2>2 DEF MaxOf, TypeOK
  <2> QED
    BY <1>1, <1>2, <2>3, <2>4, TerminalStates DEF FillsAt
<1>5. CASE ~Replays(o)
  <2>1. active[o] \in {"PARTIALLY_FILLED"} \cup TERMINAL_STATES
    BY <1>2, <1>5 DEF FillsAt, Replays, FinalizeFrom
  <2>2. /\ active' = [active EXCEPT ![o] = Finalized(FinalizeFrom(o))]
        /\ fills' = [fills EXCEPT ![o] = MaxOf(fills[o], q)]
    BY <1>5, Zenon DEF FinalizePartialFill
  <2>3. FinalizeFrom(o) = active[o]
    BY <2>1, TerminalStates DEF FinalizeFrom
  <2>4. active'[o] \in TERMINAL_STATES
    BY <2>1, <2>2, <2>3, FinalizedStates, TerminalStates DEF TypeOK
  <2>5. fills'[o] <= venue[o].exec
    BY <1>2, <1>3, <2>2 DEF MaxOf, TypeOK, FillsAt
  <2> QED
    BY <1>1, <1>2, <2>4, <2>5, TerminalStates DEF FillsAt
<1> QED
  BY <1>4, <1>5

LEMMA FillKeepsFills ==
  ASSUME TypeOK, NoPhantomPosition, NEW o \in Orders, FillsAt(o), Filling(o)
  PROVE  FillsAt(o)'
<1>1. UNCHANGED <<submits, venue>>
  BY DEF Filling, ApplyFill, FillRefused, FillSaved, FillSaveFails
<1>2. SUFFICES ASSUME submits[o] <= 1
               PROVE  FillsAt(o)'
  BY <1>1 DEF FillsAt
<1>3. /\ fills[o] \in Nat /\ inflight[o] \in Nat /\ venue[o].exec \in Nat
      /\ inflight[o] <= venue[o].exec
  BY DEF TypeOK, NoPhantomPosition
<1>4. ASSUME NEW q \in 1..Qty[o], ApplyFill(o, q)
      PROVE  FillsAt(o)'
  <2>1. active[o] \in {"SUBMITTED", "PARTIALLY_FILLED"}
    BY <1>2, <1>4, TerminalRefuses DEF ApplyFill, Known, Transition, FillsAt
  <2>2. active'[o] \in {"PARTIALLY_FILLED", "FILLED"}
    BY <1>4, FillOutcome DEF ApplyFill, Transition, TypeOK
  <2>3. fills'[o] = fills[o] + q /\ inflight'[o] = inflight[o] - q
    BY <1>4 DEF ApplyFill, Transition, TypeOK
  <2>4. fills[o] + inflight[o] <= venue[o].exec
    BY <1>2, <1>3, <2>1 DEF FillsAt
  <2>5. q \in Nat /\ q <= inflight[o]
    BY <1>3, <1>4 DEF ApplyFill
  <2> QED
    BY <1>1, <1>3, <2>2, <2>3, <2>4, <2>5, TerminalStates DEF FillsAt
<1>5. ASSUME NEW q \in 1..Qty[o], FillRefused(o, q)
      PROVE  FillsAt(o)'
  <2>1. inflight'[o] = inflight[o] - q /\ q \in 1..inflight[o]
    BY <1>5 DEF FillRefused, TypeOK
  <2>2. UNCHANGED <<active, fills>>
    <3>1. Known(o) => Current(o) # "CREATED"
      BY <1>2, TerminalStates DEF Known, Current, FillsAt
    <3> QED
      BY <1>5, <3>1 DEF FillRefused, TransitionRaises
  <2> QED
    BY <1>1, <1>2, <1>3, <2>1, <2>2 DEF FillsAt
<1>6. CASE FillSaved(o) \/ FillSaveFails(o)
  BY <1>1, <1>6 DEF FillSaved, FillSaveFails, FillsAt, memory
<1> QED
  BY <1>4, <1>5, <1>6 DEF Filling

LEMMA VenueKeepsFills ==
  ASSUME TypeOK, NEW o \in Orders, FillsAt(o),
         VenueExecutes(o) \/ VenueCancels(o)
  PROVE  FillsAt(o)'
<1>1. /\ UNCHANGED <<submits, active, fills>>
      /\ fills[o] \in Nat /\ inflight[o] \in Nat /\ venue[o].exec \in Nat
  BY DEF VenueExecutes, VenueCancels, memory, TypeOK
<1>2. CASE VenueExecutes(o)
  <2>1. PICK q \in 1..(Qty[o] - venue[o].exec) :
          /\ venue' = [venue EXCEPT
                         ![o] = [status |-> IF venue[o].exec + q = Qty[o]
                                            THEN "closed" ELSE "open",
                                 exec   |-> venue[o].exec + q]]
          /\ inflight' = [inflight EXCEPT ![o] = @ + q]
    BY <1>2 DEF VenueExecutes
  <2>2. /\ venue'[o].exec = venue[o].exec + q
        /\ inflight'[o] = inflight[o] + q
        /\ q \in Nat
    BY <2>1, OMSAssumption DEF TypeOK
  <2> QED
    BY <1>1, <2>2 DEF FillsAt
<1>3. CASE VenueCancels(o)
  <2>1. venue'[o].exec = venue[o].exec /\ inflight' = inflight
    BY <1>3 DEF VenueCancels, TypeOK
  <2> QED
    BY <1>1, <2>1 DEF FillsAt
<1> QED
  BY <1>2, <1>3

LEMMA CancelKeepsFills ==
  ASSUME TypeOK, NEW o \in Orders, FillsAt(o), CancelOrder(o)
  PROVE  FillsAt(o)'
<1>1. active'[o] = "CANCELED" /\ UNCHANGED <<submits, fills, venue, inflight>>
  BY DEF CancelOrder, TypeOK
<1> QED
  BY <1>1, TerminalStates DEF FillsAt

LEMMA SubmitKeepsFills ==
  ASSUME TypeOK, NEW o \in Orders \ Shadow, FirstAt(o), FillsAt(o),
         SubmitOrder(o) \/ Submission(o)
  PROVE  FillsAt(o)'
<1>1. CASE SubmitOrder(o)
  BY <1>1, EventKeepsFills DEF SubmitOrder, ReturnAfter, TypeOK
<1>2. CASE RejectStale(o)
  BY <1>2, EventKeepsFills DEF RejectStale, ReturnAfter
<1>3. CASE AdoptExisting(o)
  BY <1>3 DEF AdoptExisting, FirstAt, FillsAt
<1>4. CASE Accepted(o) \/ RejectFailed(o)
  BY <1>4, EventKeepsFills DEF Accepted, RejectFailed
<1>5. CASE \/ QueryVenue(o) \/ VenueReplies(o) \/ QueryFails(o)
           \/ CreateAtVenue(o) \/ StatusSaved(o)
           \/ StatusSaveFails(o) \/ PreflightRaises(o)
           \/ VenueRefuses(o)
  BY <1>5, EventKeepsFills
  DEF QueryVenue, VenueReplies, QueryFails, CreateAtVenue, StatusSaved,
      StatusSaveFails, PreflightRaises, VenueRefuses, memory
<1>6. CASE VenueAccepts(o)
  <2>1. /\ UNCHANGED <<submits, active, fills, inflight>>
        /\ venue'[o].exec = venue[o].exec
    BY <1>6 DEF VenueAccepts, memory, TypeOK
  <2> QED
    BY <2>1 DEF FillsAt
<1> QED
  BY <1>1, <1>2, <1>3, <1>4, <1>5, <1>6 DEF Submission, Proceeds, ShadowFill

\* Without an outbox the filled quantity of an order submitted once is never
\* more than the venue executed: the aggregate of a finalization and the fill
\* events it stands for are not both counted, whatever their order.
THEOREM FillsAreExecuted ==
  ASSUME ~HasOutbox
  PROVE  Spec => []FillsWithinExecuted
<1> DEFINE I == /\ NoneFinalizing
                /\ \A o \in Orders : FirstAt(o)
                /\ \A o \in Orders \ Shadow : FillsAt(o)
<1>1. Init => I
  BY DEF Init, NoneFinalizing, FirstAt, FillsAt
<1>2. TypeOK /\ NoPhantomPosition /\ I /\ [Next]_vars => I'
  <2> SUFFICES ASSUME TypeOK, NoPhantomPosition, I, [Next]_vars
               PROVE  I'
    OBVIOUS
  <2>1. CASE UNCHANGED vars
    BY <2>1 DEF vars, NoneFinalizing, FirstAt, FillsAt
  <2>2. NoneFinalizing'
    BY NoneFinalizingStays
  <2>3. ASSUME NEW o \in Orders, StepOf(o)
        PROVE  I'
    <3>1. FirstAt(o)'
      BY <2>3, FirstKept
    <3>2. ASSUME o \notin Shadow PROVE FillsAt(o)'
      <4>1. ASSUME NEW q \in 0..Qty[o], q <= venue[o].exec,
                   FinalizePartialFill(o, q)
            PROVE  FillsAt(o)'
        BY <3>2, <4>1, OMSAssumption, FinalizeKeepsFills
      <4>2. ~(FinalizeSaved(o) \/ FinalizeSaveFails(o))
        BY DEF NoneFinalizing, FinalizeSaved, FinalizeSaveFails
      <4> QED
        BY <2>3, <3>2, <4>1, <4>2, SubmitKeepsFills, FillKeepsFills,
           CancelKeepsFills, VenueKeepsFills
        DEF StepOf, Finalization
    <3>3. \A w \in Orders : w # o => FirstAt(w)' /\ (FillsAt(w) => FillsAt(w)')
      BY <2>3, StepOfOne DEF Untouched, FirstAt, FillsAt
    <3> QED
      BY <2>2, <3>1, <3>2, <3>3
  <2> QED
    BY <2>1, <2>3 DEF Next, StepOf
<1>3. I => FillsWithinExecuted
  BY DEF FillsAt, FillsWithinExecuted
<1> QED
  BY <1>1, <1>2, <1>3, TypeCorrect, PositionsAreExecuted, PTL DEF Spec
-----------------------------------------------------------------------------
(* Live at the venue, known to the system                                  *)

LEMMA TrackedSubmission ==
  ASSUME TypeOK, NEW o \in Orders, FirstAt(o), TrackedAt(o),
         SubmitOrder(o) \/ Submission(o)
  PROVE  TrackedAt(o)'
<1> USE DEF Unsent, Early
<1>1. CASE SubmitOrder(o)
  <2>1. SUFFICES ASSUME submits'[o] <= 1
                 PROVE  TrackedAt(o)'
    BY DEF TrackedAt
  <2>2. submits[o] = 0 /\ task[o] = "idle" /\ venue'[o].status = "none"
    BY <1>1, <2>1 DEF SubmitOrder, TypeOK, FirstAt
  <2>3. CASE o \in BelowGrid
    <3>1. task'[o] \in {"returning", "returned", "illegal"}
      BY <1>1, <2>3 DEF SubmitOrder, ReturnAfter, TypeOK
    <3> QED
      BY <2>2, <3>1 DEF TrackedAt
  <2>4. CASE o \notin BelowGrid
    <3>1. task'[o] = "preflight" /\ UNCHANGED active
      BY <1>1, <2>4 DEF SubmitOrder, TypeOK
    <3> QED
      BY <2>2, <3>1 DEF TrackedAt
  <2> QED
    BY <2>3, <2>4
<1>2. CASE SubmitOrder(o) \/ ~(submits[o] <= 1)
  BY <1>1, <1>2
  DEF TrackedAt, Submission, Proceeds, RejectStale, QueryVenue, VenueReplies,
      QueryFails, ShadowFill, AdoptExisting, CreateAtVenue, Accepted,
      StatusSaved, StatusSaveFails, RejectFailed, VenueAccepts,
      VenueRefuses, PreflightRaises
<1>3. SUFFICES ASSUME submits[o] <= 1, Submission(o)
               PROVE  TrackedAt(o)'
  BY <1>2
<1>4. CASE \/ RejectStale(o) \/ \E q \in 0..Qty[o] : ShadowFill(o, q)
  <2>1. /\ venue'[o].status = "none"
        /\ task'[o] \in {"returning", "returned", "illegal"}
    BY <1>3, <1>4 DEF RejectStale, ShadowFill, ReturnAfter, TypeOK, FirstAt
  <2> QED
    BY <2>1 DEF TrackedAt
<1>5. CASE AdoptExisting(o)
  BY <1>3, <1>5 DEF AdoptExisting, FirstAt
<1>6. CASE \/ QueryVenue(o) \/ VenueReplies(o) \/ CreateAtVenue(o)
  BY <1>3, <1>6
  DEF QueryVenue, VenueReplies, CreateAtVenue, memory, TypeOK, TrackedAt
<1>7. CASE QueryFails(o) \/ PreflightRaises(o)
  <2>1. task'[o] = "raised"
    BY <1>7 DEF QueryFails, PreflightRaises, TypeOK
  <2> QED
    BY <2>1 DEF TrackedAt
<1>8. CASE StatusSaved(o) \/ StatusSaveFails(o)
  BY <1>3, <1>8 DEF StatusSaved, StatusSaveFails, memory, TypeOK, TrackedAt
<1>9. CASE Accepted(o)
  <2>1. CASE Current(o) = "CREATED"
    <3>1. /\ active'[o] = "SUBMITTED"
          /\ task'[o] \in {"saving", "returned"}
      BY <1>9, <2>1, SubmittedOutcome
      DEF Accepted, Transition, TransitionRaises, TypeOK, Illegal
    <3> QED
      BY <3>1 DEF TrackedAt
  <2>2. CASE Current(o) # "CREATED"
    <3>1. task'[o] = "failed" /\ active'[o] = active[o]
      BY <1>9, <2>2, SubmittedOutcome
      DEF Accepted, Transition, TransitionRaises, TypeOK
    <3>2. active[o] # "REJECTED"
      BY <1>3, <1>9 DEF Accepted, TrackedAt
    <3> QED
      BY <3>1, <3>2 DEF TrackedAt
  <2> QED
    BY <2>1, <2>2
<1>10. CASE RejectFailed(o)
  <2>1. CASE task'[o] \in {"raising", "raised"}
    BY <2>1 DEF TrackedAt
  <2>2. CASE task'[o] \notin {"raising", "raised"}
    <3>1. TransitionRaises(o, "REJECTED", 0) /\ task'[o] = "illegal"
      BY <1>10, <2>2 DEF RejectFailed, TypeOK
    <3>2. active[o] # "REJECTED"
      BY <1>3, <1>10 DEF RejectFailed, TrackedAt
    <3>3. active'[o] \notin {NoState, "REJECTED"}
      BY <3>1, <3>2 DEF TransitionRaises, Current, TypeOK
    <3> QED
      BY <3>1, <3>3 DEF TrackedAt
  <2> QED
    BY <2>1, <2>2
<1>11. CASE VenueAccepts(o)
  <2>1. /\ task'[o] \in {"accepted", "failed"} /\ UNCHANGED active
        /\ task[o] = "creating"
    BY <1>11 DEF VenueAccepts, memory, TypeOK
  <2> QED
    BY <1>3, <2>1 DEF TrackedAt
<1>12. CASE VenueRefuses(o)
  <2>1. /\ task'[o] = "failed" /\ UNCHANGED active
        /\ task[o] = "creating"
    BY <1>12 DEF VenueRefuses, memory, TypeOK
  <2> QED
    BY <1>3, <2>1 DEF TrackedAt
<1> QED
  BY <1>3, <1>4, <1>5, <1>6, <1>7, <1>8, <1>9, <1>10, <1>11, <1>12, Zenon
  DEF Submission, Proceeds

\* The other steps leave the coroutine alone, and reject nothing.
LEMMA BesideRejects ==
  ASSUME TypeOK, NEW o \in Orders, FinalizingAt(o),
         \/ Filling(o) \/ CancelOrder(o) \/ Finalization(o)
         \/ VenueExecutes(o) \/ VenueCancels(o)
  PROVE  active'[o] = active[o] \/ active'[o] \notin {NoState, "REJECTED"}
<1>1. ASSUME NEW q \in 1..Qty[o], ApplyFill(o, q)
      PROVE  active'[o] \notin {NoState, "REJECTED"}
  BY <1>1, FillOutcome DEF ApplyFill, Transition, TypeOK
<1>2. ASSUME NEW q \in 1..Qty[o], FillRefused(o, q)
      PROVE  active'[o] \in {active[o], "SUBMITTED"}
  BY <1>2 DEF FillRefused, TransitionRaises, TypeOK
<1>3. CASE FillSaved(o) \/ FillSaveFails(o)
  BY <1>3 DEF FillSaved, FillSaveFails, memory
<1>4. CASE CancelOrder(o)
  BY <1>4 DEF CancelOrder, TypeOK
<1>5. ASSUME NEW q \in 0..Qty[o], FinalizePartialFill(o, q)
      PROVE  active'[o] = active[o] \/ active'[o] \notin {NoState, "REJECTED"}
  <2>1. CASE Replays(o)
    <3>1. \/ active'[o] = Finalized(ReplayedState(o, q))
          \/ active'[o] = ReplayedState(o, q)
      BY <1>5, <2>1, Zenon DEF FinalizePartialFill, TypeOK
    <3> QED
      BY <3>1, FillTargetType, FinalizedStates, TerminalStates
      DEF ReplayedState
  <2>2. CASE ~Replays(o)
    <3>1. active' = [active EXCEPT ![o] = Finalized(FinalizeFrom(o))]
      BY <1>5, <2>2, Zenon DEF FinalizePartialFill
    <3>2. FinalizeFrom(o) = active[o]
      BY <2>2 DEF Replays, FinalizeFrom
    <3> QED
      BY <3>1, <3>2 DEF Finalized, TypeOK
  <2> QED
    BY <2>1, <2>2
<1>6. CASE FinalizeSaved(o)
  <2>1. finalizing[o].state \in {"PARTIALLY_FILLED", "FILLED"}
    BY <1>6 DEF FinalizeSaved, FinalizingAt
  <2>2. active'[o] = Finalized(finalizing[o].state)
    BY <1>6 DEF FinalizeSaved, TypeOK
  <2> QED
    BY <2>1, <2>2, FinalizedStates, TerminalStates
<1>7. CASE FinalizeSaveFails(o) \/ VenueExecutes(o) \/ VenueCancels(o)
  BY <1>7 DEF FinalizeSaveFails, VenueExecutes, VenueCancels, memory
<1> QED
  BY <1>1, <1>2, <1>3, <1>4, <1>5, <1>6, <1>7 DEF Filling, Finalization

LEMMA TrackedBeside ==
  ASSUME TypeOK, NEW o \in Orders, FinalizingAt(o), TrackedAt(o),
         \/ Filling(o) \/ CancelOrder(o) \/ Finalization(o)
         \/ VenueExecutes(o) \/ VenueCancels(o)
  PROVE  TrackedAt(o)'
<1>1. /\ UNCHANGED <<task, submits>>
      /\ venue'[o].status = "open" => venue[o].status = "open"
  <2>1. CASE Filling(o) \/ CancelOrder(o) \/ Finalization(o)
    BY <2>1 DEF Filling, ApplyFill, FillRefused, FillSaved, FillSaveFails,
                CancelOrder, Finalization, FinalizePartialFill,
                FinalizeSaved, FinalizeSaveFails
  <2>2. CASE VenueExecutes(o) \/ VenueCancels(o)
    BY <2>2 DEF VenueExecutes, VenueCancels, TypeOK
  <2> QED
    BY <2>1, <2>2
<1> QED
  BY <1>1, BesideRejects DEF TrackedAt

LEMMA FinalizingKept ==
  ASSUME TypeOK, NEW o \in Orders, NEW w \in Orders, FinalizingAt(w), StepOf(o)
  PROVE  FinalizingAt(w)'
<1>1. CASE UNCHANGED finalizing
  BY <1>1 DEF FinalizingAt
<1>2. ASSUME NEW q \in 0..Qty[o], FinalizePartialFill(o, q)
      PROVE  FinalizingAt(w)'
  <2>1. \/ UNCHANGED finalizing
        \/ finalizing' = [finalizing EXCEPT
                             ![o] = [state |-> ReplayedState(o, q), qty |-> q]]
    BY <1>2, Zenon DEF FinalizePartialFill
  <2>2. ReplayedState(o, q) \in {"PARTIALLY_FILLED", "FILLED"}
    BY FillTargetType DEF ReplayedState
  <2> QED
    BY <1>1, <2>1, <2>2 DEF FinalizingAt, TypeOK
<1>3. CASE FinalizeSaved(o) \/ FinalizeSaveFails(o)
  BY <1>3 DEF FinalizeSaved, FinalizeSaveFails, FinalizingAt, TypeOK
<1>4. CASE \/ SubmitOrder(o) \/ Submission(o) \/ Filling(o)
           \/ CancelOrder(o) \/ VenueExecutes(o) \/ VenueCancels(o)
  <2>1. UNCHANGED finalizing
    BY <1>4
    DEF SubmitOrder, Submission, Proceeds, RejectStale, QueryVenue,
        VenueReplies, QueryFails, ShadowFill, AdoptExisting, CreateAtVenue,
        Accepted, StatusSaved, StatusSaveFails, RejectFailed,
        VenueAccepts, VenueRefuses, PreflightRaises, Filling, ApplyFill,
        FillRefused, FillSaved, FillSaveFails, CancelOrder, VenueExecutes,
        VenueCancels
  <2> QED
    BY <1>1, <2>1
<1> QED
  BY <1>2, <1>3, <1>4 DEF StepOf, Finalization

\* With or without an outbox, and whichever calls time out: an order that is
\* open at the venue after its only submission, but unknown or REJECTED
\* locally, is one whose submit_order raised.
THEOREM UntrackedOrdersRaised == Spec => []UntrackedOnlyAfterRaise
<1> DEFINE I == \A o \in Orders : FinalizingAt(o) /\ FirstAt(o) /\ TrackedAt(o)
<1>1. Init => I
  BY DEF Init, FinalizingAt, FirstAt, TrackedAt, Unsent
<1>2. TypeOK /\ I /\ [Next]_vars => I'
  <2> SUFFICES ASSUME TypeOK, I, [Next]_vars
               PROVE  I'
    OBVIOUS
  <2>1. CASE UNCHANGED vars
    BY <2>1 DEF vars, FinalizingAt, FirstAt, TrackedAt
  <2>2. ASSUME NEW o \in Orders, StepOf(o)
        PROVE  I'
    <3>1. FirstAt(o)' /\ TrackedAt(o)'
      BY <2>2, FirstKept, TrackedSubmission, TrackedBeside DEF StepOf
    <3>2. \A w \in Orders : w # o => FirstAt(w)' /\ TrackedAt(w)'
      BY <2>2, StepOfOne DEF Untouched, FirstAt, TrackedAt
    <3>3. \A w \in Orders : FinalizingAt(w)'
      BY <2>2, FinalizingKept
    <3> QED
      BY <3>1, <3>2, <3>3
  <2> QED
    BY <2>1, <2>2 DEF Next, StepOf
<1>3. I => UntrackedOnlyAfterRaise
  BY DEF FirstAt, TrackedAt, UntrackedOnlyAfterRaise, Unsent, AtRest
<1> QED
  BY <1>1, <1>2, <1>3, TypeCorrect, PTL DEF Spec
-----------------------------------------------------------------------------
(* The order chaser beside the OMS                                          *)

\* What the chaser was told, or will be, was executed.
SeenIsExecuted ==
  \A o \in Orders : seen[o] + unseen[o] <= venue[o].exec

\* The venue executes no more than was asked for, and closes a full order.
VenueSane ==
  \A o \in Orders : /\ venue[o].exec <= Qty[o]
                    /\ venue[o].exec = Qty[o] => venue[o].status = "closed"

-----------------------------------------------------------------------------
(* The venue under the steps of the OMS                                    *)

LEMMA VenueMoves ==
  ASSUME [Next]_vars
  PROVE  \/ UNCHANGED venue
         \/ \E o \in Orders :
              VenueExecutes(o) \/ VenueCancels(o) \/ VenueAccepts(o)
<1>1. ASSUME NEW o \in Orders, SubmitOrder(o) \/ Submission(o)
      PROVE  UNCHANGED venue \/ VenueAccepts(o)
  BY <1>1
  DEF SubmitOrder, Submission, Proceeds, RejectStale, QueryVenue,
      VenueReplies, QueryFails, ShadowFill, AdoptExisting, CreateAtVenue,
      Accepted, StatusSaved, StatusSaveFails, RejectFailed,
      VenueRefuses, PreflightRaises
<1>2. ASSUME NEW o \in Orders,
             Filling(o) \/ CancelOrder(o) \/ Finalization(o)
      PROVE  UNCHANGED venue
  BY <1>2
  DEF Filling, ApplyFill, FillRefused, FillSaved, FillSaveFails, CancelOrder,
      Finalization, FinalizePartialFill, FinalizeSaved, FinalizeSaveFails
<1> QED
  BY <1>1, <1>2 DEF Next, vars

LEMMA ExecutesOnly ==
  ASSUME TypeOK, NEW o \in Orders, VenueExecutes(o)
  PROVE  \E q \in Nat \ {0} :
           /\ q <= Qty[o] - venue[o].exec
           /\ venue'[o].exec = venue[o].exec + q
           /\ venue'[o].status =
                IF venue[o].exec + q = Qty[o] THEN "closed" ELSE "open"
           /\ \A w \in Orders \ {o} : venue'[w] = venue[w]
<1>1. PICK q \in 1..(Qty[o] - venue[o].exec) :
        venue' = [venue EXCEPT
                    ![o] = [status |-> IF venue[o].exec + q = Qty[o]
                                       THEN "closed" ELSE "open",
                            exec   |-> venue[o].exec + q]]
  BY DEF VenueExecutes
<1>2. q \in Nat \ {0} /\ q <= Qty[o] - venue[o].exec
  BY OMSAssumption DEF TypeOK
<1> QED
  BY <1>1, <1>2 DEF TypeOK

LEMMA CancelsOnly ==
  ASSUME TypeOK, NEW o \in Orders, VenueCancels(o)
  PROVE  /\ venue'[o].exec = venue[o].exec
         /\ venue'[o].status = "canceled" /\ venue[o].status = "open"
         /\ \A w \in Orders \ {o} : venue'[w] = venue[w]
BY DEF VenueCancels, TypeOK

LEMMA AcceptsOnly ==
  ASSUME TypeOK, NEW o \in Orders, VenueAccepts(o)
  PROVE  /\ venue'[o].exec = venue[o].exec
         /\ venue'[o].status = "open" /\ venue[o].status = "none"
         /\ \A w \in Orders \ {o} : venue'[w] = venue[w]
BY DEF VenueAccepts, TypeOK

LEMMA VenueSaneKept ==
  ASSUME TypeOK, VenueSane, [Next]_vars
  PROVE  VenueSane'
<1>1. \A o \in Orders : venue[o].exec \in Nat /\ Qty[o] \in Nat
  BY OMSAssumption DEF TypeOK
<1>2. CASE UNCHANGED venue
  BY <1>2 DEF VenueSane
<1>3. ASSUME NEW o \in Orders, VenueExecutes(o)
      PROVE  VenueSane'
  BY <1>1, <1>3, ExecutesOnly DEF VenueSane
<1>4. ASSUME NEW o \in Orders, VenueCancels(o) \/ VenueAccepts(o)
      PROVE  VenueSane'
  BY <1>1, <1>4, CancelsOnly, AcceptsOnly DEF VenueSane
<1> QED
  BY <1>2, <1>3, <1>4, VenueMoves
-----------------------------------------------------------------------------
(* The chaser's steps are steps of the OMS                                 *)

LEMMA ChaserTypes ==
  ASSUME CTypeOK, NEW o \in Orders
  PROVE  /\ seen[o] \in Nat /\ unseen[o] \in Nat
         /\ venue[o].exec \in Nat /\ Qty[o] \in Nat
BY OMSAssumption DEF CTypeOK, TypeOK

LEMMA StepImplements ==
  ASSUME CTypeOK, SeenIsExecuted, VenueSane, [CNext]_cvars
  PROVE  [Next]_vars
<1>1. ASSUME NEW o \in Orders, Abandon(o)
      PROVE  Next
  <2>1. seen[o] \in 0..Qty[o] /\ seen[o] <= venue[o].exec
    BY ChaserTypes DEF SeenIsExecuted, VenueSane
  <2> QED
    BY <1>1, <2>1 DEF Abandon, AbandonWith, Next, Finalization
<1>2. ASSUME NEW o \in Orders, ChaseFinalized(o) \/ ChaseFinalizeFails(o)
      PROVE  Next
  BY <1>2 DEF ChaseFinalized, ChaseFinalizeFails, Next, Finalization
<1>3. ASSUME NEW o \in Orders, ChaseCancels(o)
      PROVE  Next
  BY <1>3 DEF ChaseCancels, Next
<1>4. ASSUME NEW o \in Orders, NEW w \in Orders,
             WashCancel(o, w) \/ WashCancelRaises(o, w)
      PROVE  Next
  BY <1>4 DEF WashCancel, WashCancelRaises, Next, Submission
<1>5. ASSUME NEW o \in Orders,
             \/ SubmitChased(o) \/ SubmissionGoesOn(o)
             \/ ExecutesChased(o) \/ Others(o)
      PROVE  Next
  BY <1>5 DEF SubmitChased, SubmissionGoesOn, ExecutesChased, Others, Next,
              Submission
<1>6. ASSUME NEW o \in Orders,
             \/ RegisterOrder(o) \/ GoesStale(o) \/ Visit(o)
             \/ RateLimited(o) \/ ScanAborts(o) \/ ChaseSaved(o)
             \/ \E q \in 1..Qty[o] : OnFillEvent(o, q)
             \/ \E w \in Orders : WashCanceled(o, w)
      PROVE  UNCHANGED vars
  BY <1>6 DEF RegisterOrder, GoesStale, Visit, RateLimited, ScanAborts,
              ChaseSaved, OnFillEvent, WashCanceled
<1>7. CASE StartScan \/ EndScan
  BY <1>7 DEF StartScan, EndScan
<1>8. CASE UNCHANGED cvars
  BY <1>8 DEF cvars
<1> QED
  BY <1>1, <1>2, <1>3, <1>4, <1>5, <1>6, <1>7, <1>8 DEF CNext, Scanning
-----------------------------------------------------------------------------
(* Types and what the chaser sees                                          *)

BesideChaser == <<chaser, unseen>>

ScanType == [at : {"idle", "scanning", "info", "answered", "replaying",
                  "saving"},
             todo : SUBSET Orders, cur : SUBSET Orders, below : BOOLEAN,
             remove : SUBSET Orders]

\* The updates of a scan's record.
LEMMA ScanUpdates ==
  ASSUME NEW s \in ScanType, NEW o \in Orders, NEW b \in BOOLEAN
  PROVE  /\ NoScan \in ScanType
         /\ [NoScan EXCEPT !.at = "scanning", !.todo = tracked \cap Orders]
              \in ScanType
         /\ [s EXCEPT !.todo = @ \ {o}] \in ScanType
         /\ [s EXCEPT !.remove = @ \cup {o}] \in ScanType
         /\ [s EXCEPT !.at = "info", !.cur = {o}, !.below = b] \in ScanType
         /\ [s EXCEPT !.at = "scanning", !.cur = {}] \in ScanType
         /\ \A a \in {"answered", "replaying", "saving"} :
              [s EXCEPT !.at = a] \in ScanType
BY DEF ScanType, NoScan

LEMMA NextOrderType ==
  ASSUME scan \in ScanType, NEW o \in Orders, NextOrder(o)
  PROVE  scan' \in ScanType
<1>1. CASE scan.below
  BY <1>1 DEF NextOrder, ScanType
<1>2. CASE ~scan.below
  BY <1>2 DEF NextOrder, ScanType
<1> QED
  BY <1>1, <1>2

\* What a scan does to its own record keeps the record's type.
LEMMA ScanTypes ==
  ASSUME CTypeOK, [CNext]_cvars
  PROVE  scan' \in ScanType
<1>1. scan \in ScanType /\ tracked \cap Orders = tracked
  BY DEF CTypeOK, ScanType
<1>2. CASE StartScan
  BY <1>1, <1>2, ScanUpdates DEF StartScan
<1>3. CASE EndScan
  BY <1>3 DEF EndScan, ScanType, NoScan
<1>4. ASSUME NEW o \in Orders, Visit(o)
      PROVE  scan' \in ScanType
  <2> DEFINE left == [scan EXCEPT !.todo = @ \ {o}]
  <2>1. left \in ScanType
    BY <1>1, ScanUpdates
  <2>2. \/ scan' = left
        \/ scan' = [left EXCEPT !.remove = @ \cup {o}]
        \/ \E b \in BOOLEAN :
             scan' = [left EXCEPT !.at = "info", !.cur = {o}, !.below = b]
    <3>1. CASE status[o] \in Finished
      BY <1>4, <3>1 DEF Visit
    <3>2. CASE status[o] \notin Finished /\ fresh[o]
      BY <1>4, <3>2 DEF Visit
    <3>3. CASE status[o] \notin Finished /\ ~fresh[o]
      <4>1. scan' = [left EXCEPT !.at = "info", !.cur = {o},
                                 !.below = Qty[o] - seen[o] < MinQty]
        BY <1>4, <3>3 DEF Visit
      <4>2. (Qty[o] - seen[o] < MinQty) \in BOOLEAN
        OBVIOUS
      <4> HIDE DEF left
      <4> QED
        BY <4>1, <4>2, Zenon
    <3> QED
      BY <3>1, <3>2, <3>3
  <2> HIDE DEF left
  <2>3. \A b \in BOOLEAN :
          /\ [left EXCEPT !.remove = @ \cup {o}] \in ScanType
          /\ [left EXCEPT !.at = "info", !.cur = {o}, !.below = b] \in ScanType
    BY <2>1, ScanUpdates, Zenon
  <2> QED
    BY <2>1, <2>2, <2>3, Zenon
<1>5. ASSUME NEW o \in Orders,
             \/ RateLimited(o) \/ ChaseCancels(o) \/ ScanAborts(o)
             \/ ChaseFinalized(o) \/ ChaseFinalizeFails(o)
      PROVE  scan' \in ScanType
  BY <1>1, <1>5, ScanUpdates
  DEF RateLimited, ChaseCancels, ScanAborts, ChaseFinalized,
      ChaseFinalizeFails
<1>6. ASSUME NEW o \in Orders, Abandon(o) \/ ChaseSaved(o)
      PROVE  scan' \in ScanType
  <2>1. \/ NextOrder(o) \/ scan' = NoScan
        \/ \E a \in {"replaying", "saving"} : scan' = [scan EXCEPT !.at = a]
    BY <1>6 DEF Abandon, AbandonWith, ChaseSaved
  <2> QED
    BY <1>1, <2>1, NextOrderType, ScanUpdates
<1>7. ASSUME NEW o \in Orders,
             \/ SubmitChased(o) \/ SubmissionGoesOn(o)
             \/ \E w \in Orders : \/ WashCancel(o, w) \/ WashCanceled(o, w)
                                 \/ WashCancelRaises(o, w)
             \/ RegisterOrder(o) \/ GoesStale(o)
             \/ \E q \in 1..Qty[o] : OnFillEvent(o, q)
             \/ ExecutesChased(o) \/ Others(o)
      PROVE  scan' \in ScanType
  BY <1>1, <1>7
  DEF SubmitChased, SubmissionGoesOn, WashCancel, WashCanceled,
      WashCancelRaises, RegisterOrder, GoesStale, OnFillEvent, ExecutesChased, Others
<1>8. CASE UNCHANGED cvars
  BY <1>1, <1>8 DEF cvars
<1> QED
  BY <1>2, <1>3, <1>4, <1>5, <1>6, <1>7, <1>8 DEF CNext, Scanning

\* What becomes of the working orders: everything but the fill feed, the
\* venue's executions and the chaser itself leaves them alone.
LEMMA WorkingTypes ==
  ASSUME CTypeOK, SeenIsExecuted, VenueSane, [CNext]_cvars
  PROVE  /\ tracked' \subseteq Orders
         /\ status' \in [Orders -> Finished \cup {"SUBMITTED"}]
         /\ seen' \in [Orders -> Nat]
         /\ fresh' \in [Orders -> BOOLEAN]
         /\ unseen' \in [Orders -> Nat]
<1> USE DEF CTypeOK, chaser, Finished
<1>1. ASSUME NEW o \in Orders,
             \/ SubmitChased(o) \/ SubmissionGoesOn(o) \/ Others(o)
             \/ \E w \in Orders : WashCancel(o, w) \/ WashCancelRaises(o, w)
      PROVE  UNCHANGED BesideChaser
  BY <1>1 DEF SubmitChased, SubmissionGoesOn, Others, WashCancel,
              WashCancelRaises, BesideChaser
<1>2. ASSUME NEW o \in Orders,
             \/ Visit(o) \/ RateLimited(o) \/ ChaseCancels(o) \/ ScanAborts(o)
             \/ ChaseFinalized(o) \/ ChaseFinalizeFails(o) \/ ChaseSaved(o)
      PROVE  UNCHANGED BesideChaser
  BY <1>2 DEF Visit, RateLimited, ChaseCancels, ScanAborts, ChaseFinalized,
              ChaseFinalizeFails, ChaseSaved, BesideChaser
<1>3. ASSUME NEW o \in Orders, NEW w \in Orders, WashCanceled(o, w)
      PROVE  /\ UNCHANGED <<tracked, seen, fresh, unseen>>
             /\ status' \in [Orders -> Finished \cup {"SUBMITTED"}]
  BY <1>3 DEF WashCanceled
<1>5. ASSUME NEW o \in Orders, RegisterOrder(o) \/ GoesStale(o)
      PROVE  /\ tracked' \subseteq Orders /\ fresh' \in [Orders -> BOOLEAN]
             /\ UNCHANGED <<status, seen, unseen>>
  BY <1>5 DEF RegisterOrder, GoesStale
<1>6. ASSUME NEW o \in Orders, NEW q \in 1..Qty[o], OnFillEvent(o, q)
      PROVE  /\ status' \in [Orders -> Finished \cup {"SUBMITTED"}]
             /\ seen' \in [Orders -> Nat] /\ unseen' \in [Orders -> Nat]
             /\ fresh' \in [Orders -> BOOLEAN]
             /\ UNCHANGED tracked
  <2>1. unseen' \in [Orders -> Nat] /\ UNCHANGED tracked
    BY <1>6, ChaserTypes DEF OnFillEvent
  <2>2. CASE o \in tracked
    <3>1. /\ seen' = [seen EXCEPT ![o] = @ + q]
          /\ fresh' = [fresh EXCEPT ![o] = TRUE]
          /\ \/ status' = [status EXCEPT ![o] = "FILLED"]
             \/ status' = [status EXCEPT ![o] = @]
      BY <1>6, <2>2 DEF OnFillEvent
    <3> QED
      BY <2>1, <3>1, ChaserTypes
  <2>3. CASE o \notin tracked
    BY <1>6, <2>1, <2>3 DEF OnFillEvent
  <2> QED
    BY <2>2, <2>3
<1>7. ASSUME NEW o \in Orders, ExecutesChased(o)
      PROVE  UNCHANGED chaser /\ unseen' \in [Orders -> Nat]
  <2>1. unseen[o] + venue'[o].exec - venue[o].exec \in Nat
    BY <1>7, ChaserTypes, ExecutesOnly DEF ExecutesChased
  <2> QED
    BY <1>7, <2>1 DEF ExecutesChased
<1>8. ASSUME NEW o \in Orders, Abandon(o)
      PROVE  /\ UNCHANGED <<tracked, seen, fresh, unseen>>
             /\ status' \in [Orders -> Finished \cup {"SUBMITTED"}]
  BY <1>8 DEF Abandon, AbandonWith
<1>9. CASE StartScan \/ EndScan
  BY <1>9 DEF StartScan, EndScan
<1>10. CASE UNCHANGED cvars
  BY <1>10 DEF cvars
<1> QED
  BY <1>1, <1>2, <1>3, <1>5, <1>6, <1>7, <1>8, <1>9, <1>10
  DEF CNext, Scanning, BesideChaser

\* What becomes of a submission's wash trading loop.
LEMMA WashTypes ==
  ASSUME CTypeOK, [CNext]_cvars
  PROVE  /\ wash' \in [Orders -> SUBSET Orders]
         /\ answered' \in [Orders -> SUBSET Orders]
         /\ found' \in [Orders -> SUBSET Orders]
<1> USE DEF CTypeOK, washing
<1>1. ASSUME NEW o \in Orders, SubmitChased(o)
      PROVE  /\ wash' \in [Orders -> SUBSET Orders]
             /\ answered' \in [Orders -> SUBSET Orders]
             /\ found' \in [Orders -> SUBSET Orders]
  BY <1>1 DEF SubmitChased, Opposite
<1>2. ASSUME NEW o \in Orders, NEW w \in Orders,
             \/ WashCancel(o, w) \/ WashCanceled(o, w)
             \/ WashCancelRaises(o, w)
      PROVE  /\ wash' \in [Orders -> SUBSET Orders]
             /\ answered' \in [Orders -> SUBSET Orders]
             /\ found' \in [Orders -> SUBSET Orders]
  BY <1>2 DEF WashCancel, WashCanceled, WashCancelRaises
<1>3. \/ \E o \in Orders : SubmitChased(o)
      \/ \E o, w \in Orders : \/ WashCancel(o, w) \/ WashCanceled(o, w)
                              \/ WashCancelRaises(o, w)
      \/ UNCHANGED washing
  BY DEF CNext, Scanning, SubmissionGoesOn, RegisterOrder, GoesStale,
         OnFillEvent, ExecutesChased, Others, StartScan, EndScan, Visit,
         RateLimited, ChaseCancels, ScanAborts, Abandon, AbandonWith,
         ChaseFinalized, ChaseFinalizeFails, ChaseSaved, cvars
<1> QED
  BY <1>1, <1>2, <1>3

LEMMA SeenKept ==
  ASSUME CTypeOK, SeenIsExecuted, [CNext]_cvars, [Next]_vars
  PROVE  SeenIsExecuted'
<1>1. ASSUME UNCHANGED <<seen, unseen>>
      PROVE  SeenIsExecuted'
  <2>1. \A o \in Orders : venue'[o].exec >= venue[o].exec /\ venue'[o].exec \in Nat
    <3>1. TypeOK' /\ TypeOK
      BY NextTypeOK DEF CTypeOK
    <3> QED
      BY <3>1, VenueMoves, ExecutesOnly, CancelsOnly, AcceptsOnly DEF TypeOK
  <2> QED
    BY <1>1, <2>1, ChaserTypes DEF SeenIsExecuted
<1>2. ASSUME NEW o \in Orders, NEW q \in 1..Qty[o], OnFillEvent(o, q)
      PROVE  SeenIsExecuted'
  <2>1. /\ unseen'[o] = unseen[o] - q
        /\ seen'[o] \in {seen[o], seen[o] + q}
        /\ \A w \in Orders \ {o} : seen'[w] = seen[w] /\ unseen'[w] = unseen[w]
        /\ UNCHANGED venue
    BY <1>2, Zenon DEF OnFillEvent, vars, CTypeOK
  <2> QED
    BY <2>1, ChaserTypes DEF SeenIsExecuted
<1>3. ASSUME NEW o \in Orders, ExecutesChased(o)
      PROVE  SeenIsExecuted'
  <2>1. /\ unseen'[o] = unseen[o] + venue'[o].exec - venue[o].exec
        /\ UNCHANGED seen
        /\ \A w \in Orders \ {o} : unseen'[w] = unseen[w]
    BY <1>3 DEF ExecutesChased, chaser, CTypeOK
  <2>2. /\ \A w \in Orders \ {o} : venue'[w] = venue[w]
        /\ venue'[o].exec \in Nat
    BY <1>3, ExecutesOnly, ChaserTypes DEF ExecutesChased, CTypeOK
  <2> QED
    BY <2>1, <2>2, ChaserTypes DEF SeenIsExecuted
<1>4. \/ UNCHANGED <<seen, unseen>>
      \/ \E o \in Orders :
           ExecutesChased(o) \/ \E q \in 1..Qty[o] : OnFillEvent(o, q)
  BY DEF CNext, Scanning, SubmitChased, SubmissionGoesOn, WashCancel,
         WashCanceled, WashCancelRaises, RegisterOrder, GoesStale, Others,
         StartScan, EndScan, Visit, RateLimited, ChaseCancels, ScanAborts,
         Abandon, AbandonWith, ChaseFinalized, ChaseFinalizeFails,
         ChaseSaved, chaser, cvars
<1> QED
  BY <1>1, <1>2, <1>3, <1>4

CInv == CTypeOK /\ SeenIsExecuted /\ VenueSane

LEMMA CInvInit == CInit => CInv
<1> SUFFICES ASSUME CInit PROVE CInv
  OBVIOUS
<1>1. CTypeOK
  BY InitTypeOK DEF CInit, CTypeOK, NoScan
<1>2. SeenIsExecuted /\ VenueSane
  BY OMSAssumption DEF CInit, Init, SeenIsExecuted, VenueSane
<1> QED
  BY <1>1, <1>2 DEF CInv

LEMMA CInvStep ==
  ASSUME CInv, [CNext]_cvars
  PROVE  CInv' /\ [Next]_vars
<1>1. [Next]_vars
  BY StepImplements DEF CInv
<1>2. TypeOK'
  BY <1>1, NextTypeOK DEF CInv, CTypeOK
<1> QED
  BY <1>1, <1>2, ScanTypes, WorkingTypes, WashTypes, SeenKept, VenueSaneKept
  DEF CInv, CTypeOK, ScanType

\* The chaser, the wash trading loop and their scans keep their types.
THEOREM ChaserTypeCorrect == CSpec => []CTypeOK
BY CInvInit, CInvStep, PTL DEF CSpec, CInv

\* Everything the chaser and the wash trading loop do to the OMS is a step of
\* the OMS: what is proved of the OMS holds beside them.
THEOREM ChaserImplementsOMS == CSpec => ImplementsOMS
<1>1. CInit => Init
  BY DEF CInit
<1> QED
  BY <1>1, CInvInit, CInvStep, PTL DEF CSpec, Spec, ImplementsOMS
-----------------------------------------------------------------------------
(* A finished order is not live                                            *)

Over(o) == venue[o].status \in {"closed", "canceled"}

\* The venue never reopens an order.
LEMMA OverIsOver ==
  ASSUME TypeOK, [Next]_vars, NEW o \in Orders, Over(o)
  PROVE  Over(o)'
<1>1. \A w \in Orders : VenueExecutes(w) => venue[w].status = "open"
  BY DEF VenueExecutes
<1> QED
  BY <1>1, VenueMoves, ExecutesOnly, CancelsOnly, AcceptsOnly DEF Over

\* A scan has one order at hand; an order whose cancellation the venue
\* answers is over.
Answers ==
  /\ \A o, w \in scan.cur : o = w
  /\ scan.at = "answered" => \A o \in scan.cur : Over(o)
  /\ \A o \in Orders : \A w \in answered[o] : Over(w)

LEMMA CurOne ==
  ASSUME CTypeOK, Answers, [CNext]_cvars
  PROVE  /\ \A o, w \in scan'.cur : o = w
         /\ scan'.at = "answered" =>
              \/ scan' = scan
              \/ \E o \in Orders : ChaseCancels(o) /\ scan'.cur = {o}
<1> USE DEF NoScan
<1>0. scan \in ScanType /\ \A v, w \in scan.cur : v = w
  BY DEF CTypeOK, ScanType, Answers
<1>1. ASSUME NEW o \in Orders, Visit(o)
      PROVE  /\ \A v, w \in scan'.cur : v = w
             /\ scan'.at # "answered"
  BY <1>0, <1>1 DEF Visit, ScanType
<1>2. ASSUME NEW o \in Orders, ChaseCancels(o)
      PROVE  scan'.cur = {o}
  <2>1. scan.cur = {o} /\ scan' = [scan EXCEPT !.at = "answered"]
    BY <1>0, <1>2 DEF ChaseCancels
  <2> QED
    BY <1>0, <2>1 DEF ScanType
<1>3. ASSUME NEW o \in Orders, NextOrder(o)
      PROVE  scan'.cur = {} /\ scan'.at # "answered"
  BY <1>0, <1>3 DEF NextOrder, ScanType
<1>4. ASSUME NEW o \in Orders,
             \/ RateLimited(o) \/ ScanAborts(o) \/ Abandon(o)
             \/ ChaseFinalized(o) \/ ChaseFinalizeFails(o) \/ ChaseSaved(o)
      PROVE  /\ \A v, w \in scan'.cur : v = w
             /\ scan'.at # "answered"
  <2>1. \/ NextOrder(o) \/ scan' = NoScan
        \/ scan' = [scan EXCEPT !.at = "scanning", !.cur = {}]
        \/ \E a \in {"replaying", "saving"} : scan' = [scan EXCEPT !.at = a]
    BY <1>4 DEF RateLimited, ScanAborts, Abandon, AbandonWith,
                ChaseFinalized, ChaseFinalizeFails, ChaseSaved
  <2>2. /\ [scan EXCEPT !.at = "scanning", !.cur = {}].cur = {}
        /\ [scan EXCEPT !.at = "scanning", !.cur = {}].at = "scanning"
        /\ \A a : /\ [scan EXCEPT !.at = a].cur = scan.cur
                  /\ [scan EXCEPT !.at = a].at = a
    BY <1>0 DEF ScanType
  <2>3. CASE NextOrder(o) \/ scan' = NoScan
    BY <1>3, <2>3
  <2>4. CASE scan' = [scan EXCEPT !.at = "scanning", !.cur = {}]
    BY <2>2, <2>4
  <2>5. ASSUME NEW a \in {"replaying", "saving"}, scan' = [scan EXCEPT !.at = a]
        PROVE  /\ \A v, w \in scan'.cur : v = w
               /\ scan'.at # "answered"
    BY <1>0, <2>2, <2>5
  <2> QED
    BY <2>1, <2>3, <2>4, <2>5
<1>5. ASSUME StartScan \/ EndScan
      PROVE  scan'.cur = {} /\ scan'.at # "answered"
  <2>1. \/ scan' = NoScan
        \/ scan' = [NoScan EXCEPT !.at = "scanning", !.todo = tracked]
    BY <1>5, Zenon DEF StartScan, EndScan
  <2>2. CASE scan' = NoScan
    BY <2>2
  <2>3. CASE scan' = [NoScan EXCEPT !.at = "scanning", !.todo = tracked]
    <3>1. NoScan \in ScanType
      BY DEF ScanType
    <3>2. NoScan.cur = {}
      OBVIOUS
    <3> HIDE DEF NoScan
    <3> QED
      BY <2>3, <3>1, <3>2 DEF ScanType
  <2> QED
    BY <2>1, <2>2, <2>3
<1>6. \/ scan' = scan
      \/ StartScan \/ EndScan
      \/ \E o \in Orders :
           \/ Visit(o) \/ ChaseCancels(o)
           \/ RateLimited(o) \/ ScanAborts(o) \/ Abandon(o)
           \/ ChaseFinalized(o) \/ ChaseFinalizeFails(o) \/ ChaseSaved(o)
  BY DEF CNext, Scanning, SubmitChased, SubmissionGoesOn, WashCancel,
         WashCanceled, WashCancelRaises, RegisterOrder, GoesStale,
         OnFillEvent, ExecutesChased, Others, cvars
<1> QED
  BY <1>0, <1>1, <1>2, <1>4, <1>5, <1>6

LEMMA AnsweredMoves ==
  ASSUME CTypeOK, [CNext]_cvars, NEW o \in Orders, NEW w \in answered'[o]
  PROVE  w \in answered[o] \/ (w \in Orders /\ WashCancel(o, w))
<1> USE DEF CTypeOK, washing
<1>1. ASSUME NEW v \in Orders, NEW x \in Orders,
             \/ WashCancel(v, x) \/ WashCanceled(v, x)
             \/ WashCancelRaises(v, x)
      PROVE  w \in answered[o] \/ (w \in Orders /\ WashCancel(o, w))
  BY <1>1 DEF WashCancel, WashCanceled, WashCancelRaises
<1>2. \/ \E v, x \in Orders : \/ WashCancel(v, x) \/ WashCanceled(v, x)
                              \/ WashCancelRaises(v, x)
      \/ UNCHANGED answered
  BY DEF CNext, Scanning, SubmitChased, SubmissionGoesOn, RegisterOrder,
         GoesStale, OnFillEvent, ExecutesChased, Others, StartScan, EndScan,
         Visit, RateLimited, ChaseCancels, ScanAborts, Abandon, AbandonWith,
         ChaseFinalized, ChaseFinalizeFails, ChaseSaved, cvars
<1> QED
  BY <1>1, <1>2

LEMMA AnswersKept ==
  ASSUME CInv, Answers, [CNext]_cvars
  PROVE  Answers'
<1>1. TypeOK /\ CTypeOK /\ CTypeOK' /\ [Next]_vars
  BY CInvStep DEF CInv, CTypeOK
<1>2. ASSUME NEW o \in Orders, VenueCancels(o)
      PROVE  Over(o)'
  BY <1>1, <1>2, CancelsOnly DEF Over
<1>3. ASSUME NEW o \in scan'.cur, scan'.at = "answered"
      PROVE  Over(o)'
  <2>1. o \in Orders
    BY <1>1 DEF CTypeOK
  <2> QED
    BY <1>1, <1>2, <1>3, <2>1, CurOne, OverIsOver DEF Answers, ChaseCancels
<1>4. ASSUME NEW o \in Orders, NEW w \in answered'[o]
      PROVE  Over(w)'
  <2>1. w \in Orders
    BY <1>1 DEF CTypeOK
  <2> QED
    BY <1>1, <1>2, <2>1, AnsweredMoves, OverIsOver DEF Answers, WashCancel
<1> QED
  BY <1>1, <1>3, <1>4, CurOne DEF Answers

LEMMA AnswersInit == CInit => Answers
BY DEF CInit, Answers, NoScan

LEMMA StatusMoves ==
  ASSUME CInv, Answers, [CNext]_cvars, NEW o \in Orders, status'[o] # status[o]
  PROVE  Over(o)'
<1> USE DEF CInv, CTypeOK
<1>1. ASSUME NEW w \in Orders, NEW q \in 1..Qty[w], OnFillEvent(w, q)
      PROVE  Over(o)'
  <2>1. o = w /\ seen[o] + q >= Qty[o] /\ q <= unseen[o]
    <3>1. w \in tracked /\ o = w
      BY <1>1 DEF OnFillEvent
    <3>2. seen[o] + q >= Qty[o]
      BY <1>1, <3>1 DEF OnFillEvent
    <3> QED
      BY <1>1, <3>1, <3>2, ChaserTypes DEF OnFillEvent
  <2>2. venue[o].exec = Qty[o]
    <3>1. q \in Nat /\ Qty[o] \in Nat /\ seen[o] \in Nat
          /\ unseen[o] \in Nat /\ venue[o].exec \in Nat
      BY ChaserTypes
    <3>2. seen[o] + unseen[o] <= venue[o].exec /\ venue[o].exec <= Qty[o]
      BY DEF SeenIsExecuted, VenueSane
    <3> QED
      BY <2>1, <3>1, <3>2
  <2>3. UNCHANGED venue
    BY <1>1 DEF OnFillEvent, vars
  <2> QED
    BY <2>2, <2>3 DEF VenueSane, Over
<1>2. ASSUME NEW v \in Orders, NEW w \in Orders, WashCanceled(v, w)
      PROVE  Over(o)'
  <2>1. o = w /\ Over(o) /\ UNCHANGED venue
    BY <1>2 DEF WashCanceled, Answers, vars
  <2> QED
    BY <2>1 DEF Over
<1>3. ASSUME NEW w \in Orders, Abandon(w)
      PROVE  Over(o)'
  <2>1. o = w /\ Over(o) /\ UNCHANGED venue
    BY <1>3 DEF Abandon, AbandonWith, Answers, FinalizePartialFill
  <2> QED
    BY <2>1 DEF Over
<1>4. \/ \E w \in Orders : Abandon(w)
      \/ \E v \in Orders, w \in Orders : WashCanceled(v, w)
      \/ \E w \in Orders : \E q \in 1..Qty[w] : OnFillEvent(w, q)
  BY DEF CNext, Scanning, SubmitChased, SubmissionGoesOn, WashCancel,
         WashCancelRaises, RegisterOrder, GoesStale, ExecutesChased, Others,
         StartScan, EndScan, Visit, RateLimited, ChaseCancels, ScanAborts,
         ChaseFinalized, ChaseFinalizeFails, ChaseSaved, chaser, cvars
<1> QED
  BY <1>1, <1>2, <1>3, <1>4

\* An order the chaser considers over, and may drop, is closed or canceled at
\* the venue, however its scan interleaves with fills and submissions.
THEOREM ResolvedIsNotLive == CSpec => []ResolvedMeansNotLive
<1>1. CInit => ResolvedMeansNotLive
  BY DEF CInit, ResolvedMeansNotLive, Finished
<1>2. /\ CInv /\ Answers /\ ResolvedMeansNotLive /\ [CNext]_cvars
      => ResolvedMeansNotLive'
  <2> SUFFICES ASSUME CInv, Answers, ResolvedMeansNotLive, [CNext]_cvars,
                      NEW o \in Orders, status'[o] \in Finished
               PROVE  Over(o)'
    BY DEF ResolvedMeansNotLive, Over
  <2>1. TypeOK /\ [Next]_vars
    BY CInvStep DEF CInv, CTypeOK
  <2>2. CASE status'[o] = status[o]
    BY <2>1, <2>2, OverIsOver DEF ResolvedMeansNotLive, Over
  <2>3. CASE status'[o] # status[o]
    BY <2>3, StatusMoves
  <2> QED
    BY <2>2, <2>3
<1> QED
  BY <1>1, <1>2, CInvInit, CInvStep, AnswersInit, AnswersKept, PTL DEF CSpec
-----------------------------------------------------------------------------
(* An order canceled for an opposite one                                   *)

\* Between the call and the venue's acceptance.
Sending == {"preflight", "fetching", "fetched", "creating"}

\* While an order is being sent, what its submission found working and has
\* still to cancel is on its wash list; once the venue has the order, all of
\* it is over.
WashedAt(o) ==
  /\ venue[o].status # "none" => \A w \in found[o] : Over(w)
  /\ venue[o].status = "none" /\ task[o] \in Sending =>
       \A w \in found[o] \ wash[o] : Over(w)
  /\ task[o] \in Sending \ {"preflight"} => wash[o] = {}

\* Only the order's own submission moves its coroutine and its wash list.
LEMMA OwnSubmission ==
  ASSUME CInv, [CNext]_cvars, NEW o \in Orders
  PROVE  \/ SubmitChased(o) \/ SubmissionGoesOn(o)
         \/ \E w \in Orders : WashCanceled(o, w) \/ WashCancelRaises(o, w)
         \/ task'[o] = task[o] /\ wash'[o] = wash[o] /\ found'[o] = found[o]
<1> USE DEF CInv, CTypeOK, washing
<1>1. ASSUME NEW v \in Orders, v # o, SubmitChased(v) \/ SubmissionGoesOn(v)
      PROVE  task'[o] = task[o] /\ wash'[o] = wash[o] /\ found'[o] = found[o]
  <2>1. StepOf(v)
    BY <1>1 DEF SubmitChased, SubmissionGoesOn, StepOf, Submission
  <2> QED
    BY <1>1, <2>1, StepOfOne DEF SubmitChased, SubmissionGoesOn, Untouched
<1>2. ASSUME NEW v \in Orders, NEW w \in Orders, v # o,
             WashCanceled(v, w) \/ WashCancelRaises(v, w)
      PROVE  task'[o] = task[o] /\ wash'[o] = wash[o] /\ found'[o] = found[o]
  BY <1>2 DEF WashCanceled, WashCancelRaises, PreflightRaises, TypeOK, vars
<1>3. ASSUME NEW v \in Orders,
             \/ RegisterOrder(v) \/ GoesStale(v)
             \/ \E q \in 1..Qty[v] : OnFillEvent(v, q)
             \/ \E w \in Orders : WashCancel(v, w)
             \/ ExecutesChased(v) \/ Others(v)
      PROVE  UNCHANGED <<task, wash, found>>
  BY <1>3 DEF RegisterOrder, GoesStale, OnFillEvent, ExecutesChased, Others,
              WashCancel, VenueCancels, VenueExecutes, Filling, ApplyFill,
              FillRefused, FillSaved, FillSaveFails, CancelOrder, vars
<1>4. ASSUME Scanning
      PROVE  UNCHANGED <<task, wash, found>>
  BY <1>4 DEF Scanning, StartScan, EndScan, Visit, RateLimited, ChaseCancels,
              Abandon, AbandonWith, ScanAborts, ChaseFinalized,
              ChaseFinalizeFails, ChaseSaved, VenueCancels,
              FinalizePartialFill, FinalizeSaved, FinalizeSaveFails, vars
<1>5. CASE UNCHANGED cvars
  BY <1>5 DEF cvars, vars
<1> QED
  BY <1>1, <1>2, <1>3, <1>4, <1>5 DEF CNext

\* A submission that goes on was suspended, has nothing left to cancel, and
\* does not return to sending.
LEMMA GoesOnMoves ==
  ASSUME CInv, NEW o \in Orders, SubmissionGoesOn(o)
  PROVE  /\ wash[o] = {} /\ task[o] \notin AtRest
         /\ task'[o] \in Sending => task[o] \in Sending
         /\ UNCHANGED <<wash, found>>
<1> USE DEF CInv, CTypeOK, TypeOK, AtRest, Sending
<1>0. wash[o] = {} /\ UNCHANGED <<wash, found>>
  BY DEF SubmissionGoesOn, washing
<1>1. CASE \/ RejectStale(o) \/ AdoptExisting(o)
           \/ \E q \in 0..Qty[o] : ShadowFill(o, q)
  BY <1>0, <1>1 DEF RejectStale, AdoptExisting, ShadowFill, ReturnAfter
<1>2. CASE Accepted(o) \/ RejectFailed(o)
  BY <1>0, <1>2 DEF Accepted, RejectFailed
<1>3. CASE \/ QueryVenue(o) \/ VenueReplies(o) \/ QueryFails(o)
           \/ CreateAtVenue(o) \/ StatusSaved(o)
           \/ StatusSaveFails(o) \/ VenueAccepts(o) \/ VenueRefuses(o)
  BY <1>0, <1>3 DEF QueryVenue, VenueReplies, QueryFails, CreateAtVenue,
              StatusSaved, StatusSaveFails, VenueAccepts, VenueRefuses
<1> QED
  BY <1>1, <1>2, <1>3, Zenon DEF SubmissionGoesOn, Proceeds

\* An order comes to the venue only when its own submission creates it.
LEMMA AppearsByAcceptance ==
  ASSUME TypeOK, [Next]_vars, NEW o \in Orders,
         venue'[o].status # "none", venue[o].status = "none"
  PROVE  task[o] = "creating"
<1>1. \A w \in Orders : VenueExecutes(w) => venue[w].status = "open"
  BY DEF VenueExecutes
<1>2. \A w \in Orders : VenueAccepts(w) => task[w] = "creating"
  BY DEF VenueAccepts
<1> QED
  BY <1>1, <1>2, VenueMoves, ExecutesOnly, CancelsOnly, AcceptsOnly

\* ... and never leaves it.
LEMMA StaysKnown ==
  ASSUME TypeOK, [Next]_vars, NEW o \in Orders, venue[o].status # "none"
  PROVE  venue'[o].status # "none"
BY VenueMoves, ExecutesOnly, CancelsOnly, AcceptsOnly

LEMMA WashedKept ==
  ASSUME CInv, Answers, NEW o \in Orders, WashedAt(o), [CNext]_cvars
  PROVE  WashedAt(o)'
<1> USE DEF CInv, CTypeOK
<1>1. TypeOK /\ [Next]_vars /\ found \in [Orders -> SUBSET Orders]
  BY CInvStep
<1>2. \A w \in found[o] : Over(w) => Over(w)'
  BY <1>1, OverIsOver
<1>3. CASE SubmitChased(o)
  <2>1. task[o] \in AtRest /\ UNCHANGED venue
    BY <1>3 DEF SubmitChased, SubmitOrder
  <2>2. /\ venue[o].status # "none" => found'[o] = found[o]
        /\ venue[o].status = "none" => found'[o] = Opposite(o)
    BY <1>1, <1>3 DEF SubmitChased, Opposite
  <2>3. CASE o \in BelowGrid
    <3>1. task'[o] \notin Sending
      BY <1>3, <2>3 DEF SubmitChased, SubmitOrder, ReturnAfter, TypeOK, Sending
    <3> QED
      BY <1>2, <2>1, <2>2, <3>1 DEF WashedAt
  <2>4. CASE o \notin BelowGrid
    <3>1. task'[o] = "preflight" /\ wash'[o] = Opposite(o)
      BY <1>3, <2>4 DEF SubmitChased, SubmitOrder, TypeOK
    <3> QED
      BY <1>2, <2>1, <2>2, <3>1 DEF WashedAt
  <2> QED
    BY <2>3, <2>4
<1>4. CASE SubmissionGoesOn(o)
  <2>1. /\ wash[o] = {} /\ wash'[o] = {} /\ found'[o] = found[o]
        /\ task'[o] \in Sending => task[o] \in Sending
    BY <1>4, GoesOnMoves
  <2>2. CASE venue[o].status # "none"
    BY <1>1, <1>2, <2>1, <2>2, StaysKnown DEF WashedAt
  <2>3. CASE venue[o].status = "none" /\ task[o] \in Sending
    BY <1>2, <2>1, <2>3 DEF WashedAt
  <2>4. CASE venue[o].status = "none" /\ task[o] \notin Sending
    <3>1. venue'[o].status = "none"
      BY <1>1, <2>4, AppearsByAcceptance DEF Sending
    <3> QED
      BY <2>1, <2>4, <3>1 DEF WashedAt
  <2> QED
    BY <2>2, <2>3, <2>4
<1>5. ASSUME NEW w \in Orders, WashCanceled(o, w)
      PROVE  WashedAt(o)'
  <2>1. /\ UNCHANGED <<venue, task, found>> /\ wash'[o] = wash[o] \ {w}
        /\ Over(w)
    BY <1>5 DEF WashCanceled, Answers, vars
  <2> QED
    BY <1>2, <2>1 DEF WashedAt, Over
<1>6. ASSUME NEW w \in Orders, WashCancelRaises(o, w)
      PROVE  WashedAt(o)'
  <2>1. UNCHANGED <<venue, found>> /\ task'[o] = "raised"
    BY <1>6 DEF WashCancelRaises, PreflightRaises, TypeOK
  <2> QED
    BY <1>2, <2>1 DEF WashedAt, Sending
<1>7. CASE task'[o] = task[o] /\ wash'[o] = wash[o] /\ found'[o] = found[o]
  <2>1. CASE venue[o].status # "none"
    BY <1>1, <1>2, <1>7, <2>1, StaysKnown DEF WashedAt
  <2>2. CASE venue[o].status = "none" /\ venue'[o].status = "none"
    BY <1>2, <1>7, <2>2 DEF WashedAt
  <2>3. CASE venue[o].status = "none" /\ venue'[o].status # "none"
    <3>1. task[o] = "creating"
      BY <1>1, <2>3, AppearsByAcceptance
    <3> QED
      BY <1>2, <1>7, <2>3, <3>1 DEF WashedAt, Sending
  <2> QED
    BY <2>1, <2>2, <2>3
<1> QED
  BY <1>3, <1>4, <1>5, <1>6, <1>7, OwnSubmission

\* An order that was working when an opposite one was submitted never rests
\* beside it, although submissions, scans, fills, the venue's own
\* cancellations and failing calls interleave as they may.
THEOREM WashedOppositesAreGone == CSpec => []NoWashedOpposite
<1> DEFINE W == \A o \in Orders : WashedAt(o)
<1>1. CInit => W
  BY DEF CInit, Init, WashedAt, Sending
<1>2. CInv /\ Answers /\ W /\ [CNext]_cvars => W'
  BY WashedKept
<1>3. W => NoWashedOpposite
  BY DEF WashedAt, NoWashedOpposite, Over
<1> QED
  BY <1>1, <1>2, <1>3, CInvInit, CInvStep, AnswersInit, AnswersKept, PTL
  DEF CSpec
=============================================================================
