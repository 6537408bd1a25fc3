-------------------------------- MODULE OMS --------------------------------
(***************************************************************************)
(* The order management system (execution/oms.py): submission, fills,      *)
(* cancellation and partial-fill finalization, as asyncio coroutines that  *)
(* interleave at their awaits, against a venue that executes, cancels and  *)
(* answers on its own.                                                     *)
(*                                                                         *)
(* Everything between two awaits is one action.  The awaits of             *)
(* submit_order are the venue calls fetch_order and create_order and, when *)
(* an outbox store is configured, the UPDATE inside _transition; apply_fill*)
(* and finalize_partial_fill have only the latter.  Nothing in the         *)
(* repository inserts the outbox row, so the UPDATE itself changes no      *)
(* state: what matters is that it suspends the coroutine and may fail.     *)
(***************************************************************************)
EXTENDS OrderStateMachine, Integers, FiniteSets

CONSTANTS
  Orders,         \* client order ids
  Qty,            \* the size each order asks for, on the venue grid
  BelowGrid,      \* orders whose size quantizes to zero
  HasOutbox,      \* an outbox store is configured: _transition awaits
  Shadow,         \* orders whose OMS runs in ExecutionMode.SHADOW
  CallsMayFail,   \* a venue call or an outbox UPDATE may raise after it
                  \* took effect (timeout, dropped connection)
  MaxSubmits      \* bound: submissions of one client order id

ASSUME OMSAssumption ==
  /\ Qty \in [Orders -> Nat \ {0}]
  /\ BelowGrid \subseteq Orders
  /\ Shadow \subseteq Orders
  /\ {HasOutbox, CallsMayFail} \subseteq BOOLEAN
  /\ MaxSubmits \in Nat \ {0}

VARIABLES
  active,      \* active_orders: the known state of an order, or NoState
  record,      \* order_records: none, with a side, or registered without
  fills,       \* order_fills: cumulative filled quantity
  moved,       \* what the order's fills added to its asset's net position
  task,        \* the order's submit_order coroutine
  reply,       \* the status its fetch_order call brought back
  submits,     \* submissions made so far
  applying,    \* quantity of an apply_fill that awaits the outbox
  finalizing,  \* the local state of a finalize_partial_fill that awaits it
  venue,       \* the order at the venue: status and executed quantity
  inflight     \* executed at the venue, not yet reported to apply_fill

memory == <<active, record, fills, moved>>
vars == <<active, record, fills, moved, task, reply, submits, applying,
          finalizing, venue, inflight>>

NoState == "none"

\* Where a submit_order coroutine can be: not running (before the first
\* call, after a return, after IllegalTransitionError, after another
\* exception) or at one of its awaits, the last three of which are the
\* outbox of its last transition.
AtRest    == {"idle", "returned", "illegal", "raised"}
Suspended == {"preflight", "fetching", "fetched", "creating", "accepted",
              "failed", "saving", "returning", "raising"}

VenueStatus == {"none", "open", "closed", "canceled"}

NotFinalizing == [state |-> NoState, qty |-> 0]

TypeOK ==
  /\ active \in [Orders -> OrderState \cup {NoState}]
  /\ record \in [Orders -> {"none", "sided", "sideless"}]
  /\ fills \in [Orders -> Nat]
  /\ moved \in [Orders -> Nat]
  /\ task \in [Orders -> AtRest \cup Suspended]
  /\ reply \in [Orders -> VenueStatus]
  /\ submits \in [Orders -> 0..MaxSubmits]
  /\ applying \in [Orders -> Nat]
  /\ finalizing \in [Orders -> [state : OrderState \cup {NoState}, qty : Nat]]
  /\ venue \in [Orders -> [status : VenueStatus, exec : Nat]]
  /\ inflight \in [Orders -> Nat]

Init ==
  /\ active = [o \in Orders |-> NoState]
  /\ record = [o \in Orders |-> "none"]
  /\ fills = [o \in Orders |-> 0]
  /\ moved = [o \in Orders |-> 0]
  /\ task = [o \in Orders |-> "idle"]
  /\ reply = [o \in Orders |-> "none"]
  /\ submits = [o \in Orders |-> 0]
  /\ applying = [o \in Orders |-> 0]
  /\ finalizing = [o \in Orders |-> NotFinalizing]
  /\ venue = [o \in Orders |-> [status |-> "none", exec |-> 0]]
  /\ inflight = [o \in Orders |-> 0]
-----------------------------------------------------------------------------
(* _transition: every write of active_orders but two goes through it.      *)

Current(o) == IF active[o] = NoState THEN "CREATED" ELSE active[o]

\* What one event does to order o, with the implicit CREATED -> SUBMITTED
\* hop the code replays when the event is illegal for a fresh order.
Outcome(o, event, qty) ==
  LET From(s) == transition_order_state(s, event, qty,
                   IF record[o] = "none" THEN 0 ELSE Qty[o], fills[o])
  IN  IF From(Current(o)) = Illegal /\ Current(o) = "CREATED"
      THEN From("SUBMITTED")
      ELSE From(Current(o))

\* _transition up to its await.  The order's local bookkeeping is already
\* updated when the coroutine is suspended on the outbox.
Transition(o, event, qty) ==
  /\ Outcome(o, event, qty) # Illegal
  /\ active' = [active EXCEPT ![o] = Outcome(o, event, qty)]
  /\ fills' = [fills EXCEPT ![o] = @ + qty]

\* _transition raising IllegalTransitionError.  A fresh order would keep the
\* SUBMITTED of the implicit hop.
TransitionRaises(o, event, qty) ==
  /\ Outcome(o, event, qty) = Illegal
  /\ active' = IF Current(o) = "CREATED"
               THEN [active EXCEPT ![o] = "SUBMITTED"]
               ELSE active
  /\ UNCHANGED fills

\* A coroutine whose last act is a transition: it returns, after the outbox
\* if there is one, or lets the exception out.
ReturnAfter(o, event, qty) ==
  \/ /\ Transition(o, event, qty)
     /\ task' = [task EXCEPT ![o] = IF HasOutbox THEN "returning" ELSE "returned"]
  \/ /\ TransitionRaises(o, event, qty)
     /\ task' = [task EXCEPT ![o] = "illegal"]
-----------------------------------------------------------------------------
(* submit_order                                                            *)

\* A call: an off-grid size is refused before the order is recorded, any
\* other order is recorded under its own side, once.
SubmitOrder(o) ==
  /\ task[o] \in AtRest
  /\ submits[o] < MaxSubmits
  /\ submits' = [submits EXCEPT ![o] = @ + 1]
  /\ IF o \in BelowGrid
     THEN /\ ReturnAfter(o, "REJECTED", 0)
          /\ UNCHANGED record
     ELSE /\ record' = [record EXCEPT ![o] = IF @ = "none" THEN "sided" ELSE @]
          /\ task' = [task EXCEPT ![o] = "preflight"]
          /\ UNCHANGED <<active, fills>>
  /\ UNCHANGED <<moved, reply, applying, finalizing, venue, inflight>>

\* With an order chaser, the venue is first asked to cancel the opposite
\* working orders (OrderChase); an exception of such a call leaves
\* submit_order.
PreflightRaises(o) ==
  /\ task[o] = "preflight"
  /\ task' = [task EXCEPT ![o] = "raised"]
  /\ UNCHANGED <<memory, reply, submits, applying, finalizing, venue, inflight>>

\* The staleness sentinel refuses the order.
RejectStale(o) ==
  /\ task[o] = "preflight"
  /\ ReturnAfter(o, "REJECTED", 0)
  /\ UNCHANGED <<record, moved, reply, submits, applying, finalizing, venue,
                 inflight>>

\* Shadow mode: the interceptor fills what the book holds, all of the order
\* when there is no book, or nothing.  No venue, no position.
ShadowFill(o, qty) ==
  /\ o \in Shadow
  /\ task[o] = "preflight"
  /\ IF qty > 0 THEN ReturnAfter(o, "FILL", qty)
                ELSE ReturnAfter(o, "REJECTED", 0)
  /\ UNCHANGED <<record, moved, reply, submits, applying, finalizing, venue,
                 inflight>>

\* Otherwise ask the venue whether it already knows the order.
QueryVenue(o) ==
  /\ o \notin Shadow
  /\ task[o] = "preflight"
  /\ task' = [task EXCEPT ![o] = "fetching"]
  /\ UNCHANGED <<memory, reply, submits, applying, finalizing, venue, inflight>>

VenueReplies(o) ==
  /\ task[o] = "fetching"
  /\ reply' = [reply EXCEPT ![o] = venue[o].status]
  /\ task' = [task EXCEPT ![o] = "fetched"]
  /\ UNCHANGED <<memory, submits, applying, finalizing, venue, inflight>>

\* An exception of fetch_order leaves submit_order as it is.
QueryFails(o) ==
  /\ CallsMayFail
  /\ task[o] = "fetching"
  /\ task' = [task EXCEPT ![o] = "raised"]
  /\ UNCHANGED <<memory, reply, submits, applying, finalizing, venue, inflight>>

\* The order exists: an open one is acknowledged, any other counts as
\* filled in full.
AdoptExisting(o) ==
  /\ task[o] = "fetched"
  /\ reply[o] # "none"
  /\ IF reply[o] = "open" THEN ReturnAfter(o, "ACKED", 0)
                          ELSE ReturnAfter(o, "FILL", Qty[o])
  /\ UNCHANGED <<record, moved, reply, submits, applying, finalizing, venue,
                 inflight>>

CreateAtVenue(o) ==
  /\ task[o] = "fetched"
  /\ reply[o] = "none"
  /\ task' = [task EXCEPT ![o] = "creating"]
  /\ UNCHANGED <<memory, reply, submits, applying, finalizing, venue, inflight>>

\* Mutant: submit_order returns without the transition.
AcceptedUnrecorded(o) ==
  /\ task[o] = "accepted"
  /\ task' = [task EXCEPT ![o] = "returned"]
  /\ UNCHANGED <<memory, reply, submits, applying, finalizing, venue, inflight>>

\* create_order returned: CREATED -> SUBMITTED, saved to the outbox.  A
\* transition that is refused raises inside the try block, whose handler
\* rejects the order.
Accepted(o) ==
  /\ task[o] = "accepted"
  /\ \/ /\ Transition(o, "SUBMITTED", 0)
        /\ task' = [task EXCEPT ![o] = IF HasOutbox THEN "saving"
                                                    ELSE "returned"]
     \/ /\ TransitionRaises(o, "SUBMITTED", 0)
        /\ task' = [task EXCEPT ![o] = "failed"]
  /\ UNCHANGED <<record, moved, reply, submits, applying, finalizing, venue,
                 inflight>>

\* The UPDATE of the last transition of submit_order.
StatusSaved(o) ==
  /\ task[o] \in {"saving", "returning", "raising"}
  /\ task' = [task EXCEPT ![o] = IF @ = "raising" THEN "raised" ELSE "returned"]
  /\ UNCHANGED <<memory, reply, submits, applying, finalizing, venue, inflight>>

\* It raises: inside the try block for an order just created, where the
\* handler rejects the order.
StatusSaveFails(o) ==
  /\ CallsMayFail
  /\ task[o] \in {"saving", "returning", "raising"}
  /\ task' = [task EXCEPT ![o] = IF @ = "saving" THEN "failed" ELSE "raised"]
  /\ UNCHANGED <<memory, reply, submits, applying, finalizing, venue, inflight>>

\* except Exception: reject the order and raise again.
RejectFailed(o) ==
  /\ task[o] = "failed"
  /\ \/ /\ Transition(o, "REJECTED", 0)
        /\ task' = [task EXCEPT ![o] = IF HasOutbox THEN "raising" ELSE "raised"]
     \/ /\ TransitionRaises(o, "REJECTED", 0)
        /\ task' = [task EXCEPT ![o] = "illegal"]
  /\ UNCHANGED <<record, moved, reply, submits, applying, finalizing, venue,
                 inflight>>
-----------------------------------------------------------------------------
(* apply_fill: the fill feed reports executed quantity, one event of an    *)
(* order at a time.                                                        *)

Known(o) == record[o] # "none" /\ active[o] # NoState

\* Mutant: the position moves before the outbox is awaited, and after it.
ApplyFillTwice(o, qty) ==
  /\ qty \in 1..inflight[o]
  /\ applying[o] = 0
  /\ Known(o)
  /\ record[o] = "sided"
  /\ inflight' = [inflight EXCEPT ![o] = @ - qty]
  /\ Transition(o, "FILL", qty)
  /\ moved' = [moved EXCEPT ![o] = @ + qty]
  /\ applying' = [applying EXCEPT ![o] = IF HasOutbox THEN qty ELSE 0]
  /\ UNCHANGED <<record, task, reply, submits, finalizing, venue>>

ApplyFill(o, qty) ==
  /\ qty \in 1..inflight[o]
  /\ applying[o] = 0
  /\ Known(o)
  /\ record[o] = "sided"
  /\ inflight' = [inflight EXCEPT ![o] = @ - qty]
  /\ Transition(o, "FILL", qty)
  /\ IF HasOutbox
     THEN applying' = [applying EXCEPT ![o] = qty] /\ UNCHANGED moved
     ELSE moved' = [moved EXCEPT ![o] = @ + qty] /\ UNCHANGED applying
  /\ UNCHANGED <<record, task, reply, submits, finalizing, venue>>

\* The event is lost: UnknownOrderFillError, a KeyError on a record without
\* a side, or IllegalTransitionError.
FillRefused(o, qty) ==
  /\ qty \in 1..inflight[o]
  /\ applying[o] = 0
  /\ inflight' = [inflight EXCEPT ![o] = @ - qty]
  /\ \/ ~(Known(o) /\ record[o] = "sided") /\ UNCHANGED <<active, fills>>
     \/ Known(o) /\ record[o] = "sided" /\ TransitionRaises(o, "FILL", qty)
  /\ UNCHANGED <<record, moved, task, reply, submits, applying, finalizing,
                 venue>>

\* After the outbox: the position moves by the order's own signed quantity.
FillSaved(o) ==
  /\ applying[o] > 0
  /\ moved' = [moved EXCEPT ![o] = @ + applying[o]]
  /\ applying' = [applying EXCEPT ![o] = 0]
  /\ UNCHANGED <<active, record, fills, task, reply, submits, finalizing,
                 venue, inflight>>

FillSaveFails(o) ==
  /\ CallsMayFail
  /\ applying[o] > 0
  /\ applying' = [applying EXCEPT ![o] = 0]
  /\ UNCHANGED <<memory, task, reply, submits, finalizing, venue, inflight>>
-----------------------------------------------------------------------------
(* cancel_order: local, and only for a known order that may be canceled.   *)

CancelOrder(o) ==
  /\ active[o] # NoState
  /\ transition_order_state(active[o], "CANCEL", 0, 0, 0) # Illegal
  /\ active' = [active EXCEPT ![o] = "CANCELED"]
  /\ UNCHANGED <<record, fills, moved, task, reply, submits, applying,
                 finalizing, venue, inflight>>
-----------------------------------------------------------------------------
(* finalize_partial_fill                                                   *)

\* Mutant: a refusal of the table is not caught.
AlwaysFinalized(state) == "PARTIAL_FILL_FINALIZED"

\* The state written at the end: from the state the coroutine holds in its
\* local variable `current', not from active_orders.
Finalized(state) ==
  IF "PARTIAL_FILL_FINALIZED" \in LEGAL_TRANSITIONS[state]
  THEN "PARTIAL_FILL_FINALIZED"
  ELSE state

\* Mutant: the aggregate replaces the fills.
Overwritten(a, b) == b

\* Mutant: the aggregate is added to the fills.
Added(a, b) == a + b

MaxOf(a, b) == IF a >= b THEN a ELSE b

\* The order as the coroutine finds it: an unknown one starts as SUBMITTED.
FinalizeFrom(o) == IF active[o] = NoState THEN "SUBMITTED" ELSE active[o]

Replays(o) == FinalizeFrom(o) \in {"CREATED", "SUBMITTED"}

\* The aggregate fill replayed through the table; its record, if it was
\* missing, is registered first, so it always has an intended quantity.
ReplayedState(o, qty) == FillTarget(qty, Qty[o], fills[o])

FinalizePartialFill(o, qty) ==
  /\ finalizing[o] = NotFinalizing
  /\ record' = [record EXCEPT ![o] = IF @ = "none" THEN "sideless" ELSE @]
  /\ IF Replays(o) /\ HasOutbox
     THEN /\ active' = [active EXCEPT ![o] = ReplayedState(o, qty)]
          /\ fills' = [fills EXCEPT ![o] = @ + qty]
          /\ finalizing' = [finalizing EXCEPT
                              ![o] = [state |-> ReplayedState(o, qty),
                                      qty |-> qty]]
     ELSE /\ active' = [active EXCEPT
                          ![o] = Finalized(IF Replays(o)
                                           THEN ReplayedState(o, qty)
                                           ELSE FinalizeFrom(o))]
          /\ fills' = [fills EXCEPT
                         ![o] = MaxOf(IF Replays(o) THEN @ + qty ELSE @, qty)]
          /\ UNCHANGED finalizing
  /\ UNCHANGED <<moved, task, reply, submits, applying, venue, inflight>>

FinalizeSaved(o) ==
  /\ finalizing[o] # NotFinalizing
  /\ active' = [active EXCEPT ![o] = Finalized(finalizing[o].state)]
  /\ fills' = [fills EXCEPT ![o] = MaxOf(@, finalizing[o].qty)]
  /\ finalizing' = [finalizing EXCEPT ![o] = NotFinalizing]
  /\ UNCHANGED <<record, moved, task, reply, submits, applying, venue,
                 inflight>>

FinalizeSaveFails(o) ==
  /\ CallsMayFail
  /\ finalizing[o] # NotFinalizing
  /\ finalizing' = [finalizing EXCEPT ![o] = NotFinalizing]
  /\ UNCHANGED <<memory, task, reply, submits, applying, venue, inflight>>
-----------------------------------------------------------------------------
(* The venue                                                               *)

\* create_order reaches the venue.  The answer may be lost on the way back;
\* a second order under the same id is refused.
VenueAccepts(o) ==
  /\ task[o] = "creating"
  /\ venue[o].status = "none"
  /\ venue' = [venue EXCEPT ![o].status = "open"]
  /\ \/ task' = [task EXCEPT ![o] = "accepted"]
     \/ CallsMayFail /\ task' = [task EXCEPT ![o] = "failed"]
  /\ UNCHANGED <<memory, reply, submits, applying, finalizing, inflight>>

\* Rejected by the venue, by the kill switch or by the minimum notional.
VenueRefuses(o) ==
  /\ task[o] = "creating"
  /\ task' = [task EXCEPT ![o] = "failed"]
  /\ UNCHANGED <<memory, reply, submits, applying, finalizing, venue, inflight>>

VenueExecutes(o) ==
  /\ venue[o].status = "open"
  /\ \E q \in 1..(Qty[o] - venue[o].exec) :
       /\ venue' = [venue EXCEPT
                      ![o] = [status |-> IF venue[o].exec + q = Qty[o]
                                         THEN "closed" ELSE "open",
                              exec   |-> venue[o].exec + q]]
       /\ inflight' = [inflight EXCEPT ![o] = @ + q]
  /\ UNCHANGED <<memory, task, reply, submits, applying, finalizing>>

\* By request of the order chaser or of a reversal, or on its own.
VenueCancels(o) ==
  /\ venue[o].status = "open"
  /\ venue' = [venue EXCEPT ![o].status = "canceled"]
  /\ UNCHANGED <<memory, task, reply, submits, applying, finalizing, inflight>>
-----------------------------------------------------------------------------
Proceeds(o) ==
  \/ RejectStale(o) \/ QueryVenue(o) \/ VenueReplies(o) \/ QueryFails(o)
  \/ \E q \in 0..Qty[o] : ShadowFill(o, q)
  \/ AdoptExisting(o) \/ CreateAtVenue(o) \/ Accepted(o)
  \/ StatusSaved(o) \/ StatusSaveFails(o) \/ RejectFailed(o)
  \/ VenueAccepts(o) \/ VenueRefuses(o)

Submission(o) == Proceeds(o) \/ PreflightRaises(o)

Filling(o) ==
  \/ \E q \in 1..Qty[o] : ApplyFill(o, q) \/ FillRefused(o, q)
  \/ FillSaved(o) \/ FillSaveFails(o)

\* The caller of finalize_partial_fill is the order chaser; it passes what
\* it has seen executed, which may lag behind the venue.
Finalization(o) ==
  \/ \E q \in 0..Qty[o] : q <= venue[o].exec /\ FinalizePartialFill(o, q)
  \/ FinalizeSaved(o) \/ FinalizeSaveFails(o)

Next ==
  \E o \in Orders :
    \/ SubmitOrder(o)
    \/ Submission(o)
    \/ Filling(o)
    \/ CancelOrder(o)
    \/ Finalization(o)
    \/ VenueExecutes(o)
    \/ VenueCancels(o)

Spec == Init /\ [][Next]_vars
-----------------------------------------------------------------------------
(* Properties                                                              *)

\* No phantom position: what an order added to the net position, what a
\* suspended apply_fill is about to add and what is still to be reported
\* never exceed what the venue executed.  It is about apply_fill being the
\* only writer of positions and about its refusals (unknown order, missing
\* side, terminal state) keeping the position untouched.
NoPhantomPosition ==
  \A o \in Orders : moved[o] + applying[o] + inflight[o] <= venue[o].exec

\* The filled quantity the system reports for an order submitted once never
\* exceeds what the venue executed, although a fill can reach it twice:
\* aggregated by finalize_partial_fill and as the fill event itself.
FillsWithinExecuted ==
  \A o \in Orders \ Shadow :
    submits[o] <= 1 => fills[o] <= venue[o].exec

\* FILLED means executed: no order is FILLED for a quantity the venue did
\* not execute.
FilledOnlyWhenExecuted ==
  \A o \in Orders : active[o] = "FILLED" => venue[o].exec = Qty[o]

\* No order is live at the venue behind the system's back: once its only
\* submit_order has ended, an order the venue holds open is neither unknown
\* nor REJECTED locally.
NoUntrackedVenueOrder ==
  \A o \in Orders :
    submits[o] <= 1 /\ task[o] \in AtRest /\ venue[o].status = "open"
      => active[o] \notin {NoState, "REJECTED"}

\* A timeout or a failed save can leave an order open at the venue that is
\* unknown or REJECTED locally, but never silently: the caller of submit_order
\* has been given the exception.
UntrackedOnlyAfterRaise ==
  \A o \in Orders :
    /\ submits[o] <= 1 /\ task[o] \in AtRest
    /\ venue[o].status = "open" /\ active[o] \in {NoState, "REJECTED"}
    => task[o] = "raised"

\* Submitting a client order id again is idempotent: for an order that is
\* FILLED by then it returns that state, never IllegalTransitionError.
ResubmissionNeverRaises ==
  \A o \in Orders :
    submits[o] > 1 /\ active[o] = "FILLED" => task[o] # "illegal"

\* A fill of an order whose own side is on record is not dropped as the fill
\* of an unknown order.
RecordedOrderTakesFills ==
  [][\A o \in Orders :
       inflight'[o] < inflight[o] /\ record[o] = "sided"
         => active[o] # NoState]_vars

\* The states without a legal exit are final, whichever coroutine resumes.
TerminalStatesAreFinal ==
  [][\A o \in Orders :
       active[o] \in TERMINAL_STATES => active'[o] = active[o]]_vars

\* A cancellation or finalization never discards executed quantity.
FillsNeverShrink ==
  [][\A o \in Orders : fills'[o] >= fills[o]]_vars

\* Every handler, with the awaits in it, follows the life cycle of
\* OrderLifecycle: the legal table, terminal states, cumulative fills.
Lifecycle ==
  INSTANCE OrderLifecycle WITH state  <- [o \in Orders |-> Current(o)],
                               filled <- fills

ImplementsLifecycle == Lifecycle!LSpec
=============================================================================
