----------------------------- MODULE OrderChase -----------------------------
(***************************************************************************)
(* The order chaser (execution/chase.py) beside the OMS: one scan at a     *)
(* time over the working orders, canceling stale ones at the venue and     *)
(* finalizing them in the OMS, while submissions cancel the opposite       *)
(* working orders (wash trading prevention) and fills reach the OMS and    *)
(* the chaser separately.  All orders of an instance are on one symbol.    *)
(***************************************************************************)
EXTENDS OMS

CONSTANTS
  SideOf,         \* LONG or SHORT, for each order
  MinQty          \* the venue's minimum remaining quantity

ASSUME ChaseAssumption ==
  /\ SideOf \in [Orders -> {"LONG", "SHORT"}]
  /\ MinQty \in Nat

VARIABLES
  tracked,     \* keys of working_orders
  status,      \* WorkingOrderInfo.status
  seen,        \* WorkingOrderInfo.filled_qty
  fresh,       \* last_fill_time_ms is within the chase timeout
  unseen,      \* executed at the venue, not yet reported to on_fill_event
  wash,        \* opposite working orders a submission still has to cancel
  answered,    \* the one of them the venue canceled, its answer under way
  found,       \* history: the opposite working orders a submission found
               \* when it was last made before the venue had the order
  scan         \* the running check_and_chase

chaser == <<tracked, status, seen, fresh>>
washing == <<wash, answered, found>>
cvars == <<vars, chaser, unseen, washing, scan>>

\* Mutant: an order canceled by a reversal counts as working.
FinishedButCanceled == {"FILLED", "REJECTED", "PARTIAL_FILL_FINALIZED"}

Finished == {"FILLED", "CANCELED", "REJECTED", "PARTIAL_FILL_FINALIZED"}

\* at: where the scan is, in particular at the instrument's limits and the
\* cancellation, at the answer to it, at the outbox of the replayed fill or of
\* the finalization; todo: orders of its snapshot not yet visited; cur:
\* the order it is at; below: the remainder it computed for that order is
\* under the venue's minimum; remove: to_remove.
NoScan == [at |-> "idle", todo |-> {}, cur |-> {}, below |-> FALSE,
           remove |-> {}]

CTypeOK ==
  /\ TypeOK
  /\ tracked \subseteq Orders
  /\ status \in [Orders -> Finished \cup {"SUBMITTED"}]
  /\ seen \in [Orders -> Nat]
  /\ fresh \in [Orders -> BOOLEAN]
  /\ unseen \in [Orders -> Nat]
  /\ wash \in [Orders -> SUBSET Orders]
  /\ answered \in [Orders -> SUBSET Orders]
  /\ found \in [Orders -> SUBSET Orders]
  /\ scan \in [at : {"idle", "scanning", "info", "answered", "replaying",
                     "saving"},
               todo : SUBSET Orders, cur : SUBSET Orders, below : BOOLEAN,
               remove : SUBSET Orders]

CInit ==
  /\ Init
  /\ tracked = {}
  /\ status = [o \in Orders |-> "SUBMITTED"]
  /\ seen = [o \in Orders |-> 0]
  /\ fresh = [o \in Orders |-> TRUE]
  /\ unseen = [o \in Orders |-> 0]
  /\ wash = [o \in Orders |-> {}]
  /\ answered = [o \in Orders |-> {}]
  /\ found = [o \in Orders |-> {}]
  /\ scan = NoScan
-----------------------------------------------------------------------------
(* The working orders                                                      *)

\* The caller of submit_order hands an accepted order to the chaser.
RegisterOrder(o) ==
  /\ task[o] = "returned"
  /\ active[o] = "SUBMITTED"
  /\ o \notin tracked
  /\ status[o] = "SUBMITTED"
  /\ tracked' = tracked \cup {o}
  /\ UNCHANGED <<vars, status, seen, fresh, unseen, washing, scan>>

\* Mutant: any fill counts as the whole.
OnFillEventFilled(o, qty) ==
  /\ qty \in 1..unseen[o]
  /\ o \in tracked
  /\ unseen' = [unseen EXCEPT ![o] = @ - qty]
  /\ seen' = [seen EXCEPT ![o] = @ + qty]
  /\ fresh' = [fresh EXCEPT ![o] = TRUE]
  /\ status' = [status EXCEPT ![o] = "FILLED"]
  /\ UNCHANGED <<vars, tracked, washing, scan>>

OnFillEvent(o, qty) ==
  /\ qty \in 1..unseen[o]
  /\ unseen' = [unseen EXCEPT ![o] = @ - qty]
  /\ IF o \in tracked
     THEN /\ seen' = [seen EXCEPT ![o] = @ + qty]
          /\ fresh' = [fresh EXCEPT ![o] = TRUE]
          /\ status' = [status EXCEPT
                          ![o] = IF seen[o] + qty >= Qty[o]
                                 THEN "FILLED" ELSE @]
     ELSE UNCHANGED <<seen, fresh, status>>
  /\ UNCHANGED <<vars, tracked, washing, scan>>

\* Time: chase_timeout_ms has passed since the last fill.
GoesStale(o) ==
  /\ o \in tracked
  /\ fresh[o]
  /\ fresh' = [fresh EXCEPT ![o] = FALSE]
  /\ UNCHANGED <<vars, tracked, status, seen, unseen, washing, scan>>
-----------------------------------------------------------------------------
(* submit_order with a chaser                                              *)

\* Mutant: the comparison of sides is inverted.
SameSide(o) == {w \in tracked : SideOf[w] = SideOf[o]}

Opposite(o) == {w \in tracked : SideOf[w] # SideOf[o]}

SubmitChased(o) ==
  /\ SubmitOrder(o)
  /\ wash' = [wash EXCEPT ![o] = IF o \in BelowGrid THEN {} ELSE Opposite(o)]
  /\ found' = [found EXCEPT ![o] =
                  IF venue[o].status = "none"
                  THEN {w \in tracked : SideOf[w] # SideOf[o]}
                  ELSE @]
  /\ UNCHANGED <<chaser, unseen, answered, scan>>

\* One turn of the wash trading loop: the venue cancels the order ...
WashCancel(o, w) ==
  /\ task[o] = "preflight"
  /\ w \in wash[o] /\ answered[o] = {}
  /\ VenueCancels(w)
  /\ answered' = [answered EXCEPT ![o] = {w}]
  /\ UNCHANGED <<chaser, unseen, wash, found, scan>>

\* ... and when its answer is there, only the chaser's view of it changes.
WashCanceled(o, w) ==
  /\ w \in answered[o]
  /\ wash' = [wash EXCEPT ![o] = @ \ {w}]
  /\ answered' = [answered EXCEPT ![o] = {}]
  /\ status' = [status EXCEPT ![w] = "CANCELED"]
  /\ UNCHANGED <<vars, tracked, seen, fresh, unseen, found, scan>>

\* The venue does not hold that order open, or the call fails, before or after
\* it took effect: the exception leaves submit_order.
WashCancelRaises(o, w) ==
  /\ w \in wash[o]
  /\ CallsMayFail \/ (answered[o] = {} /\ venue[w].status # "open")
  /\ PreflightRaises(o)
  /\ wash' = [wash EXCEPT ![o] = {}]
  /\ answered' = [answered EXCEPT ![o] = {}]
  /\ UNCHANGED <<chaser, unseen, found, scan>>

SubmissionGoesOn(o) ==
  /\ wash[o] = {}
  /\ Proceeds(o)
  /\ UNCHANGED <<chaser, unseen, washing, scan>>
-----------------------------------------------------------------------------
(* check_and_chase                                                         *)

StartScan ==
  /\ scan.at = "idle"
  /\ tracked # {}
  /\ scan' = [NoScan EXCEPT !.at = "scanning", !.todo = tracked]
  /\ UNCHANGED <<vars, chaser, unseen, washing>>

\* The next order of the snapshot: an order that is over is marked for
\* removal, a fresh one is skipped, a stale one has its remainder computed
\* before the coroutine awaits the instrument's limits.
Visit(o) ==
  /\ scan.at = "scanning"
  /\ o \in scan.todo
  /\ LET left == [scan EXCEPT !.todo = @ \ {o}]
     IN  scan' = CASE status[o] \in Finished ->
                        [left EXCEPT !.remove = @ \cup {o}]
                   [] status[o] \notin Finished /\ fresh[o] -> left
                   [] OTHER -> [left EXCEPT !.at = "info", !.cur = {o},
                                            !.below = Qty[o] - seen[o] < MinQty]
  /\ UNCHANGED <<vars, chaser, unseen, washing>>

\* No token left in the bucket: skipped until a later scan.
RateLimited(o) ==
  /\ scan.at = "info"
  /\ o \in scan.cur
  /\ scan' = [scan EXCEPT !.at = "scanning", !.cur = {}]
  /\ UNCHANGED <<vars, chaser, unseen, washing>>

\* A token is left and the venue cancels the order.
ChaseCancels(o) ==
  /\ scan.at = "info"
  /\ o \in scan.cur
  /\ VenueCancels(o)
  /\ scan' = [scan EXCEPT !.at = "answered"]
  /\ UNCHANGED <<chaser, unseen, washing>>

\* A venue call raises, the cancellation before or after it took effect, and
\* ends the scan; nothing it marked is removed.
ScanAborts(o) ==
  /\ o \in scan.cur
  /\ \/ scan.at = "info" /\ (venue[o].status # "open" \/ CallsMayFail)
     \/ scan.at = "answered" /\ CallsMayFail
  /\ scan' = NoScan
  /\ UNCHANGED <<vars, chaser, unseen, washing>>

\* Abandonment of a remainder below the minimum marks the order for removal,
\* cancel-and-reprice leaves that to the next scan.
NextOrder(o) ==
  scan' = [scan EXCEPT !.at = "scanning", !.cur = {},
                       !.remove = IF scan.below THEN @ \cup {o} ELSE @]

\* The cancellation is answered: the order counts as finalized, and
\* finalize_partial_fill is called with the quantity it is said to have filled.
\* It may suspend on the outbox, after the replayed fill and at its end.
AbandonWith(o, qty) ==
  /\ scan.at = "answered"
  /\ o \in scan.cur
  /\ status' = [status EXCEPT ![o] = "PARTIAL_FILL_FINALIZED"]
  /\ FinalizePartialFill(o, qty)
  /\ IF HasOutbox
     THEN scan' = [scan EXCEPT !.at = IF finalizing'[o] = NotFinalizing
                                      THEN "saving" ELSE "replaying"]
     ELSE NextOrder(o)
  /\ UNCHANGED <<tracked, seen, fresh, unseen, washing>>

\* Mutant: it is called with the quantity the order asked for.
AbandonWhole(o) == AbandonWith(o, Qty[o])

\* The quantity seen by now.
Abandon(o) == AbandonWith(o, seen[o])

ChaseFinalized(o) ==
  /\ FinalizeSaved(o)
  /\ scan' = [scan EXCEPT !.at = "saving"]
  /\ UNCHANGED <<chaser, unseen, washing>>

ChaseFinalizeFails(o) ==
  /\ FinalizeSaveFails(o)
  /\ scan' = NoScan
  /\ UNCHANGED <<chaser, unseen, washing>>

\* The last UPDATE of the finalization; the scan ends if it fails.
ChaseSaved(o) ==
  /\ scan.at = "saving"
  /\ o \in scan.cur
  /\ NextOrder(o) \/ (CallsMayFail /\ scan' = NoScan)
  /\ UNCHANGED <<vars, chaser, unseen, washing>>

EndScan ==
  /\ scan.at = "scanning"
  /\ scan.todo = {}
  /\ tracked' = tracked \ scan.remove
  /\ scan' = NoScan
  /\ UNCHANGED <<vars, status, seen, fresh, unseen, washing>>
-----------------------------------------------------------------------------
(* What the OMS, the feed and the venue do beside the chaser               *)

ExecutesChased(o) ==
  /\ VenueExecutes(o)
  /\ unseen' = [unseen EXCEPT ![o] = @ + venue'[o].exec - venue[o].exec]
  /\ UNCHANGED <<chaser, washing, scan>>

\* The venue also cancels or expires an order nobody asked it to cancel.
Others(o) ==
  /\ Filling(o) \/ CancelOrder(o) \/ VenueCancels(o)
  /\ UNCHANGED <<chaser, unseen, washing, scan>>

Scanning ==
  \/ StartScan \/ EndScan
  \/ \E o \in Orders :
       \/ Visit(o) \/ RateLimited(o) \/ ChaseCancels(o) \/ ScanAborts(o)
       \/ Abandon(o) \/ ChaseFinalized(o) \/ ChaseFinalizeFails(o) \/ ChaseSaved(o)

CNext ==
  \/ \E o \in Orders :
       \/ SubmitChased(o) \/ SubmissionGoesOn(o)
       \/ \E w \in Orders :
            WashCancel(o, w) \/ WashCanceled(o, w) \/ WashCancelRaises(o, w)
       \/ RegisterOrder(o) \/ GoesStale(o)
       \/ \E q \in 1..Qty[o] : OnFillEvent(o, q)
       \/ ExecutesChased(o) \/ Others(o)
  \/ Scanning

CSpec == CInit /\ [][CNext]_cvars

\* check_and_chase is called again and again and its awaits end, like those of
\* the wash trading loop; time passes; the feed delivers; a token bucket refills
\* and the venue honours a cancellation, so a scan that keeps coming back to an
\* open order is not denied for ever.
CFairSpec ==
  /\ CSpec
  /\ WF_cvars(Scanning)
  /\ \A o \in Orders :
       /\ WF_cvars(GoesStale(o))
       /\ WF_cvars(\E w \in Orders : WashCanceled(o, w))
       /\ WF_cvars(\E q \in 1..Qty[o] : OnFillEvent(o, q))
       /\ SF_cvars(ChaseCancels(o))
-----------------------------------------------------------------------------
(* Properties                                                              *)

\* The chaser and the wash trading loop only do to the OMS what its own
\* specification allows: in particular finalize_partial_fill is never
\* called with more than the venue executed.
ImplementsOMS == Spec

\* An order the chaser considers over is not live at the venue: it is never
\* dropped from tracking while it can still execute.
ResolvedMeansNotLive ==
  \A o \in Orders :
    status[o] \in Finished => venue[o].status \in {"closed", "canceled"}

\* An order that was working when the opposite order was submitted, and that
\* the wash trading loop had to cancel, never rests beside it.
NoWashedOpposite ==
  \A o, w \in Orders :
    /\ SideOf[o] # SideOf[w]
    /\ venue[o].status = "open" /\ venue[w].status = "open"
    => w \notin found[o]

\* No wash trade: a buy and a sell order are never open at once.
NoSimultaneousOpposite ==
  \A o, w \in Orders :
    SideOf[o] # SideOf[w]
      => ~(venue[o].status = "open" /\ venue[w].status = "open")

\* A fill that lost the race against the cancellation still updates the
\* portfolio position when it is reported.
LateFillUpdatesPosition ==
  [][\A o \in Orders :
       /\ active[o] \in {"CANCELED", "PARTIAL_FILL_FINALIZED"}
       /\ inflight'[o] < inflight[o]
       => moved'[o] + applying'[o] > moved[o] + applying[o]]_cvars

\* A reversal closes the order it cancels in the OMS as well: once the
\* chaser has dropped it, the OMS does not go on working it.
ReversedOrderClosed ==
  \A o \in Orders :
    status[o] = "CANCELED" /\ o \notin tracked
      => active[o] \in TERMINAL_STATES

\* The chaser was told of less than the venue executed before the order was
\* registered with it, and will never hear of the rest.
Missed(o) == seen[o] + unseen[o] < venue[o].exec

\* Every working order is resolved and dropped from tracking, whatever the
\* fills, the denials and the cancellations by a reversal on the way, ...
WorkingOrdersResolve ==
  \A o \in Orders : o \in tracked ~> o \notin tracked

\* The venue canceled an order and nobody in this process will learn it: it did
\* so on its own, or the answer to the cancellation was lost.
Gone(o) ==
  /\ venue[o].status = "canceled"
  /\ status[o] = "SUBMITTED"
  /\ ~(scan.at = "answered" /\ o \in scan.cur)
  /\ \A w \in Orders : o \notin answered[w]

\* ... unless a working order executed before it was registered, or is gone:
\* the venue then refuses its cancellation, and the exception ends each scan.
WorkingOrdersResolveUnlessMissed ==
  \A o \in Orders :
    o \in tracked ~>
      \/ o \notin tracked
      \/ \E w \in tracked : Missed(w) \/ Gone(w)
=============================================================================
