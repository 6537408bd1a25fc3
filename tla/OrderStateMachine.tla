-------------------------- MODULE OrderStateMachine --------------------------
(***************************************************************************)
(* The order life cycle as execution/state_machine.py defines it: an       *)
(* explicit table of legal moves and the function transition_order_state   *)
(* that applies one event to one state, or refuses.                        *)
(*                                                                         *)
(* Quantities are lots (naturals): the code's floats come from a venue     *)
(* grid and are only added and compared.  An intended quantity of 0 stands *)
(* for "no quantity context" (None or 0.0 are both falsy in the code).     *)
(***************************************************************************)
EXTENDS Naturals

OrderState ==
  { "CREATED", "SUBMITTED", "ACKED", "FILLED", "PARTIALLY_FILLED",
    "PARTIAL_FILL_FINALIZED", "CANCELED", "REJECTED", "EXPIRED",
    "QUARANTINED", "UNKNOWN" }

OrderEventType ==
  { "CREATED", "SUBMITTED", "ACKED", "FILL", "CANCEL", "CANCELED", "EXPIRY",
    "REJECTED", "QUARANTINED", "PARTIAL_FILL_FINALIZED" }

\* What transition_order_state answers instead of a state when it raises
\* IllegalTransitionError.
Illegal == "illegal"

LEGAL_TRANSITIONS ==
  LET ends   == {"CANCELED", "REJECTED", "EXPIRED", "QUARANTINED"}
      filled == {"PARTIALLY_FILLED", "FILLED"}
  IN  [s \in OrderState |->
         CASE s = "CREATED"          -> {"SUBMITTED"} \cup ends
           [] s = "SUBMITTED"        -> {"ACKED"} \cup filled \cup ends
           [] s = "ACKED"            -> filled \cup ends
           [] s = "PARTIALLY_FILLED" ->
                filled \cup {"PARTIAL_FILL_FINALIZED"} \cup ends
           [] s = "UNKNOWN"          -> {"QUARANTINED"}
           [] OTHER                  -> {}]

TERMINAL_STATES == {s \in OrderState : LEGAL_TRANSITIONS[s] = {}}

\* The nested _resolve_fill_target: stacked partial fills are compared with
\* the intended quantity, an order without one is filled at once.
FillTarget(fillQty, intendedQty, prevFilledQty) ==
  IF intendedQty # 0 /\ fillQty + prevFilledQty < intendedQty
  THEN "PARTIALLY_FILLED"
  ELSE "FILLED"

\* The state each other event asks for; CREATED asks for none.
EventTarget ==
  [e \in OrderEventType \ {"FILL", "CREATED"} |->
     CASE e \in {"CANCEL", "CANCELED"} -> "CANCELED"
       [] e = "EXPIRY"                 -> "EXPIRED"
       [] OTHER                        -> e]

transition_order_state(state, event, fillQty, intendedQty, prevFilledQty) ==
  LET target ==
        IF event = "FILL"
        THEN FillTarget(fillQty, intendedQty, prevFilledQty)
        ELSE IF event = "CREATED" THEN Illegal ELSE EventTarget[event]
  IN  IF target \in LEGAL_TRANSITIONS[state] THEN target ELSE Illegal
=============================================================================
