---------------------------- MODULE OrderLifecycle ----------------------------
(***************************************************************************)
(* What the order management system promises of each order, whatever the   *)
(* interleaving of its coroutines: the order's state only ever follows the *)
(* transition table (a handler may take several hops at once), so it never *)
(* leaves a terminal state, and its cumulative filled quantity never       *)
(* shrinks.  An order the system does not know yet is in state CREATED.    *)
(***************************************************************************)
EXTENDS OrderStateMachine

CONSTANTS Orders

VARIABLES state, filled

lifecycle == <<state, filled>>

\* States reachable by legal moves: the closure of the table, which no chain
\* of distinct states longer than five can leave.
Follow(S) == S \cup UNION {LEGAL_TRANSITIONS[s] : s \in S}

Reachable(s) == Follow(Follow(Follow(Follow({s}))))

LInit ==
  /\ state  = [o \in Orders |-> "CREATED"]
  /\ filled = [o \in Orders |-> 0]

\* One handler's effect on one order.
Advance(o) ==
  /\ \E s \in Reachable(state[o]) : state' = [state EXCEPT ![o] = s]
  /\ filled'[o] >= filled[o]
  /\ filled' = [filled EXCEPT ![o] = filled'[o]]

LNext == \E o \in Orders : Advance(o)

LSpec == LInit /\ [][LNext]_lifecycle
=============================================================================
