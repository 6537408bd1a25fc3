----------------------------- MODULE ActorEngine -----------------------------
(***************************************************************************)
(* The actor engine of synthetic/oms_engine.py, one per symbol, under the  *)
(* portfolio governor of synthetic/portfolio_governor.py.                  *)
(*                                                                         *)
(* One thread runs the actors and the governor.  Two things happen beside  *)
(* it: the exchange works its orders and sends numbered messages over a    *)
(* network that reorders and repeats them, and the reconciler's thread     *)
(* fetches the position at the exchange and later puts it in the mailbox.  *)
(* The exchange is external.                                               *)
(***************************************************************************)
EXTENDS Integers, Sequences, FiniteSetsExt, Functions

CONSTANTS
  Symbol,
  Order,            \* order ids, each entered at most once
  SymbolOf,         \* the symbol whose actor works the order
  Buys,             \* the orders on the buy side
  Qty,              \* lots ordered
  Tolerance,        \* max_discrepancy_pct
  RiskLevel,        \* what update_portfolio_risk may report of a symbol
  RiskLimit,        \* max_portfolio_risk_pct
  MaxCancels,       \* bound on the safety events queued at an actor
  MaxFetches        \* bound on the snapshots fetched of a symbol

ASSUME ActorAssumption ==
  /\ SymbolOf \in [Order -> Symbol]
  /\ Buys \subseteq Order
  /\ Qty \in [Order -> Nat \ {0}]
  /\ {Tolerance, RiskLimit, MaxCancels, MaxFetches} \subseteq Nat
  /\ RiskLevel \subseteq Nat
  /\ RiskLimit > 0

VARIABLES
  status, filled,   \* _orders
  position,         \* local_position
  next, buffer,     \* next_expected_seq_num, and the numbers in seq_buffer
  cancels, entries, \* event_pq: its tier 0 and its tier 2 events
  mailbox,          \* the snapshot waiting, if any
  halted,           \* the symbols whose actor is_halted
  risk,             \* symbol_risk_pct
  globalHalt,       \* is_globally_halted, and whether the cooldown is over
  book, executed,   \* the orders at the exchange and their executions
  asked,            \* cancels on their way to the exchange
  sent, transit,    \* messages sent, and the numbers of those under way
  fetched,          \* the snapshot in the hands of the reconciler's thread
  fetches,          \* how many it has fetched
  synced            \* history: actors that ever adopted a snapshot

orders   == <<status, filled>>
stream   == <<next, buffer, transit>>
queue    == <<cancels, entries>>
governor == <<risk, globalHalt>>
exchange == <<book, executed, asked, sent>>
snapshot == <<mailbox, fetched, fetches, synced>>
vars == <<orders, position, stream, queue, halted, governor, exchange,
          snapshot>>

Status == {"none", "ACTIVE", "PENDING_CANCEL", "FILLED", "PARTIALLY_FILLED",
           "CANCELLED", "REJECTED"}

\* An exchange message; pos is the position at the exchange after it.
Message ==
  [order : Order, pos : Int, qty : Nat,
   type : {"FILL", "CANCEL_CONFIRMED", "CANCEL_REJECTED", "REJECT"}]

OrderTypes ==
  /\ status \in [Order -> Status]
  /\ filled \in [Order -> Nat]
  /\ book \in [Order -> {"none", "open", "closed"}]
  /\ executed \in [Order -> Nat]
  /\ asked \subseteq Order

StreamTypes ==
  /\ position \in [Symbol -> Int]
  /\ next \in [Symbol -> Nat \ {0}]
  /\ buffer \in [Symbol -> SUBSET (Nat \ {0})]
  /\ transit \in [Symbol -> SUBSET (Nat \ {0})]
  /\ sent \in [Symbol -> Seq(Message)]

ActorTypes ==
  /\ cancels \in [Symbol -> Seq(Order)]
  /\ entries \in [Symbol -> Seq(Order)]
  /\ mailbox \in [Symbol -> SUBSET Int]
  /\ fetched \in [Symbol -> SUBSET Int]
  /\ fetches \in [Symbol -> 0..MaxFetches]
  /\ synced \subseteq Symbol
  /\ halted \subseteq Symbol
  /\ risk \in [Symbol -> Nat]
  /\ globalHalt \in {"off", "cooling", "cooled"}

TypeOK == OrderTypes /\ StreamTypes /\ ActorTypes

Init ==
  /\ status = [o \in Order |-> "none"]
  /\ filled = [o \in Order |-> 0]
  /\ position = [s \in Symbol |-> 0]
  /\ next = [s \in Symbol |-> 1]
  /\ buffer = [s \in Symbol |-> {}]
  /\ transit = [s \in Symbol |-> {}]
  /\ cancels = [s \in Symbol |-> <<>>]
  /\ entries = [s \in Symbol |-> <<>>]
  /\ mailbox = [s \in Symbol |-> {}]
  /\ fetched = [s \in Symbol |-> {}]
  /\ fetches = [s \in Symbol |-> 0]
  /\ synced = {}
  /\ halted = {}
  /\ risk = [s \in Symbol |-> 0]
  /\ globalHalt = "off"
  /\ book = [o \in Order |-> "none"]
  /\ executed = [o \in Order |-> 0]
  /\ asked = {}
  /\ sent = [s \in Symbol |-> <<>>]

\* What a fill of q lots adds to the position.
Signed(o, q) == IF o \in Buys THEN q ELSE -q

\* on_exchange_message has more messages to apply.  The thread does nothing
\* else before it has applied them.
Applying(s) == next[s] \in buffer[s]
ThreadFree  == \A s \in Symbol : ~Applying(s)
-----------------------------------------------------------------------------
(* Exchange messages                                                       *)

\* Mutant: a message that is not the next one is dropped.
ReceiveInTurn(s, i) ==
  /\ ThreadFree
  /\ i \in transit[s]
  /\ buffer' = [buffer EXCEPT ![s] = IF i = next[s] THEN @ \cup {i} ELSE @]
  /\ transit' \in {transit, [transit EXCEPT ![s] = @ \ {i}]}
  /\ UNCHANGED <<orders, position, next, queue, halted, governor, exchange,
                 snapshot>>

\* on_exchange_message: buffer whatever comes, an old number included.  The
\* network may deliver the message again.
Receive(s, i) ==
  /\ ThreadFree
  /\ i \in transit[s]
  /\ buffer' = [buffer EXCEPT ![s] = @ \cup {i}]
  /\ transit' \in {transit, [transit EXCEPT ![s] = @ \ {i}]}
  /\ UNCHANGED <<orders, position, next, queue, halted, governor, exchange,
                 snapshot>>

\* The status a fill leads to: an order waiting for its cancel is taken to
\* be filled, whatever the quantity.
FillStatus(o, q) ==
  IF status[o] = "PENDING_CANCEL" \/ filled[o] + q >= Qty[o]
  THEN "FILLED"
  ELSE "PARTIALLY_FILLED"

ApplyFill(s, m) ==
  /\ status' = [status EXCEPT ![m.order] = FillStatus(m.order, m.qty)]
  /\ filled' = [filled EXCEPT ![m.order] = @ + m.qty]
  /\ position' = [position EXCEPT ![s] = @ + Signed(m.order, m.qty)]

\* Any other message: it changes the status or, for a CANCEL_REJECTED and
\* for the confirmed cancel of a filled order, nothing.
ApplyStatus(m) ==
  /\ \/ /\ m.type = "CANCEL_CONFIRMED"
        /\ status[m.order] # "FILLED"
        /\ status' = [status EXCEPT ![m.order] = "CANCELLED"]
     \/ /\ m.type = "REJECT"
        /\ status' = [status EXCEPT ![m.order] = "REJECTED"]
     \/ /\ \/ m.type = "CANCEL_REJECTED"
           \/ m.type = "CANCEL_CONFIRMED" /\ status[m.order] = "FILLED"
        /\ UNCHANGED status
  /\ UNCHANGED <<filled, position>>

\* Mutant: a gap before the lowest buffered number is skipped.
ApplyLowest(s) ==
  /\ buffer[s] # {}
  /\ LET i == CHOOSE i \in buffer[s] : \A j \in buffer[s] : i <= j
         m == sent[s][i]
     IN  /\ buffer' = [buffer EXCEPT ![s] = @ \ {i}]
         /\ next' = [next EXCEPT ![s] = i + 1]
         /\ IF m.type = "FILL" THEN ApplyFill(s, m) ELSE ApplyStatus(m)
  /\ UNCHANGED <<transit, queue, halted, governor, exchange, snapshot>>

\* One turn of the loop of on_exchange_message.
Apply(s) ==
  /\ Applying(s)
  /\ LET m == sent[s][next[s]]
     IN  IF m.type = "FILL" THEN ApplyFill(s, m) ELSE ApplyStatus(m)
  /\ buffer' = [buffer EXCEPT ![s] = @ \ {next[s]}]
  /\ next' = [next EXCEPT ![s] = @ + 1]
  /\ UNCHANGED <<transit, queue, halted, governor, exchange, snapshot>>
-----------------------------------------------------------------------------
(* Events                                                                  *)

\* enqueue_event: a sniper entry, or a safety event naming an order.
EnqueueEntry(s, o) ==
  /\ ThreadFree
  /\ SymbolOf[o] = s
  /\ status[o] = "none"
  /\ \A i \in DOMAIN entries[s] : entries[s][i] # o
  /\ entries' = [entries EXCEPT ![s] = Append(@, o)]
  /\ UNCHANGED <<orders, position, stream, cancels, halted, governor,
                 exchange, snapshot>>

EnqueueCancel(s, o) ==
  /\ ThreadFree
  /\ SymbolOf[o] = s
  /\ Len(cancels[s]) < MaxCancels
  /\ status[o] # "none" \/ \E i \in DOMAIN entries[s] : entries[s][i] = o
  /\ cancels' = [cancels EXCEPT ![s] = Append(@, o)]
  /\ UNCHANGED <<orders, position, stream, entries, halted, governor,
                 exchange, snapshot>>

Abs(x) == IF x < 0 THEN -x ELSE x

Severe(p, q) ==
  100 * Abs(p - q) > Tolerance * Max({Abs(p), Abs(q), 1})

\* The end of run_event_step: take the snapshot out of the mailbox, halt if
\* it is far from the position, else adopt it.
DrainMailbox(s) ==
  /\ mailbox' = [mailbox EXCEPT ![s] = {}]
  /\ UNCHANGED <<fetched, fetches>>
  /\ \/ /\ mailbox[s] = {}
        /\ UNCHANGED <<position, halted, synced>>
     \/ \E p \in mailbox[s] :
          \/ /\ Severe(p, position[s])
             /\ halted' = halted \cup {s}
             /\ UNCHANGED <<position, synced>>
          \/ /\ ~Severe(p, position[s])
             /\ position' = [position EXCEPT ![s] = p]
             /\ synced' = IF p = position[s] THEN synced ELSE synced \cup {s}
             /\ UNCHANGED halted

\* request_cancel of a set of orders: those that are ACTIVE wait for the
\* exchange's confirmation.
RequestCancel(S) ==
  LET active == {o \in S : status[o] = "ACTIVE"}
  IN  /\ status' = [o \in Order |->
                      IF o \in active THEN "PENDING_CANCEL" ELSE status[o]]
      /\ asked' = asked \cup active

\* run_event_step on a safety event: these come before any entry.
StepCancel(s) ==
  /\ ThreadFree
  /\ cancels[s] # <<>>
  /\ cancels' = [cancels EXCEPT ![s] = Tail(@)]
  /\ RequestCancel({Head(cancels[s])})
  /\ DrainMailbox(s)
  /\ UNCHANGED <<filled, stream, entries, governor, book, executed, sent>>

\* run_event_step on a SNIPER_ENTRY: refused in a halt, else submitted.
StepEntry(s) ==
  /\ ThreadFree
  /\ cancels[s] = <<>>
  /\ entries[s] # <<>>
  /\ entries' = [entries EXCEPT ![s] = Tail(@)]
  /\ LET o == Head(entries[s])
     IN  IF s \in halted
         THEN UNCHANGED <<orders, book>>
         ELSE /\ status' = [status EXCEPT ![o] = "ACTIVE"]
              /\ filled' = [filled EXCEPT ![o] = 0]
              /\ book' = [book EXCEPT ![o] = "open"]
  /\ DrainMailbox(s)
  /\ UNCHANGED <<stream, cancels, governor, executed, asked, sent>>

\* run_event_step without an event.
StepIdle(s) ==
  /\ ThreadFree
  /\ cancels[s] = <<>> /\ entries[s] = <<>>
  /\ mailbox[s] # {}
  /\ DrainMailbox(s)
  /\ UNCHANGED <<orders, stream, queue, governor, exchange>>
-----------------------------------------------------------------------------
(* The reconciler's thread                                                 *)

\* The position at the exchange.
Held(s) == IF sent[s] = <<>> THEN 0 ELSE sent[s][Len(sent[s])].pos

Fetch(s) ==
  /\ fetches[s] < MaxFetches
  /\ fetches' = [fetches EXCEPT ![s] = @ + 1]
  /\ fetched' = [fetched EXCEPT ![s] = {Held(s)}]
  /\ UNCHANGED <<orders, position, stream, queue, halted, governor, exchange,
                 mailbox, synced>>

\* put_state_sync, at any moment: a snapshot not taken yet is replaced.
PutStateSync(s) ==
  /\ fetched[s] # {}
  /\ mailbox' = [mailbox EXCEPT ![s] = fetched[s]]
  /\ fetched' = [fetched EXCEPT ![s] = {}]
  /\ UNCHANGED <<orders, position, stream, queue, halted, governor, exchange,
                 fetches, synced>>
-----------------------------------------------------------------------------
(* The governor                                                            *)

Exposure(r) == SumFunctionOnSet(r, Symbol)

\* trigger_global_halt
HaltAll(s) ==
  /\ globalHalt' = "cooling"
  /\ halted' = Symbol
  /\ RequestCancel(Order)

UpdateRisk(s, r) ==
  /\ ThreadFree
  /\ risk' = [risk EXCEPT ![s] = r]
  /\ \/ /\ Exposure(risk') >= RiskLimit
        /\ HaltAll(s)
     \/ /\ Exposure(risk') < RiskLimit
        /\ UNCHANGED <<globalHalt, halted, status, asked>>
  /\ UNCHANGED <<filled, position, stream, queue, book, executed, sent,
                 snapshot>>

CooldownElapses ==
  /\ globalHalt = "cooling"
  /\ globalHalt' = "cooled"
  /\ UNCHANGED <<orders, position, stream, queue, halted, risk, exchange,
                 snapshot>>

\* Mutant: reset forgets the governor's own flag.
ResetActors ==
  /\ ThreadFree
  /\ globalHalt # "cooling"
  /\ risk' = [s \in Symbol |-> 0]
  /\ halted' = {}
  /\ UNCHANGED <<orders, position, stream, queue, exchange, snapshot,
                 globalHalt>>

\* reset: without a global halt there is no cooldown to wait for, and the
\* halts of the reconciler are lifted too.
Reset ==
  /\ ThreadFree
  /\ globalHalt # "cooling"
  /\ globalHalt' = "off"
  /\ risk' = [s \in Symbol |-> 0]
  /\ halted' = {}
  /\ UNCHANGED <<orders, position, stream, queue, exchange, snapshot>>
-----------------------------------------------------------------------------
(* The exchange (external)                                                 *)

Send(o, type, q) ==
  LET s == SymbolOf[o]
      m == [order |-> o, type |-> type, qty |-> q,
            pos |-> Held(s) + Signed(o, q)]
  IN  /\ sent' = [sent EXCEPT ![s] = Append(@, m)]
      /\ transit' = [transit EXCEPT ![s] = @ \cup {Len(sent[s]) + 1}]

ExchangeFills(o, q) ==
  /\ book[o] = "open"
  /\ executed[o] + q <= Qty[o]
  /\ executed' = [executed EXCEPT ![o] = @ + q]
  /\ book' = [book EXCEPT ![o] =
                IF executed[o] + q = Qty[o] THEN "closed" ELSE "open"]
  /\ Send(o, "FILL", q)
  /\ UNCHANGED <<orders, position, next, buffer, queue, halted, governor,
                 asked, snapshot>>

ExchangeCloses(o) ==
  /\ book[o] = "open"
  /\ book' = [book EXCEPT ![o] = "closed"]
  /\ \/ /\ o \in asked
        /\ asked' = asked \ {o}
        /\ Send(o, "CANCEL_CONFIRMED", 0)
     \/ /\ executed[o] = 0
        /\ UNCHANGED asked
        /\ Send(o, "REJECT", 0)
  /\ UNCHANGED <<orders, position, next, buffer, queue, halted, governor,
                 executed, snapshot>>

ExchangeRefusesCancel(o) ==
  /\ book[o] = "closed"
  /\ o \in asked
  /\ asked' = asked \ {o}
  /\ Send(o, "CANCEL_REJECTED", 0)
  /\ UNCHANGED <<orders, position, next, buffer, queue, halted, governor,
                 book, executed, snapshot>>
-----------------------------------------------------------------------------
Actor(s) ==
  \/ Apply(s)
  \/ \E i \in transit[s] : Receive(s, i)
  \/ \E o \in Order : EnqueueEntry(s, o) \/ EnqueueCancel(s, o)
  \/ StepCancel(s) \/ StepEntry(s) \/ StepIdle(s)

Governor ==
  \/ \E s \in Symbol, r \in RiskLevel : UpdateRisk(s, r)
  \/ CooldownElapses
  \/ Reset

Exchange(o) ==
  \/ \E q \in 1..Qty[o] : ExchangeFills(o, q)
  \/ ExchangeCloses(o)
  \/ ExchangeRefusesCancel(o)

Next ==
  \/ \E s \in Symbol : Actor(s) \/ Fetch(s) \/ PutStateSync(s)
  \/ Governor
  \/ \E o \in Order : Exchange(o)

Spec == Init /\ [][Next]_vars

\* The network delivers the oldest message under way, for the last time.
DeliverOldest(s) ==
  \E i \in transit[s] :
    /\ \A j \in transit[s] : i <= j
    /\ Receive(s, i)
    /\ i \notin transit'[s]

Worked == {SymbolOf[o] : o \in Order}

\* The thread finishes its loop, and the network delivers each message in
\* the end.
FairSpec ==
  /\ Spec
  /\ \A s \in Worked : WF_vars(Apply(s)) /\ WF_vars(DeliverOldest(s))
-----------------------------------------------------------------------------
(* Properties                                                              *)

\* However messages are reordered and repeated, the position is the one the
\* exchange had after the last message applied, until a snapshot is adopted.
PositionFollowsMessages ==
  \A s \in Symbol \ synced :
    position[s] = IF next[s] = 1 THEN 0 ELSE sent[s][next[s] - 1].pos

\* No message waits for ever: the actor has applied all that was sent, again
\* and again.
CatchesUp ==
  \A s \in Worked : []<>(next[s] = Len(sent[s]) + 1)

\* An order the actor holds final cannot add to the position, unless a
\* cancel is still on its way to it.
FinalMeansClosing ==
  \A o \in Order :
    status[o] \in {"FILLED", "CANCELLED", "REJECTED"} =>
      book[o] = "closed" \/ o \in asked

\* In a global halt, whatever was queued before or during it, no actor
\* has an ACTIVE order.
NoActiveInGlobalHalt ==
  globalHalt # "off" => \A o \in Order : status[o] # "ACTIVE"

\* The reported exposures are below the limit or everything is halted.
BreachHalts ==
  Exposure(risk) >= RiskLimit =>
    globalHalt # "off" /\ halted = Symbol

\* In a global halt every order that rests at the exchange is being
\* cancelled (what trigger_global_halt says it does).
GlobalHaltCancelsResting ==
  globalHalt # "off" => \A o \in Order : book[o] = "open" => o \in asked

\* An actor that is not halted and has heard everything agrees with the
\* exchange (what reconciliation is for).
CaughtUpAgrees ==
  \A s \in Symbol \ halted :
    /\ next[s] = Len(sent[s]) + 1
    /\ mailbox[s] = {} /\ fetched[s] = {}
    => position[s] = Held(s)
=============================================================================
