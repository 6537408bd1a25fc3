---------------------------- MODULE SyntheticBook ----------------------------
(***************************************************************************)
(* The limit order book of synthetic/lob.py, its agents                     *)
(* (synthetic/agents/), the chaos injector that edits it directly           *)
(* (synthetic/chaos_injector.py) and the venue in front of it               *)
(* (synthetic/venue.py).  Prices and quantities are integers; an order's    *)
(* number is its place in the order of arrival, and its priority timestamp. *)
(***************************************************************************)
EXTENDS Integers, Sequences, FiniteSets, SequencesExt, FiniteSetsExt, Functions

CONSTANTS
    Mid,            \* initial_price
    Sweep,          \* how far aggressive agents go through the book
    Sizes,          \* quantities of orders
    VenueIds,       \* client order ids of the strategy
    MaxOrders       \* bound: orders placed

\* Owners that are not the strategy: the agents, the injector, an exit.
Agents == {"init", "hft", "vwap", "retail", "swarm", "vampire", "chaos", "spoofer", "spoofer_1",
           "exit"}

ASSUME BookAssumption ==
    /\ Mid \in Int /\ Sweep \in Nat /\ MaxOrders \in Nat /\ MaxOrders >= 4
    /\ Sizes \subseteq Nat \ {0} /\ VenueIds \cap Agents = {}

VARIABLES
    bids, asks,     \* resting orders, best first
    lastPrice,      \* current_price
    placed,         \* orders numbered so far
    tape,           \* event_log: trades, by number of maker and taker
    injected,       \* history: the injector has put orders into the book
    venueOrders,    \* orders submitted: id -> [n, size], n = 0 before
    venueOpen,      \* the keys of open_orders
    venueFilled,    \* filled_qty_by_order
    venuePosition   \* open_positions of the asset: [side, size], or None

bookVars == <<bids, asks, lastPrice, placed, tape, injected>>
venueVars == <<venueOrders, venueOpen, venueFilled, venuePosition>>

None == [side |-> "none", size |-> 0]

Order(n, owner, side, price, qty) ==
    [n |-> n, owner |-> owner, side |-> side, price |-> price, qty |-> qty, filled |-> 0]

BookInit ==
    /\ bids = <<Order(1, "init", "buy", Mid - 1, 1), Order(2, "init", "buy", Mid - 2, 2)>>
    /\ asks = <<Order(3, "init", "sell", Mid + 1, 1), Order(4, "init", "sell", Mid + 2, 2)>>
    /\ lastPrice = Mid
    /\ placed = 4
    /\ tape = {}
    /\ injected = FALSE
    /\ venueOrders = [id \in VenueIds |-> [n |-> 0, size |-> 0]]
    /\ venueOpen = {}
    /\ venueFilled = [id \in VenueIds |-> 0]
    /\ venuePosition = None

BestBid == IF bids = <<>> THEN lastPrice - 1 ELSE bids[1].price
BestAsk == IF asks = <<>> THEN lastPrice + 1 ELSE asks[1].price

Crosses(order, maker) ==
    IF order.side = "buy" THEN order.price >= maker.price ELSE order.price <= maker.price

Unfilled(order) == order.qty - order.filled

Volume(trades) == SumFunctionOnSet([t \in trades |-> t.qty], trades)

(* A turn of the matching loop: the best maker trades, if there is one that   *)
(* crosses and something is left of the order.                               *)
Turn(m) ==
    IF m.makers = <<>> \/ Unfilled(m.order) = 0 \/ ~Crosses(m.order, Head(m.makers)) THEN m
    ELSE LET maker == Head(m.makers)
             qty == Min({Unfilled(m.order), Unfilled(maker)})
             trade == [maker |-> maker.n, taker |-> m.order.n, price |-> maker.price, qty |-> qty]
         IN  [order |-> [m.order EXCEPT !.filled = @ + qty],
              makers |-> IF qty = Unfilled(maker) THEN Tail(m.makers)
                         ELSE <<[maker EXCEPT !.filled = @ + qty]>> \o Tail(m.makers),
              price |-> maker.price,
              trades |-> m.trades \cup {trade}]

\* At most n turns.
Match(order, makers, n) ==
    LET turns[i \in 0..n] ==
            IF i = 0 THEN [order |-> order, makers |-> makers, price |-> lastPrice, trades |-> {}]
            ELSE Turn(turns[i - 1])
    IN  turns[n]

\* The sort keys: (-price, priority) of the bids, (price, priority) of the asks.
Ahead(x, y) ==
    \/ IF x.side = "buy" THEN x.price > y.price ELSE x.price < y.price
    \/ x.price = y.price /\ x.n < y.n

Inserted(sorted, o) ==
    InsertAt(sorted, Max({0} \cup {i \in 1..Len(sorted) : Ahead(sorted[i], o)}) + 1, o)

Sorted(side) ==
    LET sorted[i \in 0..Len(side)] ==
            IF i = 0 THEN <<>> ELSE Inserted(sorted[i - 1], side[i])
    IN  sorted[Len(side)]

(* Mutants: the rest of an order joins the back of its side, or forgets what *)
(* it has filled.                                                            *)
RestedLast(own, rest) == Append(own, rest)
RestedAnew(own, rest) == Sorted(Append(own, [rest EXCEPT !.filled = 0]))

Rested(own, rest) == Sorted(Append(own, rest))

(* place_order when the queue slips after n matches, if the order still       *)
(* crosses then: it raises, the rest does not rest, and the caller never sees *)
(* the fills.  Otherwise the rest rests, unless that leaves the book crossed,  *)
(* which raises too.                                                           *)
Execution(own, opposite, order, n) ==
    LET r == Match(order, opposite, n)
        left == Unfilled(r.order) > 0
        slips == left /\ r.makers # <<>> /\ Crosses(order, Head(r.makers))
        rested == Rested(own, r.order)
        rests == left /\ ~slips /\ order.price > 0
        crossed == rests /\ r.makers # <<>> /\ Crosses(rested[1], Head(r.makers))
    IN  [trades |-> r.trades,
         price |-> r.price,
         raised |-> slips \/ crossed,
         own |-> IF rests /\ ~crossed THEN rested ELSE own,
         opposite |-> r.makers]

Opposite(side) == IF side = "buy" THEN asks ELSE bids
Depth(side) == 0 .. Len(Opposite(side))

PlaceOrderIn(bs, as, order, n) ==
    LET buys == order.side = "buy"
        e == Execution(IF buys THEN bs ELSE as, IF buys THEN as ELSE bs, order, n)
    IN  /\ bids' = IF buys THEN e.own ELSE e.opposite
        /\ asks' = IF buys THEN e.opposite ELSE e.own
        /\ tape' = tape \cup e.trades
        /\ lastPrice' = e.price
        /\ placed' = order.n
        /\ UNCHANGED injected

PlaceOrder(order, n) == PlaceOrderIn(bids, asks, order, n)

(* The agents: what decide_action proposes, relative to the best prices.  A  *)
(* market maker quotes around a micro-price between them.                    *)
Proposals ==
    {<<"hft", "buy", p - 1>> : p \in BestBid .. BestAsk}
      \cup {<<"hft", "sell", p + 1>> : p \in BestBid .. BestAsk}
      \cup {<<"vwap", "buy", BestBid>>, <<"retail", "buy", BestAsk + Sweep>>,
            <<"swarm", "sell", BestBid - Sweep>>, <<"vampire", "buy", BestBid + 1>>}

RunAgent(agent, side, price, qty) ==
    /\ placed < MaxOrders
    /\ \E n \in Depth(side) : PlaceOrder(Order(placed + 1, agent, side, price, qty), n)
    /\ UNCHANGED venueVars

Without(side, owner) ==
    LET kept[i \in 0..Len(side)] ==
            IF i = 0 THEN <<>>
            ELSE IF side[i].owner = owner THEN kept[i - 1] ELSE Append(kept[i - 1], side[i])
    IN  kept[Len(side)]

\* The spoofer withdraws its last bid, then places another below the best.
Spoof(qty) ==
    /\ placed < MaxOrders
    /\ LET rest == Without(bids, "spoofer_1")
           best == IF rest = <<>> THEN lastPrice - 1 ELSE rest[1].price
           order == Order(placed + 1, "spoofer_1", "buy", best - 1, qty)
       IN  \E n \in Depth("buy") : PlaceOrderIn(rest, asks, order, n)
    /\ UNCHANGED venueVars

(* The injector edits the book and the price behind the matching engine.     *)
Falling(by) == lastPrice > Mid - Sweep /\ lastPrice' = lastPrice - by
FlashCrash ==
    /\ Falling(1)
    /\ bids' = SubSeq(bids, 1, Min({1, Len(bids)}))
    /\ UNCHANGED <<asks, placed, tape, injected, venueVars>>

LiquidityVacuum ==
    /\ placed + 2 <= MaxOrders
    /\ LET spread == BestAsk - BestBid
       IN  /\ bids' = <<Order(placed + 1, "chaos", "buy", BestBid - spread, 1)>>
           /\ asks' = <<Order(placed + 2, "chaos", "sell", BestAsk + spread, 1)>>
    /\ placed' = placed + 2
    /\ injected' = TRUE
    /\ UNCHANGED <<lastPrice, tape, venueVars>>

GapOpen ==
    /\ lastPrice < Mid + Sweep
    /\ lastPrice' = lastPrice + 1
    /\ UNCHANGED <<bids, asks, placed, tape, injected, venueVars>>

SpoofStage1 ==
    /\ placed < MaxOrders
    /\ bids' = <<Order(placed + 1, "spoofer", "buy", BestBid, 2)>> \o bids
    /\ placed' = placed + 1
    /\ injected' = TRUE
    /\ UNCHANGED <<asks, lastPrice, tape, venueVars>>

\* Only what stage 1 placed: the agent's name is another one.
SpoofStage3 ==
    /\ bids' = Without(bids, "spoofer")
    /\ UNCHANGED <<asks, lastPrice, placed, tape, injected, venueVars>>

SpoofStage4 == Falling(1) /\ UNCHANGED <<bids, asks, placed, tape, injected, venueVars>>

(* The venue: submit_approved_order is entered in open_orders before the book *)
(* is asked, and fills are recorded only when place_order returns.            *)
Submit(id, side, price, qty) ==
    /\ placed < MaxOrders
    /\ venueOrders[id].n = 0
    /\ \E n \in Depth(side) :
          LET order == Order(placed + 1, id, side, price, qty)
              own == IF side = "buy" THEN bids ELSE asks
              e == Execution(own, Opposite(side), order, n)
              taken == IF e.raised THEN 0 ELSE Volume(e.trades)
          IN  /\ PlaceOrder(order, n)
              /\ venueOrders' = [venueOrders EXCEPT ![id] = [n |-> order.n, size |-> qty]]
              /\ venueOpen' = venueOpen \cup {id}
              /\ venueFilled' = [venueFilled EXCEPT ![id] = @ + taken]
              /\ venuePosition' = IF taken > 0 THEN [side |-> side, size |-> taken]
                                  ELSE venuePosition

\* The position is dropped before the book is asked, and reported as closed
\* whatever the book then does; without a position one unit is bought.
SubmitExit ==
    /\ placed < MaxOrders
    /\ LET side == IF venuePosition.side = "buy" THEN "sell" ELSE "buy"
           qty == IF venuePosition = None THEN 1 ELSE venuePosition.size
           price == IF side = "sell" THEN BestBid ELSE BestAsk
       IN  \E n \in Depth(side) : PlaceOrder(Order(placed + 1, "exit", side, price, qty), n)
    /\ venuePosition' = None
    /\ UNCHANGED <<venueOrders, venueOpen, venueFilled>>

Cancel(id) ==
    /\ venueOrders[id].n > 0
    /\ venueOpen' = venueOpen \ {id}
    /\ bids' = Without(bids, id)
    /\ asks' = Without(asks, id)
    /\ UNCHANGED <<lastPrice, placed, tape, injected, venueOrders, venueFilled, venuePosition>>

FetchOrder(id) ==
    IF id \notin venueOpen THEN "unknown"
    ELSE CASE venueFilled[id] = 0 -> "open"
           [] venueFilled[id] \in 1 .. venueOrders[id].size - 1 -> "partially_filled"
           [] OTHER -> "filled"

BookNext ==
    \/ \E p \in Proposals, qty \in Sizes : RunAgent(p[1], p[2], p[3], qty)
    \/ \E qty \in Sizes : Spoof(qty)
    \/ FlashCrash \/ LiquidityVacuum \/ GapOpen \/ SpoofStage1 \/ SpoofStage3 \/ SpoofStage4
    \/ \E id \in VenueIds, side \in {"buy", "sell"}, price \in Mid - 1 .. Mid + 1,
           qty \in Sizes : Submit(id, side, price, qty)
    \/ SubmitExit
    \/ \E id \in VenueIds : Cancel(id)

-----------------------------------------------------------------------------
BookSpec == BookInit /\ [][BookNext]_<<bookVars, venueVars>>

Traded(n) == Volume({t \in tape : n \in {t.maker, t.taker}})

BookTypeOK ==
    /\ placed \in 4 .. MaxOrders
    /\ \A i \in 1 .. Len(bids) : bids[i].side = "buy" /\ Unfilled(bids[i]) > 0
    /\ \A i \in 1 .. Len(asks) : asks[i].side = "sell" /\ Unfilled(asks[i]) > 0
    /\ venueOpen \subseteq VenueIds
    /\ venueFilled \in [VenueIds -> Nat]

\* Unless the injector put an order straight into it, the book is never crossed
\* and each side is in price-time priority, whatever slips in the middle of a
\* sweep, is cancelled, or rests (lob.py:215-219).
BookInOrder ==
    ~injected =>
        /\ bids # <<>> /\ asks # <<>> => bids[1].price < asks[1].price
        /\ \A i \in 1 .. Len(bids) - 1 : Ahead(bids[i], bids[i + 1])
        /\ \A i \in 1 .. Len(asks) - 1 : Ahead(asks[i], asks[i + 1])

\* Nothing is traded twice or forgotten: what a resting order has filled is what
\* the tape says of it; the venue never reports more of an order than was traded,
\* and an order it reports as filled is not left in the book (venue.py:139-161).
FillsAreTraded ==
    /\ \A o \in ToSet(bids) \cup ToSet(asks) : o.filled = Traded(o.n)
    /\ \A id \in VenueIds :
          /\ venueFilled[id] <= Traded(venueOrders[id].n)
          /\ FetchOrder(id) = "filled" => \A o \in ToSet(bids) \cup ToSet(asks) : o.owner # id

\* What the venue reports of an order is all that was traded of it (not so: a
\* slip after a match, and every fill of a resting order, go unreported).
ReportsAllFills == \A id \in venueOpen : venueFilled[id] = Traded(venueOrders[id].n)
=============================================================================
