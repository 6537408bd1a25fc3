-------------------------- MODULE ActorEngine_proofs --------------------------
(* Theorems about ActorEngine: its types, the position that follows the     *)
(* exchange's messages, the global halt, the orders that are final and the  *)
(* exposure that breaches the limit.                                        *)
EXTENDS ActorEngine, FiniteFolds, TLAPS

\* TypeOK is not inductive: what is buffered must have been sent, or the
\* loop of on_exchange_message would apply a message that does not exist.
Numbered ==
  \A s \in Symbol :
    /\ buffer[s] \cup transit[s] \subseteq 1..Len(sent[s])
    /\ next[s] <= Len(sent[s]) + 1

Typed == TypeOK /\ Numbered
-----------------------------------------------------------------------------
(* Types                                                                    *)

LEMMA HeldIsInt ==
  ASSUME StreamTypes, NEW s \in Symbol
  PROVE  Held(s) \in Int
<1>1. sent[s] \in Seq(Message)
  BY DEF StreamTypes
<1>2. sent[s] # <<>> => sent[s][Len(sent[s])] \in Message
  BY <1>1
<1> QED
  BY <1>2 DEF Held, Message

LEMMA SendKeepsTypes ==
  ASSUME StreamTypes, Numbered, NEW o \in Order, NEW q \in Nat,
         NEW type \in {"FILL", "CANCEL_CONFIRMED", "CANCEL_REJECTED", "REJECT"},
         Send(o, type, q), UNCHANGED <<position, buffer, next>>
  PROVE  StreamTypes' /\ Numbered'
<1> DEFINE s == SymbolOf[o]
           m == [order |-> o, type |-> type, qty |-> q,
                 pos |-> Held(s) + Signed(o, q)]
<1>1. s \in Symbol
  BY ActorAssumption
<1>2. Held(s) \in Int /\ Signed(o, q) \in Int
  BY <1>1, HeldIsInt DEF Signed
<1>3. m \in Message
  BY <1>2 DEF Message
<1>4. sent' = [sent EXCEPT ![s] = Append(@, m)]
  BY DEF Send
<1>5. transit' = [transit EXCEPT ![s] = @ \cup {Len(sent[s]) + 1}]
  BY DEF Send
<1>6. Len(sent[s]) \in Nat
  BY <1>1 DEF StreamTypes
<1>7. Len(sent'[s]) = Len(sent[s]) + 1
  BY <1>1, <1>3, <1>4 DEF StreamTypes
<1>8. \A t \in Symbol \ {s} : sent'[t] = sent[t] /\ transit'[t] = transit[t]
  BY <1>4, <1>5 DEF StreamTypes
<1> HIDE DEF s, m
<1>9. sent' \in [Symbol -> Seq(Message)]
  BY <1>1, <1>3, <1>4 DEF StreamTypes
<1>10. transit' \in [Symbol -> SUBSET (Nat \ {0})]
  BY <1>1, <1>5, <1>6 DEF StreamTypes
<1>11. Numbered'
  <2> SUFFICES ASSUME NEW t \in Symbol
               PROVE  /\ buffer[t] \cup transit'[t] \subseteq 1..Len(sent'[t])
                      /\ next[t] <= Len(sent'[t]) + 1
    BY DEF Numbered
  <2>1. CASE t = s
    BY <2>1, <1>1, <1>5, <1>6, <1>7 DEF Numbered, StreamTypes
  <2>2. CASE t # s
    BY <2>2, <1>8 DEF Numbered
  <2> QED
    BY <2>1, <2>2
<1> QED
  BY <1>9, <1>10, <1>11 DEF StreamTypes

LEMMA ExchangeKeepsTypes ==
  ASSUME Typed, NEW o \in Order, Exchange(o)
  PROVE  Typed'
<1> USE ActorAssumption DEF Typed, TypeOK
<1>1. ASSUME NEW q \in 1..Qty[o], ExchangeFills(o, q)
      PROVE  OrderTypes' /\ StreamTypes' /\ Numbered'
  <2>1. q \in Nat /\ Send(o, "FILL", q) /\ UNCHANGED <<position, buffer, next>>
    BY <1>1 DEF ExchangeFills
  <2>2. OrderTypes'
    BY <1>1, <2>1 DEF ExchangeFills, OrderTypes, orders
  <2> QED
    BY <2>1, <2>2, SendKeepsTypes
<1>2. ASSUME ExchangeCloses(o)
      PROVE  OrderTypes' /\ StreamTypes' /\ Numbered'
  <2>1. /\ Send(o, "CANCEL_CONFIRMED", 0) \/ Send(o, "REJECT", 0)
        /\ UNCHANGED <<position, buffer, next>>
    BY <1>2 DEF ExchangeCloses
  <2>2. OrderTypes'
    BY <1>2 DEF ExchangeCloses, OrderTypes, orders
  <2>3. StreamTypes' /\ Numbered'
    BY <2>1, SendKeepsTypes
  <2> QED
    BY <2>2, <2>3, <1>2 DEF ExchangeCloses, ActorTypes, queue, governor, snapshot
<1>3. ASSUME ExchangeRefusesCancel(o)
      PROVE  OrderTypes' /\ StreamTypes' /\ Numbered'
  <2>1. /\ Send(o, "CANCEL_REJECTED", 0)
        /\ UNCHANGED <<position, buffer, next>>
    BY <1>3 DEF ExchangeRefusesCancel
  <2>2. OrderTypes'
    BY <1>3 DEF ExchangeRefusesCancel, OrderTypes, orders
  <2>3. StreamTypes' /\ Numbered'
    BY <2>1, SendKeepsTypes
  <2> QED
    BY <2>2, <2>3
<1>4. ActorTypes'
  <2>1. UNCHANGED <<queue, halted, governor, snapshot>>
    BY DEF Exchange, ExchangeFills, ExchangeCloses, ExchangeRefusesCancel
  <2> QED
    BY <2>1 DEF ActorTypes, queue, governor, snapshot
<1>5. OrderTypes' /\ StreamTypes' /\ Numbered'
  BY <1>1, <1>2, <1>3 DEF Exchange
<1> QED
  BY <1>4, <1>5

LEMMA ApplyKeepsTypes ==
  ASSUME Typed, NEW s \in Symbol, Apply(s)
  PROVE  Typed'
<1> DEFINE m == sent[s][next[s]]
<1>1. next[s] \in 1..Len(sent[s]) /\ sent[s] \in Seq(Message)
  BY DEF Apply, Applying, Typed, Numbered, TypeOK, StreamTypes
<1>2. m \in Message
  BY <1>1
<1>3. ApplyFill(s, m) \/ ApplyStatus(m)
  BY DEF Apply
<1>4. m.order \in Order /\ m.qty \in Nat /\ Signed(m.order, m.qty) \in Int
  BY <1>2 DEF Message, Signed
<1> HIDE DEF m
<1>5. /\ buffer' = [buffer EXCEPT ![s] = @ \ {next[s]}]
      /\ next' = [next EXCEPT ![s] = @ + 1]
      /\ UNCHANGED <<transit, queue, halted, governor, exchange, snapshot>>
  BY DEF Apply
<1>6. OrderTypes'
  BY <1>3, <1>4, <1>5 DEF ApplyFill, ApplyStatus, FillStatus, Status, Typed,
     TypeOK, OrderTypes, exchange
<1>7. StreamTypes'
  BY <1>1, <1>3, <1>4, <1>5 DEF ApplyFill, ApplyStatus, Typed, TypeOK,
     StreamTypes, exchange
<1>8. ActorTypes'
  BY <1>5 DEF Typed, TypeOK, ActorTypes, queue, governor, snapshot
<1>9. Numbered'
  BY <1>1, <1>5 DEF Typed, TypeOK, StreamTypes, Numbered, exchange
<1> QED
  BY <1>6, <1>7, <1>8, <1>9 DEF Typed, TypeOK

LEMMA ReceiveKeepsTypes ==
  ASSUME Typed, NEW s \in Symbol, NEW i \in transit[s], Receive(s, i)
  PROVE  Typed'
<1> USE DEF Receive, Typed, TypeOK
<1>1. OrderTypes'
  BY DEF OrderTypes, orders, exchange
<1>2. i \in 1..Len(sent[s]) /\ i \in Nat \ {0}
  BY DEF StreamTypes, Numbered
<1>3. StreamTypes'
  BY <1>2 DEF StreamTypes, exchange
<1>4. ActorTypes'
  BY DEF ActorTypes, queue, governor, snapshot
<1>5. Numbered'
  BY <1>2 DEF StreamTypes, Numbered, exchange
<1> QED
  BY <1>1, <1>3, <1>4, <1>5

\* What the end of run_event_step leaves, and what it takes from the mailbox.
LEMMA DrainKeepsTypes ==
  ASSUME TypeOK, NEW s \in Symbol, DrainMailbox(s)
  PROVE  /\ mailbox' \in [Symbol -> SUBSET Int]
         /\ position' \in [Symbol -> Int]
         /\ halted' \subseteq Symbol
         /\ synced' \subseteq Symbol
         /\ UNCHANGED <<fetched, fetches>>
<1> USE DEF TypeOK, StreamTypes, ActorTypes
<1>1. CASE UNCHANGED <<position, halted, synced>>
  BY <1>1 DEF DrainMailbox
<1>2. ASSUME NEW p \in mailbox[s],
             \/ halted' = halted \cup {s} /\ UNCHANGED <<position, synced>>
             \/ /\ position' = [position EXCEPT ![s] = p]
                /\ synced' \in {synced, synced \cup {s}}
                /\ UNCHANGED halted
      PROVE  /\ position' \in [Symbol -> Int]
             /\ halted' \subseteq Symbol
             /\ synced' \subseteq Symbol
  <2>1. p \in Int
    OBVIOUS
  <2> QED
    BY <1>2, <2>1
<1>3. mailbox' \in [Symbol -> SUBSET Int] /\ UNCHANGED <<fetched, fetches>>
  BY DEF DrainMailbox
<1> QED
  BY <1>1, <1>2, <1>3 DEF DrainMailbox

LEMMA RequestKeepsTypes ==
  ASSUME OrderTypes, NEW S \in SUBSET Order, RequestCancel(S)
  PROVE  status' \in [Order -> Status] /\ asked' \subseteq Order
BY DEF RequestCancel, OrderTypes, Status

\* The steps of the thread and of the reconciler that leave the messages
\* alone.
Event(s) ==
  \/ \E o \in Order : EnqueueEntry(s, o) \/ EnqueueCancel(s, o)
  \/ StepCancel(s) \/ StepEntry(s) \/ StepIdle(s)
  \/ Fetch(s) \/ PutStateSync(s)

LEMMA EventsKeepTypes ==
  ASSUME Typed, NEW s \in Symbol, Event(s)
  PROVE  Typed'
<1> USE DEF Typed, TypeOK
<1>1. UNCHANGED <<stream, sent>>
  BY DEF Event, EnqueueEntry, EnqueueCancel, StepCancel, StepEntry, StepIdle,
         Fetch, PutStateSync, exchange
<1>2. Numbered'
  BY <1>1 DEF Numbered, stream
<1>3. position' \in [Symbol -> Int] => StreamTypes'
  BY <1>1 DEF StreamTypes, stream
<1>4. ASSUME NEW o \in Order, EnqueueEntry(s, o) \/ EnqueueCancel(s, o)
      PROVE  OrderTypes' /\ StreamTypes' /\ ActorTypes'
  <2>1. UNCHANGED <<orders, position, exchange, halted, governor, snapshot>>
    BY <1>4 DEF EnqueueEntry, EnqueueCancel
  <2>2. /\ cancels' \in [Symbol -> Seq(Order)]
        /\ entries' \in [Symbol -> Seq(Order)]
    <3>1. \/ UNCHANGED cancels /\ entries' = [entries EXCEPT ![s] = Append(@, o)]
          \/ UNCHANGED entries /\ cancels' = [cancels EXCEPT ![s] = Append(@, o)]
      <4>1. CASE EnqueueEntry(s, o)
        BY <4>1, Zenon DEF EnqueueEntry
      <4>2. CASE EnqueueCancel(s, o)
        BY <4>2, Zenon DEF EnqueueCancel
      <4> QED
        BY <1>4, <4>1, <4>2
    <3>2. cancels[s] \in Seq(Order) /\ entries[s] \in Seq(Order)
      BY DEF ActorTypes
    <3>3. Append(cancels[s], o) \in Seq(Order) /\ Append(entries[s], o) \in Seq(Order)
      BY <3>2
    <3> QED
      BY <3>1, <3>3 DEF ActorTypes
  <2>3. OrderTypes'
    BY <2>1 DEF OrderTypes, orders, exchange
  <2>4. StreamTypes'
    BY <1>3, <2>1 DEF StreamTypes
  <2>5. ActorTypes'
    BY <2>1, <2>2 DEF ActorTypes, governor, snapshot
  <2> QED
    BY <2>3, <2>4, <2>5
<1>5. CASE StepCancel(s)
  <2>1. cancels[s] \in Seq(Order) /\ cancels[s] # <<>>
    BY <1>5 DEF StepCancel, ActorTypes
  <2>2. Head(cancels[s]) \in Order /\ Tail(cancels[s]) \in Seq(Order)
    BY <2>1
  <2>3. RequestCancel({Head(cancels[s])}) /\ DrainMailbox(s)
    BY <1>5 DEF StepCancel
  <2>4. OrderTypes'
    BY <1>5, <2>2, <2>3, RequestKeepsTypes DEF StepCancel, OrderTypes
  <2>5. cancels' \in [Symbol -> Seq(Order)]
    BY <1>5, <2>2 DEF StepCancel, ActorTypes
  <2>6. StreamTypes' /\ ActorTypes'
    BY <1>3, <1>5, <2>3, <2>5, DrainKeepsTypes
       DEF StepCancel, ActorTypes, governor
  <2> QED
    BY <1>2, <2>4, <2>6
<1>6. CASE StepEntry(s)
  <2>1. entries[s] \in Seq(Order) /\ entries[s] # <<>>
    BY <1>6 DEF StepEntry, ActorTypes
  <2>2. Head(entries[s]) \in Order /\ Tail(entries[s]) \in Seq(Order)
    BY <2>1
  <2>3. OrderTypes'
    <3> DEFINE o == Head(entries[s])
    <3>1. \/ UNCHANGED <<orders, book>>
          \/ /\ status' = [status EXCEPT ![o] = "ACTIVE"]
             /\ filled' = [filled EXCEPT ![o] = 0]
             /\ book' = [book EXCEPT ![o] = "open"]
      BY <1>6 DEF StepEntry
    <3>2. o \in Order /\ UNCHANGED <<executed, asked>>
      BY <1>6, <2>2 DEF StepEntry
    <3> HIDE DEF o
    <3> QED
      BY <3>1, <3>2 DEF OrderTypes, orders, Status
  <2>4. entries' \in [Symbol -> Seq(Order)] /\ DrainMailbox(s)
    BY <1>6, <2>2 DEF StepEntry, ActorTypes
  <2>5. StreamTypes' /\ ActorTypes'
    BY <1>3, <1>6, <2>4, DrainKeepsTypes DEF StepEntry, ActorTypes, governor
  <2> QED
    BY <1>2, <2>3, <2>5
<1>7. CASE StepIdle(s)
  <2>1. DrainMailbox(s) /\ UNCHANGED <<orders, queue, governor, exchange>>
    BY <1>7 DEF StepIdle
  <2>2. OrderTypes'
    BY <2>1 DEF OrderTypes, orders, exchange
  <2>3. StreamTypes' /\ ActorTypes'
    BY <1>3, <2>1, DrainKeepsTypes DEF ActorTypes, queue, governor
  <2> QED
    BY <1>2, <2>2, <2>3
<1>8. CASE Fetch(s) \/ PutStateSync(s)
  <2>1. UNCHANGED <<orders, position, queue, halted, governor, exchange, synced>>
    BY <1>8 DEF Fetch, PutStateSync
  <2>2. Held(s) \in Int
    BY HeldIsInt
  <2>3. /\ mailbox' \in [Symbol -> SUBSET Int]
        /\ fetched' \in [Symbol -> SUBSET Int]
        /\ fetches' \in [Symbol -> 0..MaxFetches]
    <3>1. CASE Fetch(s)
      BY <2>2, <3>1, ActorAssumption DEF Fetch, ActorTypes
    <3>2. CASE PutStateSync(s)
      BY <3>2 DEF PutStateSync, ActorTypes
    <3> QED
      BY <1>8, <3>1, <3>2
  <2>4. OrderTypes'
    BY <2>1 DEF OrderTypes, orders, exchange
  <2>5. StreamTypes'
    BY <1>3, <2>1 DEF StreamTypes
  <2>6. ActorTypes'
    BY <2>1, <2>3 DEF ActorTypes, queue, governor
  <2> QED
    BY <1>2, <2>4, <2>5, <2>6
<1> QED
  BY <1>2, <1>4, <1>5, <1>6, <1>7, <1>8 DEF Event

LEMMA GovernorKeepsTypes ==
  ASSUME Typed, Governor
  PROVE  Typed'
<1> USE DEF Typed, TypeOK
<1>1. UNCHANGED <<position, stream, sent, queue, snapshot, filled, book, executed>>
  BY DEF Governor, UpdateRisk, CooldownElapses, Reset, exchange, orders
<1>2. Numbered' /\ StreamTypes'
  BY <1>1 DEF Numbered, StreamTypes, stream
<1>3. ASSUME /\ status' \in [Order -> Status] /\ asked' \subseteq Order
             /\ halted' \subseteq Symbol
             /\ risk' \in [Symbol -> Nat]
             /\ globalHalt' \in {"off", "cooling", "cooled"}
      PROVE  OrderTypes' /\ ActorTypes'
  <2>1. OrderTypes'
    BY <1>1, <1>3 DEF OrderTypes
  <2>2. ActorTypes'
    BY <1>1, <1>3 DEF ActorTypes, queue, snapshot
  <2> QED
    BY <2>1, <2>2
<1>4. ASSUME NEW s \in Symbol, NEW r \in RiskLevel, UpdateRisk(s, r)
      PROVE  OrderTypes' /\ ActorTypes'
  <2>1. risk' \in [Symbol -> Nat]
    BY <1>4, ActorAssumption DEF UpdateRisk, ActorTypes
  <2>2. CASE HaltAll(s)
    <3>1. RequestCancel(Order) /\ halted' = Symbol /\ globalHalt' = "cooling"
      BY <2>2 DEF HaltAll
    <3> QED
      BY <3>1, <2>1, <1>3, RequestKeepsTypes
  <2>3. CASE UNCHANGED <<globalHalt, halted, status, asked>>
    BY <2>1, <2>3, <1>3 DEF OrderTypes, ActorTypes
  <2> QED
    BY <1>4, <2>2, <2>3 DEF UpdateRisk
<1>5. ASSUME CooldownElapses
      PROVE  OrderTypes' /\ ActorTypes'
  BY <1>3, <1>5 DEF CooldownElapses, OrderTypes, ActorTypes, orders, exchange
<1>6. ASSUME Reset
      PROVE  OrderTypes' /\ ActorTypes'
  BY <1>3, <1>6 DEF Reset, OrderTypes, ActorTypes, orders, exchange
<1>7. OrderTypes' /\ ActorTypes'
  BY <1>4, <1>5, <1>6 DEF Governor
<1> QED
  BY <1>2, <1>7

\* What steps there are, for the lemmas above.
LEMMA NextCases ==
  ASSUME Next
  PROVE  \/ \E s \in Symbol : Apply(s) \/ Event(s)
         \/ \E s \in Symbol : \E i \in transit[s] : Receive(s, i)
         \/ Governor
         \/ \E o \in Order : Exchange(o)
BY DEF Next, Actor, Event

LEMMA StaysTyped == Spec => []Typed
<1>1. Init => Typed
  <2> SUFFICES ASSUME Init PROVE Typed
    OBVIOUS
  <2>1. OrderTypes
    BY DEF Init, OrderTypes, Status
  <2>2. StreamTypes
    BY DEF Init, StreamTypes
  <2>3. ActorTypes
    BY ActorAssumption DEF Init, ActorTypes
  <2>4. \A s \in Symbol : Len(sent[s]) = 0
    BY DEF Init
  <2>5. Numbered
    BY <2>4 DEF Init, Numbered
  <2> QED
    BY <2>1, <2>2, <2>3, <2>5 DEF Typed, TypeOK
<1>2. Typed /\ [Next]_vars => Typed'
  <2> SUFFICES ASSUME Typed, [Next]_vars
               PROVE  Typed'
    OBVIOUS
  <2>1. CASE UNCHANGED vars
    <3>1. OrderTypes' /\ StreamTypes'
      BY <2>1 DEF vars, Typed, TypeOK, OrderTypes, StreamTypes, orders,
         stream, exchange
    <3>2. ActorTypes'
      BY <2>1 DEF vars, Typed, TypeOK, ActorTypes, queue, governor, snapshot
    <3>3. Numbered'
      BY <2>1 DEF vars, Typed, Numbered, stream, exchange
    <3> QED
      BY <3>1, <3>2, <3>3 DEF Typed, TypeOK
  <2>2. CASE Next
    BY <2>2, NextCases, ApplyKeepsTypes, ReceiveKeepsTypes, EventsKeepTypes,
       GovernorKeepsTypes, ExchangeKeepsTypes
  <2> QED
    BY <2>1, <2>2
<1> QED
  BY <1>1, <1>2, PTL DEF Spec

\* The engine, the governor and the messages stay in their types.
THEOREM TypeCorrect == Spec => []TypeOK
BY StaysTyped, PTL DEF Typed
-----------------------------------------------------------------------------
(* The position                                                             *)

\* The exchange's position after a message is the one before it and what the
\* message fills.
Chained ==
  \A s \in Symbol : \A i \in 1..Len(sent[s]) :
    /\ sent[s][i].pos = (IF i = 1 THEN 0 ELSE sent[s][i - 1].pos)
                          + Signed(sent[s][i].order, sent[s][i].qty)
    /\ sent[s][i].type # "FILL" => sent[s][i].qty = 0

\* A message joins the end of its symbol's stream, and no other.
LEMMA SendAppends ==
  ASSUME Typed, NEW o \in Order, NEW q \in Nat,
         NEW type \in {"FILL", "CANCEL_CONFIRMED", "CANCEL_REJECTED", "REJECT"},
         Send(o, type, q)
  PROVE  LET s == SymbolOf[o]
             m == [order |-> o, type |-> type, qty |-> q,
                   pos |-> Held(s) + Signed(o, q)]
         IN  /\ m \in Message
             /\ sent'[s] = Append(sent[s], m)
             /\ \A t \in Symbol \ {s} : sent'[t] = sent[t]
<1> DEFINE s == SymbolOf[o]
           m == [order |-> o, type |-> type, qty |-> q,
                 pos |-> Held(s) + Signed(o, q)]
<1> USE DEF Typed, TypeOK, StreamTypes
<1>1. s \in Symbol
  BY ActorAssumption
<1>2. Held(s) \in Int /\ Signed(o, q) \in Int
  BY <1>1, HeldIsInt DEF Signed
<1>3. m \in Message
  BY <1>2 DEF Message
<1>4. sent' = [sent EXCEPT ![s] = Append(@, m)]
  BY DEF Send
<1> HIDE DEF m
<1> QED
  BY <1>1, <1>3, <1>4 DEF m

LEMMA SendKeepsChained ==
  ASSUME Typed, Chained, NEW o \in Order, NEW q \in Nat,
         NEW type \in {"FILL", "CANCEL_CONFIRMED", "CANCEL_REJECTED", "REJECT"},
         type # "FILL" => q = 0,
         Send(o, type, q)
  PROVE  /\ Chained'
         /\ \A s \in Symbol : \A i \in 1..Len(sent[s]) : sent'[s][i] = sent[s][i]
<1> DEFINE s == SymbolOf[o]
           m == [order |-> o, type |-> type, qty |-> q,
                 pos |-> Held(s) + Signed(o, q)]
<1> USE DEF Typed, TypeOK, StreamTypes
<1>1. s \in Symbol
  BY ActorAssumption
<1>2. Held(s) \in Int /\ Signed(o, q) \in Int
  BY <1>1, HeldIsInt DEF Signed
<1>3. m \in Message
  BY <1>2 DEF Message
<1>4. sent' = [sent EXCEPT ![s] = Append(@, m)]
  BY DEF Send
<1>5. sent[s] \in Seq(Message) /\ Len(sent[s]) \in Nat
  BY <1>1
<1>6. \A t \in Symbol \ {s} : sent'[t] = sent[t]
  BY <1>4
<1>7. sent'[s] = Append(sent[s], m)
  BY <1>1, <1>4
<1>8. /\ m.pos = (IF Len(sent[s]) = 0 THEN 0 ELSE sent[s][Len(sent[s])].pos)
                   + Signed(m.order, m.qty)
      /\ m.type # "FILL" => m.qty = 0
  BY <1>5 DEF Held
<1> HIDE DEF s, m
<1>9. /\ Len(sent'[s]) = Len(sent[s]) + 1
      /\ \A i \in 1..Len(sent[s]) : sent'[s][i] = sent[s][i]
      /\ sent'[s][Len(sent[s]) + 1] = m
  BY <1>3, <1>5, <1>7
<1>10. \A t \in Symbol : \A i \in 1..Len(sent[t]) : sent'[t][i] = sent[t][i]
  BY <1>6, <1>9
<1>11. Chained'
  <2> SUFFICES ASSUME NEW t \in Symbol, NEW i \in 1..Len(sent'[t])
               PROVE  /\ sent'[t][i].pos =
                           (IF i = 1 THEN 0 ELSE sent'[t][i - 1].pos)
                             + Signed(sent'[t][i].order, sent'[t][i].qty)
                      /\ sent'[t][i].type # "FILL" => sent'[t][i].qty = 0
    BY DEF Chained, Signed
  <2>1. CASE t # s
    BY <2>1, <1>6 DEF Chained
  <2>2. CASE t = s /\ i \in 1..Len(sent[s])
    <3>1. sent'[s][i] = sent[s][i] /\ (i # 1 => sent'[s][i - 1] = sent[s][i - 1])
      <4>1. i # 1 => i - 1 \in 1..Len(sent[s])
        BY <2>2, <1>5
      <4> QED
        BY <2>2, <4>1, <1>9
    <3> QED
      BY <2>2, <3>1, <1>1 DEF Chained
  <2>3. CASE t = s /\ i = Len(sent[s]) + 1
    <3>1. sent'[t][i] = m
      BY <2>3, <1>9
    <3>2. i # 1 => sent'[t][i - 1] = sent[s][Len(sent[s])]
      BY <2>3, <1>5, <1>9
    <3>3. i = 1 <=> Len(sent[s]) = 0
      BY <2>3, <1>5
    <3> QED
      BY <3>1, <3>2, <3>3, <1>8
  <2> QED
    BY <2>1, <2>2, <2>3, <1>5, <1>9
<1> QED
  BY <1>10, <1>11

PositionInv == Chained /\ PositionFollowsMessages

LEMMA ExchangeKeepsPosition ==
  ASSUME Typed, PositionInv, NEW o \in Order, Exchange(o)
  PROVE  PositionInv'
<1>1. /\ Chained'
      /\ \A s \in Symbol : \A i \in 1..Len(sent[s]) : sent'[s][i] = sent[s][i]
  <2>1. ASSUME NEW q \in 1..Qty[o], ExchangeFills(o, q)
        PROVE  q \in Nat /\ Send(o, "FILL", q)
    BY <2>1, ActorAssumption DEF ExchangeFills
  <2>2. ASSUME ExchangeCloses(o) \/ ExchangeRefusesCancel(o)
        PROVE  \/ Send(o, "CANCEL_CONFIRMED", 0) \/ Send(o, "REJECT", 0)
               \/ Send(o, "CANCEL_REJECTED", 0)
    BY <2>2 DEF ExchangeCloses, ExchangeRefusesCancel
  <2>3. \E type \in {"FILL", "CANCEL_CONFIRMED", "CANCEL_REJECTED", "REJECT"},
           q \in Nat : (type # "FILL" => q = 0) /\ Send(o, type, q)
    BY <2>1, <2>2 DEF Exchange
  <2> QED
    BY <2>3, SendKeepsChained DEF PositionInv
<1>2. UNCHANGED <<position, next, synced>>
  BY DEF Exchange, ExchangeFills, ExchangeCloses, ExchangeRefusesCancel, snapshot
<1>3. \A s \in Symbol : next[s] # 1 => next[s] - 1 \in 1..Len(sent[s])
  BY DEF Typed, TypeOK, StreamTypes, Numbered
<1>4. PositionFollowsMessages'
  BY <1>1, <1>2, <1>3 DEF PositionInv, PositionFollowsMessages
<1> QED
  BY <1>1, <1>4 DEF PositionInv

LEMMA ApplyKeepsPosition ==
  ASSUME Typed, PositionInv, NEW s \in Symbol, Apply(s)
  PROVE  PositionInv'
<1> DEFINE m == sent[s][next[s]]
<1>1. next[s] \in 1..Len(sent[s]) /\ sent[s] \in Seq(Message)
  BY DEF Apply, Applying, Typed, Numbered, TypeOK, StreamTypes
<1>2. m \in Message
  BY <1>1
<1>3. /\ m.pos = (IF next[s] = 1 THEN 0 ELSE sent[s][next[s] - 1].pos)
                   + Signed(m.order, m.qty)
      /\ m.type # "FILL" => m.qty = 0
  BY <1>1 DEF PositionInv, Chained
<1>4. /\ next' = [next EXCEPT ![s] = @ + 1]
      /\ UNCHANGED <<sent, synced>>
      /\ IF m.type = "FILL" THEN ApplyFill(s, m) ELSE ApplyStatus(m)
  BY DEF Apply, exchange, snapshot
<1>5. Signed(m.order, m.qty) \in Int /\ (m.qty = 0 => Signed(m.order, m.qty) = 0)
  BY <1>2 DEF Signed, Message
<1> HIDE DEF m
<1>6. position' = [position EXCEPT ![s] = @ + Signed(m.order, m.qty)]
  <2>1. CASE m.type = "FILL"
    BY <2>1, <1>4 DEF ApplyFill
  <2>2. CASE m.type # "FILL"
    BY <2>2, <1>3, <1>4, <1>5 DEF ApplyStatus, Typed, TypeOK, StreamTypes
  <2> QED
    BY <2>1, <2>2
<1>7. Chained'
  BY <1>4 DEF PositionInv, Chained, Signed
<1>8. PositionFollowsMessages'
  <2> SUFFICES ASSUME NEW t \in Symbol \ synced
               PROVE  position'[t] =
                        IF next'[t] = 1 THEN 0 ELSE sent[t][next'[t] - 1].pos
    BY <1>4 DEF PositionFollowsMessages
  <2>1. CASE t # s
    BY <2>1, <1>4, <1>6 DEF PositionInv, PositionFollowsMessages, Typed, TypeOK,
       StreamTypes
  <2>2. CASE t = s
    <3>1. next'[s] = next[s] + 1 /\ next[s] \in Nat \ {0}
      BY <1>4 DEF Typed, TypeOK, StreamTypes
    <3>2. position'[s] = position[s] + Signed(m.order, m.qty)
      BY <1>6 DEF Typed, TypeOK, StreamTypes
    <3>3. position'[s] = m.pos
      BY <2>2, <3>2, <1>3 DEF PositionInv, PositionFollowsMessages
    <3> QED
      BY <2>2, <3>1, <3>3 DEF m
  <2> QED
    BY <2>1, <2>2
<1> QED
  BY <1>7, <1>8 DEF PositionInv

\* A position that moves otherwise is an adopted snapshot.
LEMMA QuietKeepsPosition ==
  ASSUME PositionInv, UNCHANGED <<next, sent>>, synced \subseteq synced',
         \A s \in Symbol \ synced' : position'[s] = position[s]
  PROVE  PositionInv'
BY DEF PositionInv, Chained, PositionFollowsMessages, Signed

LEMMA EventsKeepPosition ==
  ASSUME Typed, PositionInv, NEW s \in Symbol, Event(s)
  PROVE  PositionInv'
<1>1. UNCHANGED <<next, sent>>
  BY DEF Event, EnqueueEntry, EnqueueCancel, StepCancel, StepEntry, StepIdle,
         Fetch, PutStateSync, exchange, stream
<1>2. ASSUME DrainMailbox(s)
      PROVE  /\ synced \subseteq synced'
             /\ \A t \in Symbol \ synced' : position'[t] = position[t]
  <2>1. CASE UNCHANGED <<position, synced>>
    BY <2>1
  <2>2. ASSUME NEW p \in mailbox[s],
               position' = [position EXCEPT ![s] = p],
               synced' = IF p = position[s] THEN synced ELSE synced \cup {s}
        PROVE  /\ synced \subseteq synced'
               /\ \A t \in Symbol \ synced' : position'[t] = position[t]
    BY <2>2 DEF Typed, TypeOK, StreamTypes
  <2> QED
    BY <1>2, <2>1, <2>2 DEF DrainMailbox
<1>3. DrainMailbox(s) \/ UNCHANGED <<position, synced>>
  BY DEF Event, EnqueueEntry, EnqueueCancel, StepCancel, StepEntry, StepIdle,
         Fetch, PutStateSync, snapshot
<1> QED
  BY <1>1, <1>2, <1>3, QuietKeepsPosition

LEMMA PositionHolds == Spec => []PositionInv
<1>1. Init => PositionInv
  <2> SUFFICES ASSUME Init PROVE PositionInv
    OBVIOUS
  <2>1. \A s \in Symbol : Len(sent[s]) = 0 /\ position[s] = 0 /\ next[s] = 1
    BY DEF Init
  <2> QED
    BY <2>1 DEF PositionInv, Chained, PositionFollowsMessages
<1>2. Typed /\ PositionInv /\ [Next]_vars => PositionInv'
  <2> SUFFICES ASSUME Typed, PositionInv, [Next]_vars
               PROVE  PositionInv'
    OBVIOUS
  <2>1. CASE UNCHANGED vars
    BY <2>1, QuietKeepsPosition DEF vars, stream, exchange, snapshot
  <2>2. ASSUME NEW s \in Symbol, NEW i \in transit[s], Receive(s, i)
        PROVE  PositionInv'
    BY <2>2, QuietKeepsPosition DEF Receive, exchange, snapshot
  <2>3. CASE Governor
    <3>1. UNCHANGED <<next, sent, synced, position>>
      BY <2>3 DEF Governor, UpdateRisk, CooldownElapses, Reset, stream,
         exchange, snapshot
    <3> QED
      BY <3>1, QuietKeepsPosition
  <2>4. CASE Next
    BY <2>2, <2>3, <2>4, NextCases, ApplyKeepsPosition, EventsKeepPosition,
       ExchangeKeepsPosition
  <2> QED
    BY <2>1, <2>4
<1> QED
  BY <1>1, <1>2, StaysTyped, PTL DEF Spec

\* However the exchange's messages are reordered, repeated and delayed,
\* the position is the one the exchange had after the last one applied.
THEOREM PositionIsTheStreams == Spec => []PositionFollowsMessages
BY PositionHolds, PTL DEF PositionInv
-----------------------------------------------------------------------------
(* The global halt                                                          *)

\* Until reset, a global halt keeps every actor halted: that is why an entry
\* queued before it, and taken from the queue during it, is refused.
HaltInv ==
  globalHalt # "off" => halted = Symbol /\ \A o \in Order : status[o] # "ACTIVE"

LEMMA RequestLeavesNoneActive ==
  ASSUME OrderTypes, NEW S \in SUBSET Order, RequestCancel(S)
  PROVE  /\ \A o \in S : status'[o] # "ACTIVE"
         /\ \A o \in Order : status'[o] = "ACTIVE" => status[o] = "ACTIVE"
BY DEF RequestCancel, OrderTypes

LEMMA EventsKeepHalt ==
  ASSUME Typed, HaltInv, NEW s \in Symbol, Event(s)
  PROVE  HaltInv'
<1> SUFFICES ASSUME globalHalt # "off"
             PROVE  halted' = Symbol /\ \A o \in Order : status'[o] # "ACTIVE"
  <2>1. UNCHANGED globalHalt
    BY DEF Event, EnqueueEntry, EnqueueCancel, StepCancel, StepEntry, StepIdle,
           Fetch, PutStateSync, governor
  <2> QED
    BY <2>1 DEF HaltInv
<1>1. halted = Symbol /\ \A o \in Order : status[o] # "ACTIVE"
  BY DEF HaltInv
<1>2. halted' = Symbol
  <2>1. UNCHANGED halted \/ DrainMailbox(s)
    BY DEF Event, EnqueueEntry, EnqueueCancel, StepCancel, StepEntry, StepIdle,
           Fetch, PutStateSync
  <2>2. UNCHANGED halted \/ halted' = halted \cup {s}
    BY <2>1 DEF DrainMailbox
  <2> QED
    BY <1>1, <2>2
<1>3. ASSUME StepCancel(s)
      PROVE  \A o \in Order : status'[o] # "ACTIVE"
  <2>1. cancels[s] \in Seq(Order) /\ cancels[s] # <<>>
    BY <1>3 DEF StepCancel, Typed, TypeOK, ActorTypes
  <2>2. Head(cancels[s]) \in Order
    BY <2>1
  <2>3. RequestCancel({Head(cancels[s])})
    BY <1>3 DEF StepCancel
  <2> QED
    BY <1>1, <2>2, <2>3, RequestLeavesNoneActive DEF Typed, TypeOK
<1>4. ASSUME ~StepCancel(s)
      PROVE  UNCHANGED status
  BY <1>1, <1>4 DEF Event, EnqueueEntry, EnqueueCancel, StepEntry, StepIdle,
     Fetch, PutStateSync, orders
<1> QED
  BY <1>1, <1>2, <1>3, <1>4

LEMMA OthersKeepHalt ==
  ASSUME Typed, HaltInv, UNCHANGED <<globalHalt, halted>>,
         \A o \in Order : status'[o] = "ACTIVE" => status[o] = "ACTIVE"
  PROVE  HaltInv'
BY DEF HaltInv

\* During a global halt no actor works an ACTIVE order, whatever was queued
\* before it and whatever the exchange or the reconciler sends.
THEOREM HaltStopsOrders == Spec => []NoActiveInGlobalHalt
<1>1. Init => HaltInv
  BY DEF Init, HaltInv
<1>2. Typed /\ HaltInv /\ [Next]_vars => HaltInv'
  <2> SUFFICES ASSUME Typed, HaltInv, [Next]_vars
               PROVE  HaltInv'
    OBVIOUS
  <2>1. CASE UNCHANGED vars
    BY <2>1, OthersKeepHalt DEF vars, governor, orders
  <2>2. ASSUME NEW s \in Symbol, NEW i \in transit[s], Receive(s, i)
        PROVE  HaltInv'
    BY <2>2, OthersKeepHalt DEF Receive, governor, orders
  <2>3. ASSUME NEW s \in Symbol, Apply(s)
        PROVE  HaltInv'
    <3> DEFINE m == sent[s][next[s]]
    <3>1. ApplyFill(s, m) \/ ApplyStatus(m)
      BY <2>3 DEF Apply
    <3>2. UNCHANGED <<globalHalt, halted>>
      BY <2>3 DEF Apply, governor
    <3> HIDE DEF m
    <3>3. \A o \in Order : status'[o] = "ACTIVE" => status[o] = "ACTIVE"
      BY <3>1 DEF ApplyFill, ApplyStatus, FillStatus, Typed, TypeOK, OrderTypes
    <3> QED
      BY <3>2, <3>3, OthersKeepHalt
  <2>4. CASE Governor
    <3>1. ASSUME NEW s \in Symbol, NEW r \in RiskLevel, UpdateRisk(s, r)
          PROVE  HaltInv'
      <4>1. CASE HaltAll(s)
        <5>1. halted' = Symbol /\ RequestCancel(Order)
          BY <4>1 DEF HaltAll
        <5> QED
          BY <5>1, RequestLeavesNoneActive DEF HaltInv, Typed, TypeOK
      <4>2. CASE UNCHANGED <<globalHalt, halted, status, asked>>
        BY <4>2, OthersKeepHalt
      <4> QED
        BY <3>1, <4>1, <4>2 DEF UpdateRisk
    <3>2. CASE CooldownElapses
      BY <3>2 DEF CooldownElapses, HaltInv, orders
    <3>3. CASE Reset
      BY <3>3 DEF Reset, HaltInv
    <3> QED
      BY <2>4, <3>1, <3>2, <3>3 DEF Governor
  <2>5. ASSUME NEW o \in Order, Exchange(o)
        PROVE  HaltInv'
    BY <2>5, OthersKeepHalt DEF Exchange, ExchangeFills, ExchangeCloses,
       ExchangeRefusesCancel, governor, orders
  <2>6. CASE Next
    BY <2>2, <2>3, <2>4, <2>5, <2>6, NextCases, EventsKeepHalt
  <2> QED
    BY <2>1, <2>6
<1>3. HaltInv => NoActiveInGlobalHalt
  BY DEF HaltInv, NoActiveInGlobalHalt
<1> QED
  BY <1>1, <1>2, <1>3, StaysTyped, PTL DEF Spec
-----------------------------------------------------------------------------
(* What the actor holds final                                               *)

\* An order waits for its entry once, and has no status before it.
Entered ==
  \A s \in Symbol :
    /\ \A i \in 1..Len(entries[s]) :
         status[entries[s][i]] = "none" /\ SymbolOf[entries[s][i]] = s
    /\ \A i, j \in 1..Len(entries[s]) : i # j => entries[s][i] # entries[s][j]

\* The exchange reports on orders it was given, and their end once they ended.
Reported ==
  \A s \in Symbol : \A i \in 1..Len(sent[s]) :
    /\ SymbolOf[sent[s][i].order] = s
    /\ book[sent[s][i].order] # "none"
    /\ sent[s][i].type \in {"CANCEL_CONFIRMED", "REJECT"} =>
         book[sent[s][i].order] = "closed"

\* An order asked to be cancelled, or final.
Ending == {"PENDING_CANCEL", "FILLED", "CANCELLED", "REJECTED"}

AtExchange ==
  \A o \in Order :
    /\ status[o] = "none" => book[o] = "none"
    /\ book[o] = "none" => executed[o] = 0
    /\ book[o] = "open" => executed[o] < Qty[o]
    /\ executed[o] <= Qty[o]
    /\ status[o] \in Ending => book[o] = "closed" \/ o \in asked

\* What a message fills of order o.
Part(o, m) == IF m.order = o THEN m.qty ELSE 0

\* c[o][i] is what the first i messages of o's symbol fill of it: all of them
\* make what the exchange executed, those applied what the actor holds filled.
\* A witness stands for the recursion, which the provers cannot unfold.
Counts(c) ==
  \A o \in Order :
    /\ c[o] \in [Nat -> Nat]
    /\ c[o][0] = 0
    /\ \A i \in 1..Len(sent[SymbolOf[o]]) :
         c[o][i] = c[o][i - 1] + Part(o, sent[SymbolOf[o]][i])
    /\ \A i \in 0..Len(sent[SymbolOf[o]]) : c[o][i] <= executed[o]
    /\ c[o][Len(sent[SymbolOf[o]])] = executed[o]
    /\ c[o][next[SymbolOf[o]] - 1] = filled[o]

Counted == \E c : Counts(c)

FinalInv == Entered /\ Reported /\ AtExchange /\ Counted

LEMMA SendReports ==
  ASSUME Typed, Reported, NEW o \in Order, NEW q \in Nat,
         NEW type \in {"FILL", "CANCEL_CONFIRMED", "CANCEL_REJECTED", "REJECT"},
         Send(o, type, q), book'[o] # "none",
         type \in {"CANCEL_CONFIRMED", "REJECT"} => book'[o] = "closed",
         \A p \in Order : /\ book[p] # "none" => book'[p] # "none"
                          /\ book[p] = "closed" => book'[p] = "closed"
  PROVE  Reported'
<1> DEFINE s == SymbolOf[o]
           m == [order |-> o, type |-> type, qty |-> q,
                 pos |-> Held(s) + Signed(o, q)]
<1>1. s \in Symbol
  BY ActorAssumption
<1>2. /\ m \in Message
      /\ sent'[s] = Append(sent[s], m)
      /\ \A t \in Symbol \ {s} : sent'[t] = sent[t]
  BY <1>1, SendAppends
<1>3. sent[s] \in Seq(Message) /\ Len(sent[s]) \in Nat
  BY <1>1 DEF Typed, TypeOK, StreamTypes
<1>4. m.order = o /\ m.type = type
  OBVIOUS
<1> HIDE DEF m
<1>5. /\ Len(sent'[s]) = Len(sent[s]) + 1
      /\ \A i \in 1..Len(sent[s]) : sent'[s][i] = sent[s][i]
      /\ sent'[s][Len(sent[s]) + 1] = m
  BY <1>2, <1>3, AppendProperties
<1> SUFFICES ASSUME NEW t \in Symbol, NEW i \in 1..Len(sent'[t])
             PROVE  /\ SymbolOf[sent'[t][i].order] = t
                    /\ book'[sent'[t][i].order] # "none"
                    /\ sent'[t][i].type \in {"CANCEL_CONFIRMED", "REJECT"} =>
                         book'[sent'[t][i].order] = "closed"
  BY DEF Reported
<1>6. CASE sent'[t][i] = m /\ t = s
  BY <1>4, <1>6
<1>7. CASE i \in 1..Len(sent[t]) /\ sent'[t][i] = sent[t][i]
  <2>1. sent[t][i].order \in Order
    <3>1. sent[t] \in Seq(Message)
      BY DEF Typed, TypeOK, StreamTypes
    <3>2. sent[t][i] \in Message
      BY <1>7, <3>1, ElementOfSeq
    <3> QED
      BY <3>2 DEF Message
  <2> QED
    BY <1>7, <2>1 DEF Reported
<1> QED
  <2>1. CASE t # s
    BY <1>2, <1>7, <2>1
  <2>2. CASE t = s
    <3>1. i \in 1..Len(sent[s]) \/ i = Len(sent[s]) + 1
      BY <1>3, <1>5, <2>2
    <3> QED
      BY <1>5, <1>6, <1>7, <2>2, <3>1
  <2> QED
    BY <2>1, <2>2

LEMMA CountExtends ==
  ASSUME NEW f \in [Nat -> Nat], NEW n \in Nat, NEW v \in Nat
  PROVE  /\ [f EXCEPT ![n + 1] = v] \in [Nat -> Nat]
         /\ [f EXCEPT ![n + 1] = v][n + 1] = v
         /\ \A i \in 0..n : [f EXCEPT ![n + 1] = v][i] = f[i]
<1>1. n + 1 \in Nat /\ \A i \in 0..n : i \in Nat /\ i # n + 1
  OBVIOUS
<1> QED
  BY <1>1

LEMMA SendCounts ==
  ASSUME Typed, Counted, NEW o \in Order, NEW q \in Nat,
         NEW type \in {"FILL", "CANCEL_CONFIRMED", "CANCEL_REJECTED", "REJECT"},
         Send(o, type, q), executed' = [executed EXCEPT ![o] = @ + q],
         UNCHANGED <<next, filled>>
  PROVE  Counted'
<1> DEFINE s == SymbolOf[o]
           m == [order |-> o, type |-> type, qty |-> q,
                 pos |-> Held(s) + Signed(o, q)]
           n == Len(sent[s])
<1>1. s \in Symbol
  BY ActorAssumption
<1>2. /\ m \in Message
      /\ sent'[s] = Append(sent[s], m)
      /\ \A t \in Symbol \ {s} : sent'[t] = sent[t]
  BY <1>1, SendAppends
<1>3. sent[s] \in Seq(Message) /\ n \in Nat
  BY <1>1 DEF Typed, TypeOK, StreamTypes
<1>4. m.order = o /\ m.qty = q
  OBVIOUS
<1> HIDE DEF m
<1>5. /\ Len(sent'[s]) = n + 1
      /\ \A i \in 1..n : sent'[s][i] = sent[s][i]
      /\ sent'[s][n + 1] = m
  BY <1>2, <1>3, AppendProperties
<1>6. PICK c : Counts(c)
  BY DEF Counted
<1> DEFINE d == [p \in Order |->
                   IF SymbolOf[p] = s
                   THEN [c[p] EXCEPT ![n + 1] = c[p][n] + Part(p, m)]
                   ELSE c[p]]
<1>7. ASSUME NEW p \in Order
      PROVE  /\ d[p] \in [Nat -> Nat]
             /\ d[p][0] = 0
             /\ \A i \in 1..Len(sent'[SymbolOf[p]]) :
                  d[p][i] = d[p][i - 1] + Part(p, sent'[SymbolOf[p]][i])
             /\ \A i \in 0..Len(sent'[SymbolOf[p]]) : d[p][i] <= executed'[p]
             /\ d[p][Len(sent'[SymbolOf[p]])] = executed'[p]
             /\ d[p][next'[SymbolOf[p]] - 1] = filled'[p]
  <2> DEFINE r == SymbolOf[p]
             k == Part(p, m)
  <2>1. /\ c[p] \in [Nat -> Nat]
        /\ c[p][0] = 0
        /\ \A i \in 1..Len(sent[r]) : c[p][i] = c[p][i - 1] + Part(p, sent[r][i])
        /\ \A i \in 0..Len(sent[r]) : c[p][i] <= executed[p]
        /\ c[p][Len(sent[r])] = executed[p]
        /\ c[p][next[r] - 1] = filled[p]
    BY <1>6 DEF Counts
  <2>2. r \in Symbol
    BY ActorAssumption
  <2>3. k = (IF p = o THEN q ELSE 0) /\ k \in Nat
    BY <1>4 DEF Part
  <2>4. executed'[p] = executed[p] + k /\ executed[p] \in Nat
    BY <2>3 DEF Typed, TypeOK, OrderTypes
  <2>5. next[r] \in Nat \ {0} /\ next[r] <= Len(sent[r]) + 1
    BY <2>2 DEF Typed, TypeOK, StreamTypes, Numbered
  <2>6. CASE r # s
    <3>1. d[p] = c[p] /\ sent'[r] = sent[r]
      BY <1>2, <2>2, <2>6
    <3>2. executed'[p] = executed[p]
      BY <2>3, <2>4, <2>6
    <3>3. next'[r] = next[r] /\ filled'[p] = filled[p]
      OBVIOUS
    <3> HIDE DEF d
    <3> QED
      BY <2>1, <3>1, <3>2, <3>3
  <2>7. CASE r = s
    <3>1. d[p] = [c[p] EXCEPT ![n + 1] = c[p][n] + k]
      BY <2>7
    <3> HIDE DEF d, k, n
    <3>2. /\ d[p] \in [Nat -> Nat]
          /\ d[p][n + 1] = c[p][n] + k
          /\ \A i \in 0..n : d[p][i] = c[p][i]
      <4>1. c[p] \in [Nat -> Nat]
        BY <2>1
      <4>2. n \in Nat /\ k \in Nat
        BY <1>3, <2>3
      <4>3. c[p][n] + k \in Nat
        BY <4>1, <4>2
      <4> QED
        BY <3>1, <4>1, <4>2, <4>3, CountExtends
    <3>3. d[p][0] = 0
      <4>1. 0 \in 0..n
        BY <1>3
      <4> QED
        BY <2>1, <3>2, <4>1
    <3>4. \A i \in 1..n : d[p][i] = d[p][i - 1] + Part(p, sent'[s][i])
      <4>1. ASSUME NEW i \in 1..n
            PROVE  d[p][i] = d[p][i - 1] + Part(p, sent'[s][i])
        <5>1. i \in 0..n /\ i - 1 \in 0..n
          BY <1>3
        <5>2. d[p][i] = c[p][i] /\ d[p][i - 1] = c[p][i - 1] /\ sent'[s][i] = sent[s][i]
          BY <1>5, <3>2, <5>1
        <5>3. c[p][i] = c[p][i - 1] + Part(p, sent[s][i])
          BY <2>1, <2>7 DEF n
        <5> QED
          BY <5>2, <5>3
      <4> QED
        BY <4>1
    <3>5. d[p][n + 1] = d[p][n] + Part(p, sent'[s][n + 1])
      <4>1. n \in 0..n
        BY <1>3
      <4> QED
        BY <1>5, <3>2, <4>1 DEF k
    <3>6. c[p][n] = executed[p] /\ \A i \in 0..n : c[p][i] <= executed[p]
      BY <2>1, <2>7 DEF n
    <3>7. \A i \in 1..n + 1 : d[p][i] = d[p][i - 1] + Part(p, sent'[s][i])
      <4>1. ASSUME NEW i \in 1..n + 1
            PROVE  d[p][i] = d[p][i - 1] + Part(p, sent'[s][i])
        <5>1. i \in 1..n \/ (i = n + 1 /\ i - 1 = n)
          BY <1>3
        <5> QED
          BY <3>4, <3>5, <5>1
      <4> QED
        BY <4>1
    <3>8. d[p][n + 1] = executed'[p]
      BY <2>4, <3>2, <3>6
    <3>9. \A i \in 0..n + 1 : d[p][i] <= executed'[p]
      <4>1. \A i \in 0..n : c[p][i] \in Nat
        BY <2>1
      <4>2. \A i \in 0..n : d[p][i] <= executed'[p]
        BY <2>3, <2>4, <3>2, <3>6, <4>1
      <4> QED
        BY <1>3, <2>3, <2>4, <3>8, <4>2
    <3>10. d[p][next[r] - 1] = filled[p]
      <4>1. next[r] - 1 \in 0..n
        BY <1>3, <2>5, <2>7 DEF n
      <4> QED
        BY <2>1, <3>2, <4>1
    <3> QED
      BY <1>5, <2>7, <3>2, <3>3, <3>7, <3>8, <3>9, <3>10
  <2> QED
    BY <2>6, <2>7
<1>8. PICK e : e = d
  OBVIOUS
<1> HIDE DEF d
<1>9. Counts(e)'
  BY <1>7, <1>8 DEF Counts, Part
<1> QED
  BY <1>9 DEF Counted

LEMMA EntryIsOrder ==
  ASSUME Typed, NEW s \in Symbol
  PROVE  /\ entries[s] \in Seq(Order) /\ Len(entries[s]) \in Nat
         /\ \A i \in 1..Len(entries[s]) : entries[s][i] \in Order
<1>1. entries[s] \in Seq(Order)
  BY DEF Typed, TypeOK, ActorTypes
<1> QED
  BY <1>1, LenProperties, ElementOfSeq

LEMMA QuietKeepsFinal ==
  ASSUME FinalInv,
         UNCHANGED <<status, filled, next, entries, sent, book, executed, asked>>
  PROVE  FinalInv'
<1>1. Entered' /\ Reported' /\ AtExchange'
  BY DEF FinalInv, Entered, Reported, AtExchange
<1>2. PICK c : Counts(c)
  BY DEF FinalInv, Counted
<1>3. Counts(c)'
  BY <1>2 DEF Counts, Part
<1> QED
  BY <1>1, <1>3 DEF FinalInv, Counted

\* The exchange's side does not move: what the order ends is all there is to show.
LEMMA StatusKeepsFinal ==
  ASSUME Typed, FinalInv, UNCHANGED <<filled, next, sent, book, executed>>,
         entries' = entries, asked \subseteq asked',
         \A o \in Order :
           \/ status'[o] = status[o]
           \/ status[o] # "none" /\ status'[o] # "none"
              /\ (status'[o] \in Ending => book[o] = "closed" \/ o \in asked')
  PROVE  FinalInv'
<1>1. Entered'
  <2>1. ASSUME NEW s \in Symbol, NEW i \in 1..Len(entries[s])
        PROVE  status'[entries[s][i]] = "none" /\ SymbolOf[entries[s][i]] = s
    <3>1. entries[s][i] \in Order
      BY EntryIsOrder
    <3>2. status[entries[s][i]] = "none" /\ SymbolOf[entries[s][i]] = s
      BY DEF FinalInv, Entered
    <3> QED
      BY <3>1, <3>2
  <2>2. \A s \in Symbol : \A i, j \in 1..Len(entries[s]) :
          i # j => entries[s][i] # entries[s][j]
    BY DEF FinalInv, Entered
  <2> QED
    BY <2>1, <2>2 DEF Entered
<1>2. Reported'
  BY DEF FinalInv, Reported
<1>3. AtExchange'
  <2>1. ASSUME NEW o \in Order
        PROVE  /\ status'[o] = "none" => book[o] = "none"
               /\ book[o] = "none" => executed[o] = 0
               /\ book[o] = "open" => executed[o] < Qty[o]
               /\ executed[o] <= Qty[o]
               /\ status'[o] \in Ending => book[o] = "closed" \/ o \in asked'
    BY DEF FinalInv, AtExchange
  <2> QED
    BY <2>1 DEF AtExchange
<1>4. PICK c : Counts(c)
  BY DEF FinalInv, Counted
<1>5. Counts(c)'
  BY <1>4 DEF Counts, Part
<1> QED
  BY <1>1, <1>2, <1>3, <1>5 DEF FinalInv, Counted

LEMMA RequestKeepsFinal ==
  ASSUME Typed, FinalInv, NEW S \in SUBSET Order, RequestCancel(S),
         UNCHANGED <<filled, next, sent, book, executed, entries>>
  PROVE  FinalInv'
<1>1. asked \subseteq asked'
  BY DEF RequestCancel
<1>2. ASSUME NEW o \in Order
      PROVE  \/ status'[o] = status[o]
             \/ status[o] # "none" /\ status'[o] # "none"
                /\ (status'[o] \in Ending => book[o] = "closed" \/ o \in asked')
  <2>1. CASE o \in S /\ status[o] = "ACTIVE"
    BY <2>1 DEF RequestCancel
  <2>2. CASE ~(o \in S /\ status[o] = "ACTIVE")
    BY <2>2 DEF RequestCancel
  <2> QED
    BY <2>1, <2>2
<1> QED
  BY <1>1, <1>2, StatusKeepsFinal

LEMMA ExchangeKeepsFinal ==
  ASSUME Typed, FinalInv, NEW o \in Order, Exchange(o)
  PROVE  FinalInv'
<1>1. UNCHANGED <<status, filled, next, entries>>
  BY DEF Exchange, ExchangeFills, ExchangeCloses, ExchangeRefusesCancel, orders,
         queue
<1>2. Entered'
  BY <1>1 DEF FinalInv, Entered
<1>3. /\ Entered /\ Reported /\ AtExchange /\ Counted
      /\ status[o] = "none" => book[o] = "none"
      /\ executed \in [Order -> Nat] /\ book \in [Order -> {"none", "open", "closed"}]
      /\ Qty[o] \in Nat /\ executed[o] \in Nat
  BY ActorAssumption DEF FinalInv, AtExchange, Typed, TypeOK, OrderTypes
<1>4. ASSUME NEW q \in 1..Qty[o], ExchangeFills(o, q)
      PROVE  Reported' /\ AtExchange' /\ Counted'
  <2>1. /\ q \in Nat /\ book[o] = "open" /\ executed[o] + q <= Qty[o]
        /\ executed' = [executed EXCEPT ![o] = @ + q]
        /\ book' = [book EXCEPT ![o] =
                      IF executed[o] + q = Qty[o] THEN "closed" ELSE "open"]
        /\ Send(o, "FILL", q) /\ asked' = asked
    BY <1>4 DEF ExchangeFills
  <2>2. /\ executed'[o] = executed[o] + q
        /\ book'[o] = IF executed[o] + q = Qty[o] THEN "closed" ELSE "open"
        /\ \A p \in Order \ {o} : executed'[p] = executed[p] /\ book'[p] = book[p]
    BY <1>3, <2>1
  <2>3. Reported'
    <3>1. /\ book'[o] # "none"
          /\ \A p \in Order : /\ book[p] # "none" => book'[p] # "none"
                              /\ book[p] = "closed" => book'[p] = "closed"
      BY <2>1, <2>2
    <3> QED
      BY <1>3, <2>1, <3>1, SendReports
  <2>4. Counted'
    BY <1>1, <1>3, <2>1, SendCounts
  <2>5. AtExchange'
    <3>1. ASSUME NEW p \in Order
          PROVE  /\ status[p] = "none" => book'[p] = "none"
                 /\ book'[p] = "none" => executed'[p] = 0
                 /\ book'[p] = "open" => executed'[p] < Qty[p]
                 /\ executed'[p] <= Qty[p]
                 /\ status[p] \in Ending => book'[p] = "closed" \/ p \in asked
      <4>1. CASE p = o
        BY <1>3, <2>1, <2>2, <4>1 DEF AtExchange
      <4>2. CASE p # o
        BY <1>3, <2>2, <4>2 DEF AtExchange
      <4> QED
        BY <4>1, <4>2
    <3> QED
      BY <1>1, <2>1, <3>1 DEF AtExchange
  <2> QED
    BY <2>3, <2>4, <2>5
<1>5. ASSUME ExchangeCloses(o) \/ ExchangeRefusesCancel(o)
      PROVE  Reported' /\ AtExchange' /\ Counted'
  <2>1. /\ book[o] # "none" /\ book' = [book EXCEPT ![o] = "closed"]
        /\ executed' = executed /\ asked \ {o} \subseteq asked'
    BY <1>3, <1>5 DEF ExchangeCloses, ExchangeRefusesCancel
  <2>2. PICK type \in {"CANCEL_CONFIRMED", "REJECT", "CANCEL_REJECTED"} :
               Send(o, type, 0)
    BY <1>5 DEF ExchangeCloses, ExchangeRefusesCancel
  <2>3. book'[o] = "closed" /\ \A p \in Order \ {o} : book'[p] = book[p]
    BY <1>3, <2>1
  <2>4. Reported'
    <3>1. /\ book'[o] # "none"
          /\ \A p \in Order : /\ book[p] # "none" => book'[p] # "none"
                              /\ book[p] = "closed" => book'[p] = "closed"
      BY <2>3
    <3> QED
      BY <1>3, <2>2, <2>3, <3>1, SendReports
  <2>5. Counted'
    <3>1. executed' = [executed EXCEPT ![o] = @ + 0]
      BY <1>3, <2>1
    <3> QED
      BY <1>1, <1>3, <2>2, <3>1, SendCounts
  <2>6. AtExchange'
    <3>1. ASSUME NEW p \in Order
          PROVE  /\ status[p] = "none" => book'[p] = "none"
                 /\ book'[p] = "none" => executed[p] = 0
                 /\ book'[p] = "open" => executed[p] < Qty[p]
                 /\ executed[p] <= Qty[p]
                 /\ status[p] \in Ending => book'[p] = "closed" \/ p \in asked'
      <4>1. CASE p = o
        BY <1>3, <2>1, <2>3, <4>1 DEF AtExchange
      <4>2. CASE p # o
        BY <1>3, <2>1, <2>3, <4>2 DEF AtExchange
      <4> QED
        BY <4>1, <4>2
    <3> QED
      BY <1>1, <2>1, <3>1 DEF AtExchange
  <2> QED
    BY <2>4, <2>5, <2>6
<1> QED
  BY <1>2, <1>4, <1>5 DEF Exchange, FinalInv

\* A step that sends and executes nothing keeps the counts, if what it applied
\* is what the orders hold filled.
LEMMA CountsCarry ==
  ASSUME NEW c, Counts(c), UNCHANGED <<sent, executed>>,
         \A p \in Order : c[p][next'[SymbolOf[p]] - 1] = filled'[p]
  PROVE  Counts(c)'
<1>1. ASSUME NEW p \in Order
      PROVE  /\ c[p] \in [Nat -> Nat]
             /\ c[p][0] = 0
             /\ \A i \in 1..Len(sent'[SymbolOf[p]]) :
                  c[p][i] = c[p][i - 1] + Part(p, sent'[SymbolOf[p]][i])
             /\ \A i \in 0..Len(sent'[SymbolOf[p]]) : c[p][i] <= executed'[p]
             /\ c[p][Len(sent'[SymbolOf[p]])] = executed'[p]
             /\ c[p][next'[SymbolOf[p]] - 1] = filled'[p]
  <2>1. /\ c[p] \in [Nat -> Nat]
        /\ c[p][0] = 0
        /\ \A i \in 1..Len(sent[SymbolOf[p]]) :
             c[p][i] = c[p][i - 1] + Part(p, sent[SymbolOf[p]][i])
        /\ \A i \in 0..Len(sent[SymbolOf[p]]) : c[p][i] <= executed[p]
        /\ c[p][Len(sent[SymbolOf[p]])] = executed[p]
    BY Zenon DEF Counts
  <2>2. sent' = sent /\ executed' = executed
    OBVIOUS
  <2>3. c[p][next'[SymbolOf[p]] - 1] = filled'[p]
    OBVIOUS
  <2> QED
    BY <2>1, <2>2, <2>3, Zenon
<1> QED
  BY <1>1, Zenon DEF Counts, Part

\* A fill that completes an order is the last one: nothing is left to execute.
LEMMA ApplyKeepsFinal ==
  ASSUME Typed, Chained, FinalInv, NEW s \in Symbol, Apply(s)
  PROVE  FinalInv'
<1> DEFINE m == sent[s][next[s]]
           o == m.order
           n == next[s]
<1>1. n \in 1..Len(sent[s]) /\ sent[s] \in Seq(Message) /\ n \in Nat \ {0}
  BY DEF Apply, Applying, Typed, Numbered, TypeOK, StreamTypes
<1>2. m \in Message /\ o \in Order /\ m.qty \in Nat
  <2>1. m \in Message
    BY <1>1, ElementOfSeq
  <2> QED
    BY <2>1 DEF Message
<1>3. m.type # "FILL" => m.qty = 0
  BY <1>1 DEF Chained
<1>4. /\ next' = [next EXCEPT ![s] = n + 1]
      /\ UNCHANGED <<sent, book, executed, asked, entries>>
      /\ IF m.type = "FILL" THEN ApplyFill(s, m) ELSE ApplyStatus(m)
  BY DEF Apply, exchange, queue
<1>5. /\ SymbolOf[o] = s /\ book[o] # "none"
      /\ m.type \in {"CANCEL_CONFIRMED", "REJECT"} => book[o] = "closed"
  BY <1>1 DEF FinalInv, Reported
<1>6. /\ status \in [Order -> Status] /\ filled \in [Order -> Nat]
      /\ next \in [Symbol -> Nat \ {0}] /\ executed[o] \in Nat /\ Qty[o] \in Nat \ {0}
  BY <1>2, ActorAssumption DEF Typed, TypeOK, OrderTypes, StreamTypes
<1>7. /\ book[o] \in {"none", "open", "closed"}
      /\ status[o] = "none" => book[o] = "none"
      /\ book[o] = "open" => executed[o] < Qty[o]
      /\ status[o] \in Ending => book[o] = "closed" \/ o \in asked
  BY <1>2 DEF FinalInv, AtExchange, Typed, TypeOK, OrderTypes
<1>8. PICK c : Counts(c)
  BY DEF FinalInv, Counted
<1>9. /\ c[o] \in [Nat -> Nat] /\ c[o][n - 1] = filled[o]
      /\ c[o][n] = c[o][n - 1] + m.qty
      /\ c[o][n] <= executed[o]
  <2>1. n \in 0..Len(sent[s])
    BY <1>1
  <2>2. c[o][n] = c[o][n - 1] + Part(o, m) /\ c[o][n] <= executed[o]
    <3>1. /\ \A i \in 1..Len(sent[s]) : c[o][i] = c[o][i - 1] + Part(o, sent[s][i])
          /\ \A i \in 0..Len(sent[s]) : c[o][i] <= executed[o]
      <4> HIDE DEF o
      <4> QED
        BY <1>2, <1>5, <1>8 DEF Counts
    <3>2. c[o][n] = c[o][n - 1] + Part(o, sent[s][n]) /\ c[o][n] <= executed[o]
      <4> HIDE DEF o, n
      <4> QED
        BY <1>1, <2>1, <3>1
    <3> QED
      BY <3>2
  <2>3. Part(o, m) = m.qty
    BY DEF Part
  <2> QED
    BY <1>2, <1>5, <1>8, <2>2, <2>3 DEF Counts
<1>10. filled' = [filled EXCEPT ![o] = @ + m.qty]
  <2>1. CASE m.type = "FILL"
    BY <1>4, <2>1 DEF ApplyFill
  <2>2. CASE m.type # "FILL"
    BY <1>2, <1>3, <1>4, <1>6, <2>2 DEF ApplyStatus
  <2> QED
    BY <2>1, <2>2
<1>11. /\ \A p \in Order \ {o} : status'[p] = status[p]
       /\ \/ status'[o] = status[o]
          \/ status'[o] = FillStatus(o, m.qty)
          \/ m.type \in {"CANCEL_CONFIRMED", "REJECT"} /\ status'[o] \in {"CANCELLED", "REJECTED"}
  <2>1. CASE m.type = "FILL"
    <3>1. status' = [status EXCEPT ![o] = FillStatus(o, m.qty)]
      BY <1>4, <2>1 DEF ApplyFill
    <3> QED
      BY <1>2, <1>6, <3>1
  <2>2. CASE m.type # "FILL"
    BY <1>2, <1>4, <1>6, <2>2 DEF ApplyStatus
  <2> QED
    BY <2>1, <2>2
<1> HIDE DEF m, o, n
<1>12. status'[o] # "none" /\ (status'[o] \in Ending => book[o] = "closed" \/ o \in asked)
  <2>1. status[o] # "none"
    BY <1>5, <1>7
  <2>2. CASE status'[o] = status[o]
    BY <1>7, <2>1, <2>2
  <2>3. CASE status'[o] = FillStatus(o, m.qty)
    <3>1. CASE status[o] = "PENDING_CANCEL"
      BY <1>7, <2>3, <3>1 DEF FillStatus, Ending
    <3>2. CASE filled[o] + m.qty >= Qty[o]
      <4>1. executed[o] >= Qty[o]
        BY <1>2, <1>6, <1>9, <3>2
      <4>2. book[o] = "closed"
        BY <1>5, <1>6, <1>7, <4>1
      <4> QED
        BY <2>3, <4>2 DEF FillStatus
    <3>3. CASE status[o] # "PENDING_CANCEL" /\ ~(filled[o] + m.qty >= Qty[o])
      BY <2>3, <3>3 DEF FillStatus, Ending
    <3> QED
      BY <3>1, <3>2, <3>3
  <2>4. CASE m.type \in {"CANCEL_CONFIRMED", "REJECT"} /\ status'[o] \in {"CANCELLED", "REJECTED"}
    BY <1>5, <2>4
  <2> QED
    BY <1>11, <2>2, <2>3, <2>4
<1>13. Entered'
  <2>1. ASSUME NEW t \in Symbol, NEW i \in 1..Len(entries[t])
        PROVE  status'[entries[t][i]] = "none" /\ SymbolOf[entries[t][i]] = t
    <3>1. /\ status[entries[t][i]] = "none" /\ SymbolOf[entries[t][i]] = t
          /\ entries[t][i] \in Order
      BY EntryIsOrder DEF FinalInv, Entered
    <3>2. entries[t][i] # o
      BY <1>5, <1>7, <3>1
    <3> QED
      BY <1>11, <3>1, <3>2
  <2>2. \A t \in Symbol : \A i, j \in 1..Len(entries[t]) :
          i # j => entries[t][i] # entries[t][j]
    BY DEF FinalInv, Entered
  <2> QED
    BY <1>4, <2>1, <2>2 DEF Entered
<1>14. Reported'
  BY <1>4 DEF FinalInv, Reported
<1>15. AtExchange'
  <2>1. ASSUME NEW p \in Order
        PROVE  /\ status'[p] = "none" => book[p] = "none"
               /\ book[p] = "none" => executed[p] = 0
               /\ book[p] = "open" => executed[p] < Qty[p]
               /\ executed[p] <= Qty[p]
               /\ status'[p] \in Ending => book[p] = "closed" \/ p \in asked
    <3>1. CASE p = o
      BY <1>12, <3>1 DEF FinalInv, AtExchange
    <3>2. CASE p # o
      BY <1>11, <3>2 DEF FinalInv, AtExchange
    <3> QED
      BY <3>1, <3>2
  <2> QED
    BY <1>4, <2>1 DEF AtExchange
<1>16. ASSUME NEW p \in Order
       PROVE  c[p][next'[SymbolOf[p]] - 1] = filled'[p]
  <2>1. SymbolOf[p] \in Symbol /\ c[p][next[SymbolOf[p]] - 1] = filled[p]
    BY <1>8, ActorAssumption DEF Counts
  <2>2. CASE p = o
    <3>1. next'[s] = n + 1 /\ n + 1 - 1 = n
      BY <1>1, <1>4, <1>6
    <3>2. filled'[o] = filled[o] + m.qty
      BY <1>2, <1>6, <1>10
    <3>3. next'[SymbolOf[p]] - 1 = n
      BY <1>1, <1>5, <2>2, <3>1
    <3> QED
      BY <1>9, <2>2, <3>2, <3>3
  <2>3. CASE p # o /\ SymbolOf[p] = s
    <3>1. next'[s] = n + 1 /\ n + 1 - 1 = n
      BY <1>1, <1>4, <1>6
    <3>2. filled'[p] = filled[p]
      BY <1>6, <1>10, <2>3
    <3>3. c[p][n] = c[p][n - 1] + Part(p, m) /\ c[p][n - 1] \in Nat
      <4>1. n - 1 \in Nat /\ c[p] \in [Nat -> Nat]
        <5>1. c[p] \in [Nat -> Nat]
          BY <1>8, Zenon DEF Counts
        <5>2. n \in Nat \ {0}
          BY <1>1, Zenon
        <5>3. n - 1 \in Nat
          BY <5>2
        <5> QED
          BY <5>1, <5>3, Zenon
      <4>2. \A i \in 1..Len(sent[s]) : c[p][i] = c[p][i - 1] + Part(p, sent[s][i])
        <5>1. \A i \in 1..Len(sent[SymbolOf[p]]) :
                c[p][i] = c[p][i - 1] + Part(p, sent[SymbolOf[p]][i])
          BY <1>8, Zenon DEF Counts
        <5> QED
          BY <2>3, <5>1, Zenon
      <4>3. c[p][n] = c[p][n - 1] + Part(p, sent[s][n])
        BY <1>1, <4>2
      <4> QED
        BY <4>1, <4>3 DEF m, n
    <3>4. Part(p, m) = 0
      BY <2>3 DEF Part, o
    <3>5. c[p][n - 1] = filled[p]
      BY <2>1, <2>3 DEF n
    <3>6. c[p][n] = filled[p]
      BY <3>3, <3>4, <3>5
    <3>7. next'[SymbolOf[p]] - 1 = n
      BY <1>1, <2>3, <3>1
    <3> QED
      BY <3>2, <3>6, <3>7
  <2>4. CASE SymbolOf[p] # s
    <3>1. next'[SymbolOf[p]] = next[SymbolOf[p]]
      BY <1>4, <1>6, <2>1, <2>4
    <3>2. filled'[p] = filled[p]
      BY <1>5, <1>6, <1>10, <2>4
    <3> QED
      BY <2>1, <3>1, <3>2
  <2> QED
    BY <2>2, <2>3, <2>4
<1>17. Counts(c)'
  BY <1>4, <1>8, <1>16, CountsCarry
<1> QED
  BY <1>13, <1>14, <1>15, <1>17 DEF FinalInv, Counted

\* An order that enters has executed nothing, so its fills start where they are.
LEMMA EntryKeepsFinal ==
  ASSUME Typed, FinalInv, NEW s \in Symbol, StepEntry(s)
  PROVE  FinalInv'
<1> DEFINE o == Head(entries[s])
           w == entries[s]
<1>1. w \in Seq(Order) /\ w # <<>> /\ Len(w) \in Nat
  BY EntryIsOrder DEF StepEntry
<1>2. /\ Len(w) \in Nat \ {0} /\ o = w[1] /\ 1 \in 1..Len(w)
      /\ Len(Tail(w)) = Len(w) - 1
      /\ \A i \in 1..Len(Tail(w)) : Tail(w)[i] = w[i + 1]
  <2>1. Len(w) # 0
    BY <1>1, EmptySeq
  <2> QED
    BY <1>1, <2>1, HeadTailProperties
<1>3. o \in Order /\ status[o] = "none" /\ SymbolOf[o] = s
  <2>1. w[1] \in Order /\ status[w[1]] = "none" /\ SymbolOf[w[1]] = s
    BY <1>2, EntryIsOrder DEF FinalInv, Entered
  <2> QED
    BY <1>2, <2>1
<1>4. book[o] = "none" /\ executed[o] = 0 /\ Qty[o] \in Nat \ {0}
  BY <1>3, ActorAssumption DEF FinalInv, AtExchange
<1>5. /\ entries' = [entries EXCEPT ![s] = Tail(w)]
      /\ UNCHANGED <<next, sent, executed, asked>>
      /\ \/ UNCHANGED <<status, filled, book>>
         \/ /\ status' = [status EXCEPT ![o] = "ACTIVE"]
            /\ filled' = [filled EXCEPT ![o] = 0]
            /\ book' = [book EXCEPT ![o] = "open"]
  BY DEF StepEntry, orders, stream
<1>6. /\ status \in [Order -> Status] /\ filled \in [Order -> Nat]
      /\ book \in [Order -> {"none", "open", "closed"}]
      /\ entries \in [Symbol -> Seq(Order)]
  BY DEF Typed, TypeOK, OrderTypes, ActorTypes
<1>7. /\ entries'[s] = Tail(w)
      /\ \A t \in Symbol \ {s} : entries'[t] = entries[t]
  BY <1>5, <1>6
<1>8. PICK c : Counts(c)
  BY DEF FinalInv, Counted
<1>9. filled[o] = 0
  <2>1. next[s] - 1 \in 0..Len(sent[s])
    BY DEF Typed, TypeOK, StreamTypes, Numbered
  <2>2. c[o] \in [Nat -> Nat] /\ c[o][next[s] - 1] = filled[o]
        /\ \A i \in 0..Len(sent[s]) : c[o][i] <= executed[o]
    BY <1>3, <1>8 DEF Counts
  <2> HIDE DEF o
  <2>3. filled[o] <= 0
    BY <1>4, <2>1, <2>2
  <2> QED
    BY <1>3, <1>6, <2>3
<1> HIDE DEF o, w
<1>10. /\ filled' = filled
       /\ \A p \in Order \ {o} : status'[p] = status[p] /\ book'[p] = book[p]
       /\ \/ status'[o] = status[o] /\ book'[o] = book[o]
          \/ status'[o] = "ACTIVE" /\ book'[o] = "open"
  BY <1>3, <1>5, <1>6, <1>9
<1>11. Entered'
  <2>1. ASSUME NEW t \in Symbol, NEW i \in 1..Len(entries'[t])
        PROVE  /\ status'[entries'[t][i]] = "none" /\ SymbolOf[entries'[t][i]] = t
               /\ \A j \in 1..Len(entries'[t]) : i # j => entries'[t][i] # entries'[t][j]
    <3>1. CASE t = s
      <4>1. /\ i + 1 \in 1..Len(w) /\ i + 1 # 1 /\ entries'[t][i] = w[i + 1]
            /\ \A j \in 1..Len(entries'[t]) :
                 j + 1 \in 1..Len(w) /\ entries'[t][j] = w[j + 1] /\ (i # j => i + 1 # j + 1)
        BY <1>2, <1>7, <2>1, <3>1
      <4>2. /\ \A j \in 1..Len(w) : status[w[j]] = "none" /\ SymbolOf[w[j]] = s /\ w[j] \in Order
            /\ \A j, k \in 1..Len(w) : j # k => w[j] # w[k]
        BY EntryIsOrder DEF FinalInv, Entered, w
      <4>3. w[i + 1] # o
        BY <1>2, <4>1, <4>2
      <4>4. status'[w[i + 1]] = "none" /\ SymbolOf[w[i + 1]] = s
        BY <1>10, <4>1, <4>2, <4>3
      <4> QED
        BY <3>1, <4>1, <4>2, <4>4
    <3>2. CASE t # s
      <4>1. entries'[t] = entries[t]
        BY <1>7, <3>2
      <4>2. /\ status[entries[t][i]] = "none" /\ SymbolOf[entries[t][i]] = t
            /\ entries[t][i] \in Order
            /\ \A j \in 1..Len(entries[t]) : i # j => entries[t][i] # entries[t][j]
        BY <2>1, <4>1, EntryIsOrder DEF FinalInv, Entered
      <4>3. entries[t][i] # o
        BY <1>3, <3>2, <4>2
      <4> QED
        BY <1>10, <4>1, <4>2, <4>3
    <3> QED
      BY <3>1, <3>2
  <2> QED
    BY <2>1 DEF Entered
<1>12. Reported'
  <2>1. ASSUME NEW t \in Symbol, NEW i \in 1..Len(sent[t])
        PROVE  /\ SymbolOf[sent[t][i].order] = t
               /\ book'[sent[t][i].order] # "none"
               /\ sent[t][i].type \in {"CANCEL_CONFIRMED", "REJECT"} =>
                    book'[sent[t][i].order] = "closed"
    <3>1. sent[t] \in Seq(Message)
      BY DEF Typed, TypeOK, StreamTypes
    <3>2. sent[t][i] \in Message
      BY <3>1, ElementOfSeq
    <3>3. sent[t][i].order \in Order
      BY <3>2 DEF Message
    <3>4. /\ SymbolOf[sent[t][i].order] = t
          /\ book[sent[t][i].order] # "none"
          /\ sent[t][i].type \in {"CANCEL_CONFIRMED", "REJECT"} =>
               book[sent[t][i].order] = "closed"
      BY DEF FinalInv, Reported
    <3>5. sent[t][i].order # o
      BY <1>4, <3>4
    <3> QED
      BY <1>10, <3>3, <3>4, <3>5
  <2> QED
    BY <1>5, <2>1 DEF Reported
<1>13. AtExchange'
  <2>1. ASSUME NEW p \in Order
        PROVE  /\ status'[p] = "none" => book'[p] = "none"
               /\ book'[p] = "none" => executed[p] = 0
               /\ book'[p] = "open" => executed[p] < Qty[p]
               /\ executed[p] <= Qty[p]
               /\ status'[p] \in Ending => book'[p] = "closed" \/ p \in asked
    <3>1. /\ status[p] = "none" => book[p] = "none"
          /\ book[p] = "none" => executed[p] = 0
          /\ book[p] = "open" => executed[p] < Qty[p]
          /\ executed[p] <= Qty[p]
          /\ status[p] \in Ending => book[p] = "closed" \/ p \in asked
      BY DEF FinalInv, AtExchange
    <3>2. CASE status'[p] = status[p] /\ book'[p] = book[p]
      BY <3>1, <3>2
    <3>3. CASE p = o /\ status'[o] = "ACTIVE" /\ book'[o] = "open"
      BY <1>4, <3>1, <3>3 DEF Ending
    <3> QED
      BY <1>10, <3>2, <3>3
  <2> QED
    BY <1>5, <2>1 DEF AtExchange
<1>14. Counts(c)'
  <2>1. ASSUME NEW p \in Order
        PROVE  c[p][next'[SymbolOf[p]] - 1] = filled'[p]
    <3>1. c[p][next[SymbolOf[p]] - 1] = filled[p]
      BY <1>8 DEF Counts
    <3> QED
      BY <1>5, <1>10, <3>1
  <2> QED
    BY <1>5, <1>8, <2>1, CountsCarry
<1> QED
  BY <1>11, <1>12, <1>13, <1>14 DEF FinalInv, Counted

LEMMA EnqueueKeepsFinal ==
  ASSUME Typed, FinalInv, NEW s \in Symbol, NEW o \in Order, EnqueueEntry(s, o)
  PROVE  FinalInv'
<1> DEFINE w == entries[s]
<1>1. /\ SymbolOf[o] = s /\ status[o] = "none"
      /\ entries' = [entries EXCEPT ![s] = Append(w, o)]
      /\ UNCHANGED <<status, filled, next, sent, book, executed, asked>>
      /\ \A i \in DOMAIN w : w[i] # o
  BY DEF EnqueueEntry, orders, stream, exchange
<1>2. w \in Seq(Order) /\ Len(w) \in Nat /\ DOMAIN w = 1..Len(w)
  BY EntryIsOrder, LenProperties
<1>3. /\ Len(Append(w, o)) = Len(w) + 1
      /\ \A i \in 1..Len(w) : Append(w, o)[i] = w[i]
      /\ Append(w, o)[Len(w) + 1] = o
  BY <1>2, AppendProperties
<1>4. /\ entries'[s] = Append(w, o)
      /\ \A t \in Symbol \ {s} : entries'[t] = entries[t]
  BY <1>1 DEF Typed, TypeOK, ActorTypes
<1>5. /\ \A i \in 1..Len(w) : status[w[i]] = "none" /\ SymbolOf[w[i]] = s
      /\ \A i, j \in 1..Len(w) : i # j => w[i] # w[j]
  BY DEF FinalInv, Entered
<1> HIDE DEF w
<1>6. Entered'
  <2>1. ASSUME NEW t \in Symbol, NEW i \in 1..Len(entries'[t])
        PROVE  /\ status[entries'[t][i]] = "none" /\ SymbolOf[entries'[t][i]] = t
               /\ \A j \in 1..Len(entries'[t]) : i # j => entries'[t][i] # entries'[t][j]
    <3>1. CASE t = s
      <4> DEFINE v == entries'[s]
      <4>1. \A j \in 1..Len(v) : \/ j \in 1..Len(w) /\ v[j] = w[j]
                                 \/ j = Len(w) + 1 /\ v[j] = o
        BY <1>2, <1>3, <1>4
      <4>2. \A j \in 1..Len(w) : w[j] # o
        BY <1>1, <1>2
      <4> HIDE DEF v
      <4>3. \A j \in 1..Len(v) : i # j => v[i] # v[j]
        <5>1. ASSUME NEW j \in 1..Len(v), i # j PROVE v[i] # v[j]
          <6>1. i \in 1..Len(v)
            BY <2>1, <3>1 DEF v
          <6> QED
            BY <1>5, <4>1, <4>2, <5>1, <6>1
        <5> QED
          BY <5>1
      <4>4. status[v[i]] = "none" /\ SymbolOf[v[i]] = s
        <5>1. i \in 1..Len(v)
          BY <2>1, <3>1 DEF v
        <5> QED
          BY <1>1, <1>5, <4>1, <5>1
      <4> QED
        BY <3>1, <4>3, <4>4 DEF v
    <3>2. CASE t # s
      BY <1>4, <2>1, <3>2 DEF FinalInv, Entered
    <3> QED
      BY <3>1, <3>2
  <2> QED
    BY <1>1, <2>1 DEF Entered
<1>7. Reported' /\ AtExchange'
  BY <1>1 DEF FinalInv, Reported, AtExchange
<1>8. PICK c : Counts(c)
  BY DEF FinalInv, Counted
<1>9. Counts(c)'
  BY <1>1, <1>8 DEF Counts, Part
<1> QED
  BY <1>6, <1>7, <1>9 DEF FinalInv, Counted

LEMMA EventsKeepFinal ==
  ASSUME Typed, FinalInv, NEW s \in Symbol, Event(s)
  PROVE  FinalInv'
<1>1. ASSUME NEW o \in Order, EnqueueCancel(s, o)
      PROVE  FinalInv'
  BY <1>1, QuietKeepsFinal DEF EnqueueCancel, orders, stream, exchange
<1>2. CASE StepCancel(s)
  <2>1. cancels[s] \in Seq(Order) /\ cancels[s] # <<>>
    BY <1>2 DEF StepCancel, Typed, TypeOK, ActorTypes
  <2>2. Head(cancels[s]) \in Order
    BY <2>1
  <2>3. /\ RequestCancel({Head(cancels[s])})
        /\ UNCHANGED <<filled, next, sent, book, executed, entries>>
    BY <1>2 DEF StepCancel, stream
  <2> QED
    BY <2>2, <2>3, RequestKeepsFinal
<1>3. CASE StepIdle(s) \/ Fetch(s) \/ PutStateSync(s)
  BY <1>3, QuietKeepsFinal DEF StepIdle, Fetch, PutStateSync, orders, stream,
     exchange, queue
<1> QED
  BY <1>1, <1>2, <1>3, EnqueueKeepsFinal, EntryKeepsFinal DEF Event

LEMMA GovernorKeepsFinal ==
  ASSUME Typed, FinalInv, Governor
  PROVE  FinalInv'
<1>1. ASSUME NEW s \in Symbol, NEW r \in RiskLevel, UpdateRisk(s, r)
      PROVE  FinalInv'
  <2>1. UNCHANGED <<filled, next, sent, book, executed, entries>>
    BY <1>1 DEF UpdateRisk, stream, queue
  <2>2. RequestCancel(Order) \/ UNCHANGED <<status, asked>>
    BY <1>1 DEF UpdateRisk, HaltAll
  <2> QED
    BY <2>1, <2>2, RequestKeepsFinal, QuietKeepsFinal
<1>2. CASE CooldownElapses \/ Reset
  BY <1>2, QuietKeepsFinal DEF CooldownElapses, Reset, orders, stream, exchange,
     queue
<1> QED
  BY <1>1, <1>2 DEF Governor

\* An order the actor holds FILLED, CANCELLED or REJECTED is closed at the
\* exchange, or a cancel is on its way to it: also when a partial fill came
\* while the cancel was pending and the actor took the order for filled.
THEOREM FinalOrdersClose == Spec => []FinalMeansClosing
<1>1. Init => FinalInv
  <2> SUFFICES ASSUME Init PROVE FinalInv
    OBVIOUS
  <2>1. /\ \A s \in Symbol : /\ Len(sent[s]) = 0 /\ Len(entries[s]) = 0
                             /\ next[s] = 1
        /\ \A o \in Order : /\ status[o] = "none" /\ book[o] = "none"
                            /\ executed[o] = 0 /\ filled[o] = 0
                            /\ Qty[o] \in Nat /\ SymbolOf[o] \in Symbol
    BY ActorAssumption DEF Init
  <2>2. Entered /\ Reported
    BY <2>1 DEF Entered, Reported
  <2>3. AtExchange
    BY <2>1 DEF AtExchange, Ending
  <2>4. Counts([o \in Order |-> [i \in Nat |-> 0]])
    BY <2>1 DEF Counts
  <2> QED
    BY <2>2, <2>3, <2>4 DEF FinalInv, Counted
<1>2. Typed /\ PositionInv /\ FinalInv /\ [Next]_vars => FinalInv'
  <2> SUFFICES ASSUME Typed, Chained, FinalInv, [Next]_vars
               PROVE  FinalInv'
    BY DEF PositionInv
  <2>1. CASE UNCHANGED vars
    BY <2>1, QuietKeepsFinal DEF vars, orders, stream, exchange, queue
  <2>2. ASSUME NEW s \in Symbol, NEW i \in transit[s], Receive(s, i)
        PROVE  FinalInv'
    BY <2>2, QuietKeepsFinal DEF Receive, orders, exchange, queue
  <2>3. CASE Next
    BY <2>2, <2>3, NextCases, ApplyKeepsFinal, EventsKeepFinal,
       GovernorKeepsFinal, ExchangeKeepsFinal
  <2> QED
    BY <2>1, <2>3
<1>3. FinalInv => FinalMeansClosing
  BY DEF FinalInv, AtExchange, Ending, FinalMeansClosing
<1> QED
  BY <1>1, <1>2, <1>3, StaysTyped, PositionHolds, PTL DEF Spec
-----------------------------------------------------------------------------
(* A breach of the exposure limit                                           *)

\* An actor resumes, and a new exposure is reported, only with the governor:
\* reset zeroes what was reported, so it leaves no breach behind.
LEMMA NoRiskNoExposure ==
  ASSUME IsFiniteSet(Symbol), NEW r, \A s \in Symbol : r[s] = 0
  PROVE  Exposure(r) = 0
<1>1. Exposure(r) = SumFunctionOnSet(r, Symbol)
  BY DEF Exposure
<1>2. Cardinality(Symbol) \in Nat
  BY FS_CardinalityType
<1>3. SumFunctionOnSet(r, Symbol) \in Nat
      /\ SumFunctionOnSet(r, Symbol) <= Cardinality(Symbol) * 0
  BY SumWithin
<1> QED
  BY <1>1, <1>2, <1>3

\* The exposures the governor was told of are below the limit, or everything is
\* halted: no event, message, snapshot or end of a cooldown lifts the halt.
THEOREM BreachesHalt ==
  ASSUME IsFiniteSet(Symbol)
  PROVE  Spec => []BreachHalts
<1>1. Init => BreachHalts
  <2> SUFFICES ASSUME Init PROVE BreachHalts
    OBVIOUS
  <2>1. \A s \in Symbol : risk[s] = 0
    BY DEF Init
  <2>2. Exposure(risk) = 0
    BY <2>1, NoRiskNoExposure
  <2> QED
    BY <2>2, ActorAssumption DEF BreachHalts
<1>2. Typed /\ BreachHalts /\ [Next]_vars => BreachHalts'
  <2> SUFFICES ASSUME Typed, BreachHalts, [Next]_vars
               PROVE  BreachHalts'
    OBVIOUS
  <2>1. ASSUME UNCHANGED governor, halted \subseteq halted', halted' \subseteq Symbol
        PROVE  BreachHalts'
    BY <2>1 DEF BreachHalts, Exposure, governor
  <2>2. CASE UNCHANGED vars
    BY <2>1, <2>2 DEF vars, Typed, TypeOK, ActorTypes
  <2>3. ASSUME NEW s \in Symbol, NEW i \in transit[s], Receive(s, i)
        PROVE  BreachHalts'
    BY <2>1, <2>3 DEF Receive, Typed, TypeOK, ActorTypes
  <2>4. ASSUME NEW s \in Symbol, Apply(s)
        PROVE  BreachHalts'
    BY <2>1, <2>4 DEF Apply, Typed, TypeOK, ActorTypes
  <2>5. ASSUME NEW s \in Symbol, Event(s)
        PROVE  BreachHalts'
    <3>1. UNCHANGED governor /\ (UNCHANGED halted \/ DrainMailbox(s))
      BY <2>5 DEF Event, EnqueueEntry, EnqueueCancel, StepCancel, StepEntry,
         StepIdle, Fetch, PutStateSync
    <3>2. UNCHANGED halted \/ halted' = halted \cup {s}
      BY <3>1 DEF DrainMailbox
    <3> QED
      BY <2>1, <3>1, <3>2 DEF Typed, TypeOK, ActorTypes
  <2>6. ASSUME NEW o \in Order, Exchange(o)
        PROVE  BreachHalts'
    BY <2>1, <2>6 DEF Exchange, ExchangeFills, ExchangeCloses,
       ExchangeRefusesCancel, Typed, TypeOK, ActorTypes
  <2>7. ASSUME NEW s \in Symbol, NEW r \in RiskLevel, UpdateRisk(s, r)
        PROVE  BreachHalts'
    <3>1. CASE HaltAll(s)
      BY <3>1 DEF HaltAll, BreachHalts
    <3>2. CASE Exposure(risk') < RiskLimit
      <4>1. ~(Exposure(risk)' >= RiskLimit)
        <5>1. Exposure(risk)' = Exposure(risk')
          BY DEF Exposure
        <5>2. Exposure(risk') \in Int
          <6>1. risk' \in [Symbol -> Nat]
            BY <2>7, ActorAssumption DEF UpdateRisk, Typed, TypeOK, ActorTypes
          <6>2. \A t \in Symbol : risk'[t] \in Int
            BY <6>1
          <6> QED
            BY <6>2, SumIsInt DEF Exposure
        <5> QED
          BY <3>2, <5>1, <5>2, ActorAssumption
      <4> QED
        BY <4>1 DEF BreachHalts
    <3> QED
      BY <2>7, <3>1, <3>2 DEF UpdateRisk
  <2>8. CASE CooldownElapses
    BY <2>8 DEF CooldownElapses, BreachHalts, Exposure
  <2>9. CASE Reset
    <3>1. Exposure(risk)' = 0
      <4>1. \A s \in Symbol : risk'[s] = 0
        BY <2>9 DEF Reset
      <4>2. Exposure(risk') = 0
        BY <4>1, NoRiskNoExposure
      <4> QED
        BY <4>2 DEF Exposure
    <3> QED
      BY <3>1, ActorAssumption DEF BreachHalts
  <2>10. CASE Next
    BY <2>3, <2>4, <2>5, <2>6, <2>7, <2>8, <2>9, <2>10, NextCases DEF Governor
  <2> QED
    BY <2>2, <2>10
<1> QED
  BY <1>1, <1>2, StaysTyped, PTL DEF Spec
=============================================================================
