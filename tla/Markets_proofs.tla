--------------------------- MODULE Markets_proofs ---------------------------
(***************************************************************************)
(* Theorems about the components between the market and the orders, unit by*)
(* unit.                                                                   *)
(*   LiveAdapter: the orders are the attempts.                             *)
(*   Backtest: its fills are reachable.                                    *)
(*   Feeds: closed candles arrive.                                         *)
(*   SyntheticBook: the book is in order and its fills are traded.         *)
(***************************************************************************)
EXTENDS LiveAdapter, Backtest, Feeds, SyntheticBook, FiniteFolds, TLAPS

----------------------------------------------------------------------------
(* The live adapter.                                                       *)

Calls == [pc : {"idle", "load", "send"}, op : Ops, attempt : 0..MaxRetries, outcome : Outcomes]

Unsent(i) == call[i].pc = "load" \/ (call[i].pc = "idle" /\ call[i].outcome = "none")
Sending(i) == call[i].pc = "send" /\ call[i].op = "create"

(* The orders under an id, and the requests that may still become one.     *)
Asked(i) == made[i] + late[<<i, "create">>]

(* Of every attempt made so far, the one under way excepted, there is at   *)
(* most one order, and before the first there is none.  Only an order whose*)
(* instrument is loaded is sent.                                           *)
Attempted(i) ==
    /\ Asked(i) <= givenUp[i] + 1 /\ Asked(i) <= MaxRetries + 1
    /\ Unsent(i) => Asked(i) = 0 /\ givenUp[i] = 0
    /\ Sending(i) => givenUp[i] = call[i].attempt /\ Asked(i) <= givenUp[i]
    /\ call[i].outcome = "REJECTED" => Asked(i) <= givenUp[i]
    /\ i \notin Exits /\ (Sending(i) \/ Asked(i) > 0) => cached # 0

AdapterInv == AdapterTypeOK /\ \A i \in Ids : Attempted(i)

(* Quantizing is down: (size \div step) * step is a size no larger.        *)
LEMMA QuantizedDown ==
    ASSUME NEW size \in Nat, NEW size_step \in Nat \ {0}
    PROVE  Quantized(size, size_step) \in 0..size
<1>1. /\ size \div size_step \in Nat /\ size % size_step \in 0..(size_step - 1)
      /\ size = size_step * (size \div size_step) + (size % size_step)
  BY SMT
<1> DEFINE quotient == size \div size_step
<1>2. quotient * size_step = size_step * quotient /\ size_step * quotient \in Nat
  BY <1>1, SMT
<1> QED BY <1>1, <1>2, SMT DEF Quantized

LEMMA SizeApproved ==
    ASSUME AdapterTypeOK, NEW i \in Ids, i \in Exits \/ cached # 0
    PROVE  Size(i) \in 0..Approved
<1>1. CASE i \in Exits
  BY <1>1, AdapterAssumption DEF Size
<1>2. CASE i \notin Exits
  <2>1. cached \in Nat \ {0}
    BY <1>2, AdapterAssumption DEF AdapterTypeOK
  <2> QED BY <1>2, <2>1, QuantizedDown, AdapterAssumption DEF Size
<1> QED BY <1>1, <1>2

LEMMA AdapterTypes ==
    ASSUME AdapterTypeOK
    PROVE  /\ call \in [Ids -> Calls] /\ cached \in Grids \cup {0} /\ grid \in Grids
           /\ resting \in [Ids -> Nat] /\ made \in [Ids -> Nat] /\ givenUp \in [Ids -> Nat]
           /\ late \in [Ids \X Ops -> Nat] /\ losses \in 0..MaxLosses
           /\ MaxRetries \in Nat /\ MaxLosses \in Nat /\ "create" \in Ops
           /\ \A i \in Ids : /\ call[i] \in Calls /\ call[i].attempt \in 0..MaxRetries
                             /\ call[i].op \in Ops /\ <<i, "create">> \in Ids \X Ops
                             /\ made[i] \in Nat /\ late[<<i, "create">>] \in Nat
                             /\ Asked(i) \in Nat /\ givenUp[i] \in Nat
<1>1. /\ call \in [Ids -> Calls] /\ cached \in Grids \cup {0} /\ grid \in Grids
      /\ resting \in [Ids -> Nat] /\ made \in [Ids -> Nat] /\ givenUp \in [Ids -> Nat]
      /\ late \in [Ids \X Ops -> Nat] /\ losses \in 0..MaxLosses
      /\ MaxRetries \in Nat /\ MaxLosses \in Nat /\ "create" \in Ops
  BY AdapterAssumption DEF AdapterTypeOK, Calls, Ops
<1>2. ASSUME NEW i \in Ids
      PROVE  /\ call[i] \in Calls /\ call[i].attempt \in 0..MaxRetries
             /\ call[i].op \in Ops /\ <<i, "create">> \in Ids \X Ops
             /\ made[i] \in Nat /\ late[<<i, "create">>] \in Nat /\ givenUp[i] \in Nat
  <2>1. call[i] \in Calls /\ <<i, "create">> \in Ids \X Ops
    BY <1>1
  <2>2. call[i].attempt \in 0..MaxRetries /\ call[i].op \in Ops
    BY <2>1 DEF Calls
  <2> QED BY <1>1, <2>1, <2>2
<1>3. ASSUME NEW i \in Ids PROVE Asked(i) \in Nat
  <2>1. made[i] \in Nat /\ late[<<i, "create">>] \in Nat
    BY <1>2
  <2> QED BY <2>1 DEF Asked
<1> QED BY <1>1, <1>2, <1>3

(* How the three ways a call goes on leave it.                             *)
LEMMA RaiseLeaves ==
    ASSUME call \in [Ids -> Calls], NEW i \in Ids, NEW outcome \in Outcomes, Raise(i, outcome)
    PROVE  /\ call' \in [Ids -> Calls] /\ \A j \in Ids \ {i} : call'[j] = call[j]
           /\ call'[i].pc = "idle" /\ call'[i].outcome = outcome
<1>1. call' = [call EXCEPT ![i].pc = "idle", ![i].outcome = outcome]
  BY DEF Raise
<1>2. call[i] \in Calls
  OBVIOUS
<1>3. call' \in [Ids -> Calls]
  BY <1>1, <1>2 DEF Calls
<1>4. call'[i].pc = "idle" /\ call'[i].outcome = outcome
  BY <1>1, <1>2 DEF Calls
<1>5. \A j \in Ids \ {i} : call'[j] = call[j]
  BY <1>1
<1> QED BY <1>3, <1>4, <1>5

LEMMA AwaitLeaves ==
    ASSUME call \in [Ids -> Calls], NEW i \in Ids, NEW place \in {"load", "send"}, NEW op \in Ops,
           Await(i, place, op)
    PROVE  /\ call' \in [Ids -> Calls] /\ \A j \in Ids \ {i} : call'[j] = call[j]
           /\ call'[i].pc = place /\ call'[i].op = op /\ call'[i].attempt = 0
           /\ call'[i].outcome = "none"
<1>1. call' = [call EXCEPT ![i] = [pc |-> place, op |-> op, attempt |-> 0, outcome |-> "none"]]
  BY DEF Await
<1>2. [pc |-> place, op |-> op, attempt |-> 0, outcome |-> "none"] \in Calls
  BY AdapterAssumption DEF Calls, Outcomes
<1>3. call' \in [Ids -> Calls]
  BY <1>1, <1>2
<1>4. call'[i] = [pc |-> place, op |-> op, attempt |-> 0, outcome |-> "none"]
  BY <1>1
<1>5. \A j \in Ids \ {i} : call'[j] = call[j]
  BY <1>1
<1> QED BY <1>3, <1>4, <1>5

Again(i) ==
    /\ call[i].attempt < MaxRetries
    /\ call'[i].attempt = call[i].attempt + 1 /\ call'[i].pc = call[i].pc
    /\ call'[i].op = call[i].op /\ call'[i].outcome = call[i].outcome

LEMMA RetryLeaves ==
    ASSUME call \in [Ids -> Calls], NEW i \in Ids, Retry(i)
    PROVE  /\ call' \in [Ids -> Calls] /\ \A j \in Ids \ {i} : call'[j] = call[j]
           /\ Again(i) \/ (call'[i].pc = "idle" /\ call'[i].outcome = "UNKNOWN")
<1>1. CASE call[i].attempt < MaxRetries /\ call' = [call EXCEPT ![i].attempt = @ + 1]
  <2>1. call[i] \in Calls
    OBVIOUS
  <2>2. call[i].attempt + 1 \in 0..MaxRetries
    BY <1>1, <2>1, AdapterAssumption DEF Calls
  <2>3. call' \in [Ids -> Calls]
    BY <1>1, <2>2 DEF Calls
  <2>4. call'[i] = [call[i] EXCEPT !.attempt = call[i].attempt + 1]
    BY <1>1
  <2>5. /\ call'[i].attempt = call[i].attempt + 1 /\ call'[i].pc = call[i].pc
        /\ call'[i].op = call[i].op /\ call'[i].outcome = call[i].outcome
    BY <2>1, <2>4 DEF Calls
  <2>6. \A j \in Ids \ {i} : call'[j] = call[j]
    BY <1>1
  <2> QED BY <1>1, <2>3, <2>5, <2>6 DEF Again
<1>2. CASE Raise(i, "UNKNOWN")
  BY <1>2, RaiseLeaves DEF Outcomes
<1> QED BY <1>1, <1>2 DEF Retry

(* What a request carried out does at the venue.                           *)
LEMMA EffectLeaves ==
    ASSUME made \in [Ids -> Nat], resting \in [Ids -> Nat],
           NEW i \in Ids, NEW op \in Ops, NEW reply, Effect(i, op, reply)
    PROVE  /\ made' \in [Ids -> Nat] /\ resting' \in [Ids -> Nat]
           /\ \A j \in Ids \ {i} : made'[j] = made[j]
           /\ made'[i] = made[i] \/ (op = "create" /\ reply # "REJECTED" /\ made'[i] = made[i] + 1)
           /\ reply \in Outcomes \ {"none"} /\ (reply = "REJECTED" => op = "create")
<1> DEFINE created == IF op = "create" /\ reply = "answered" THEN 1 ELSE 0
           canceled == IF op = "cancel" /\ reply = "answered" THEN 1 ELSE 0
<1>1. /\ reply \in Replies(i, op)
      /\ made' = [made EXCEPT ![i] = made[i] + created]
      /\ resting' = [resting EXCEPT ![i] = resting[i] + created - canceled]
  BY Zenon DEF Effect
<1>2. CASE op = "create"
  <2>1. reply \in {"answered", "REJECTED"}
    BY <1>1, <1>2 DEF Replies
  <2>2. canceled = 0
    BY <1>2
  <2>3. created \in {0, 1} /\ (created = 1 => reply # "REJECTED")
    OBVIOUS
  <2> HIDE DEF created, canceled
  <2>4. made[i] + created \in Nat /\ resting[i] + created - canceled \in Nat
    BY <2>2, <2>3
  <2>5. made' \in [Ids -> Nat] /\ resting' \in [Ids -> Nat] /\ made'[i] = made[i] + created
        /\ \A j \in Ids \ {i} : made'[j] = made[j]
    BY <1>1, <2>4
  <2>6. made'[i] = made[i] \/ (reply # "REJECTED" /\ made'[i] = made[i] + 1)
    BY <2>3, <2>5
  <2> QED BY <1>2, <2>1, <2>5, <2>6 DEF Outcomes
<1>3. CASE op # "create"
  <2>1. created = 0
    BY <1>3
  <2>2. reply \in Outcomes \ {"none", "REJECTED"} /\ (canceled = 1 => resting[i] # 0)
    <3>1. CASE op = "cancel"
      <4>1. reply = IF resting[i] = 0 THEN "EXPIRED" ELSE "answered"
        BY <1>1, <3>1 DEF Replies
      <4> QED BY <4>1 DEF Outcomes
    <3>2. CASE op = "fetch"
      <4>1. reply = IF made[i] = 0 THEN "absent" ELSE "answered"
        BY <1>1, <3>2 DEF Replies
      <4> QED BY <3>2, <4>1 DEF Outcomes
    <3> QED BY <1>3, <3>1, <3>2 DEF Ops
  <2>3. canceled \in {0, 1}
    OBVIOUS
  <2> HIDE DEF created, canceled
  <2>4. made[i] + created = made[i] /\ resting[i] + created - canceled \in Nat
    <3>1. made[i] \in Nat /\ resting[i] \in Nat
      OBVIOUS
    <3> QED BY <2>1, <2>2, <2>3, <3>1
  <2>5. made' \in [Ids -> Nat] /\ resting' \in [Ids -> Nat] /\ made'[i] = made[i]
        /\ \A j \in Ids \ {i} : made'[j] = made[j]
    BY <1>1, <2>4
  <2> QED BY <2>2, <2>5
<1> QED BY <1>2, <1>3

(* A step of one id has to keep the count of that one.                     *)
LEMMA IdStep ==
    ASSUME AdapterInv, NEW i \in Ids, AdapterTypeOK', Attempted(i)',
           \A j \in Ids \ {i} :
              /\ call'[j] = call[j] /\ made'[j] = made[j] /\ givenUp'[j] = givenUp[j]
              /\ late'[<<j, "create">>] = late[<<j, "create">>],
           cached # 0 => cached' # 0
    PROVE  AdapterInv'
<1>1. ASSUME NEW j \in Ids \ {i} PROVE Attempted(j)'
  <2>1. Attempted(j)
    BY DEF AdapterInv
  <2>2. Asked(j)' = Asked(j) /\ (Sending(j)' <=> Sending(j)) /\ (Unsent(j)' <=> Unsent(j))
        /\ call'[j] = call[j] /\ givenUp'[j] = givenUp[j]
    BY DEF Asked, Sending, Unsent
  <2> QED BY <2>1, <2>2 DEF Attempted
<1> QED BY <1>1 DEF AdapterInv

LEMMA TypesStep ==
    ASSUME call' \in [Ids -> Calls], cached' \in Grids \cup {0}, grid' \in Grids,
           killed' \in BOOLEAN, resting' \in [Ids -> Nat], made' \in [Ids -> Nat],
           givenUp' \in [Ids -> Nat], late' \in [Ids \X Ops -> Nat], losses' \in 0..MaxLosses
    PROVE  AdapterTypeOK'
  BY DEF AdapterTypeOK, Calls

(* A step that neither counts an attempt nor touches the venue.            *)
LEMMA CallerStep ==
    ASSUME AdapterInv, NEW i \in Ids, call' \in [Ids -> Calls],
           \A j \in Ids \ {i} : call'[j] = call[j],
           cached' \in Grids \cup {0}, cached # 0 => cached' # 0,
           UNCHANGED <<grid, killed, resting, made, late, givenUp>>, losses' \in 0..MaxLosses,
           Unsent(i)' => Unsent(i),
           Sending(i)' => /\ i \in Exits \/ cached' # 0
                          /\ call'[i].attempt = givenUp[i] /\ Asked(i) <= givenUp[i],
           call'[i].outcome = "REJECTED" => Asked(i) <= givenUp[i]
    PROVE  AdapterInv'
<1>1. AdapterTypeOK'
  <2>1. /\ resting' \in [Ids -> Nat] /\ made' \in [Ids -> Nat] /\ givenUp' \in [Ids -> Nat]
        /\ late' \in [Ids \X Ops -> Nat] /\ grid' \in Grids
    BY AdapterTypes DEF AdapterInv
  <2>2. killed' \in BOOLEAN
    BY DEF AdapterInv, AdapterTypeOK
  <2> QED BY <2>1, <2>2, TypesStep
<1>2. Asked(i)' = Asked(i) /\ givenUp'[i] = givenUp[i] /\ Attempted(i)
  BY DEF Asked, AdapterInv
<1>3. Attempted(i)'
  <2>1. Asked(i)' <= givenUp'[i] + 1 /\ Asked(i)' <= MaxRetries + 1
    BY <1>2 DEF Attempted
  <2>2. Unsent(i)' => Asked(i)' = 0 /\ givenUp'[i] = 0
    BY <1>2 DEF Attempted
  <2>3. Sending(i)' => givenUp'[i] = call'[i].attempt /\ Asked(i)' <= givenUp'[i]
    BY <1>2
  <2>4. call'[i].outcome = "REJECTED" => Asked(i)' <= givenUp'[i]
    BY <1>2
  <2>5. i \notin Exits /\ (Sending(i)' \/ Asked(i)' > 0) => cached' # 0
    BY <1>2 DEF Attempted
  <2> QED BY <2>1, <2>2, <2>3, <2>4, <2>5 DEF Attempted
<1>4. \A j \in Ids \ {i} :
         /\ call'[j] = call[j] /\ made'[j] = made[j] /\ givenUp'[j] = givenUp[j]
         /\ late'[<<j, "create">>] = late[<<j, "create">>]
  OBVIOUS
<1> QED BY <1>1, <1>3, <1>4, IdStep

LEMMA AdapterInitially == AdapterInit => AdapterInv
<1> SUFFICES ASSUME AdapterInit PROVE AdapterInv
  OBVIOUS
<1>1. call \in [Ids -> Calls]
  <2>1. [pc |-> "idle", op |-> "create", attempt |-> 0, outcome |-> "none"] \in Calls
    BY AdapterAssumption DEF Calls, Ops, Outcomes
  <2> QED BY <2>1 DEF AdapterInit
<1>2. killed \in BOOLEAN
  BY Zenon DEF AdapterInit
<1>3. AdapterTypeOK
  BY <1>1, <1>2, AdapterAssumption DEF AdapterInit, AdapterTypeOK, Calls
<1>4. ASSUME NEW i \in Ids PROVE Attempted(i)
  <2>1. Asked(i) = 0 /\ givenUp[i] = 0
    BY AdapterTypes, <1>3 DEF AdapterInit, Asked
  <2>2. call[i].pc = "idle" /\ call[i].outcome = "none"
    BY DEF AdapterInit
  <2> QED BY <2>1, <2>2, AdapterAssumption DEF Attempted, Sending
<1> QED BY <1>3, <1>4 DEF AdapterInv

LEMMA SubmissionKeeps ==
    ASSUME AdapterInv, NEW i \in Ids, Submission(i) PROVE AdapterInv'
<1>0. /\ call \in [Ids -> Calls] /\ losses' \in 0..MaxLosses
      /\ UNCHANGED <<cached, grid, killed, resting, made, late, givenUp>>
      /\ cached' \in Grids \cup {0} /\ (cached # 0 => cached' # 0)
  BY AdapterTypes DEF AdapterInv, Submission
<1>1. Unsent(i) /\ Asked(i) = 0 /\ givenUp[i] = 0
  BY DEF Submission, Unsent, AdapterInv, Attempted
<1>2. CASE \E o \in {"killed", "dry_run", "too_small"} : Raise(i, o)
  <2>1. PICK o \in {"killed", "dry_run", "too_small"} : Raise(i, o)
    BY <1>2
  <2>2. /\ call' \in [Ids -> Calls] /\ \A j \in Ids \ {i} : call'[j] = call[j]
        /\ call'[i].pc = "idle" /\ call'[i].outcome = o
    BY <1>0, <2>1, RaiseLeaves DEF Outcomes
  <2>3. ~Sending(i)' /\ call'[i].outcome # "REJECTED"
    BY <2>2 DEF Sending
  <2> QED BY <1>0, <1>1, <2>2, <2>3, CallerStep
<1>3. CASE Await(i, "load", "create")
  <2>1. /\ call' \in [Ids -> Calls] /\ \A j \in Ids \ {i} : call'[j] = call[j]
        /\ call'[i].pc = "load" /\ call'[i].outcome = "none"
    BY <1>0, <1>3, AwaitLeaves DEF Ops
  <2>2. ~Sending(i)' /\ call'[i].outcome # "REJECTED"
    BY <2>1 DEF Sending
  <2> QED BY <1>0, <1>1, <2>1, <2>2, CallerStep
<1>4. CASE Await(i, "send", "create") /\ (i \in Exits \/ cached # 0)
  <2>1. /\ call' \in [Ids -> Calls] /\ \A j \in Ids \ {i} : call'[j] = call[j]
        /\ call'[i].attempt = 0 /\ call'[i].outcome = "none"
    BY <1>0, <1>4, AwaitLeaves DEF Ops
  <2>2. i \in Exits \/ cached' # 0
    BY <1>0, <1>4
  <2>3. call'[i].attempt = givenUp[i] /\ Asked(i) <= givenUp[i] /\ call'[i].outcome # "REJECTED"
    BY <1>1, <2>1
  <2> QED BY <1>0, <1>1, <2>1, <2>2, <2>3, CallerStep
<1> QED BY <1>2, <1>3, <1>4 DEF Submission

LEMMA CancelOrFetchKeeps ==
    ASSUME AdapterInv, NEW i \in Ids, NEW op \in {"cancel", "fetch"}, CancelOrFetch(i, op)
    PROVE  AdapterInv'
<1>0. /\ call \in [Ids -> Calls] /\ losses' \in 0..MaxLosses
      /\ UNCHANGED <<cached, grid, killed, resting, made, late, givenUp>>
      /\ cached' \in Grids \cup {0} /\ (cached # 0 => cached' # 0)
  BY AdapterTypes DEF AdapterInv, CancelOrFetch
<1>1. CASE Raise(i, "dry_run")
  <2>1. /\ call' \in [Ids -> Calls] /\ \A j \in Ids \ {i} : call'[j] = call[j]
        /\ call'[i].pc = "idle" /\ call'[i].outcome = "dry_run"
    BY <1>0, <1>1, RaiseLeaves DEF Outcomes
  <2>2. ~Sending(i)' /\ ~Unsent(i)' /\ call'[i].outcome # "REJECTED"
    BY <2>1 DEF Sending, Unsent
  <2> QED BY <1>0, <2>1, <2>2, CallerStep
<1>2. CASE Await(i, "send", op)
  <2>1. /\ call' \in [Ids -> Calls] /\ \A j \in Ids \ {i} : call'[j] = call[j]
        /\ call'[i].pc = "send" /\ call'[i].op = op /\ call'[i].outcome = "none"
    BY <1>0, <1>2, AwaitLeaves DEF Ops
  <2>2. ~Sending(i)' /\ ~Unsent(i)' /\ call'[i].outcome # "REJECTED"
    BY <2>1 DEF Sending, Unsent
  <2> QED BY <1>0, <2>1, <2>2, CallerStep
<1> QED BY <1>1, <1>2, Zenon DEF CancelOrFetch

LEMMA LoadMarketsKeeps ==
    ASSUME AdapterInv, NEW i \in Ids, LoadMarkets(i) PROVE AdapterInv'
<1>0. /\ call \in [Ids -> Calls] /\ losses' \in 0..MaxLosses
      /\ UNCHANGED <<grid, killed, resting, made, late, givenUp>>
      /\ cached' \in Grids \cup {0} /\ cached' # 0
  BY AdapterTypes, AdapterAssumption DEF AdapterInv, LoadMarkets
<1>1. Unsent(i) /\ Asked(i) = 0 /\ givenUp[i] = 0
  BY DEF LoadMarkets, Unsent, AdapterInv, Attempted
<1>2. CASE Raise(i, "too_small")
  <2>1. /\ call' \in [Ids -> Calls] /\ \A j \in Ids \ {i} : call'[j] = call[j]
        /\ call'[i].pc = "idle" /\ call'[i].outcome = "too_small"
    BY <1>0, <1>2, RaiseLeaves DEF Outcomes
  <2>2. ~Sending(i)' /\ call'[i].outcome # "REJECTED"
    BY <2>1 DEF Sending
  <2> QED BY <1>0, <1>1, <2>1, <2>2, CallerStep
<1>3. CASE Await(i, "send", "create")
  <2>1. /\ call' \in [Ids -> Calls] /\ \A j \in Ids \ {i} : call'[j] = call[j]
        /\ call'[i].attempt = 0 /\ call'[i].outcome = "none"
    BY <1>0, <1>3, AwaitLeaves DEF Ops
  <2>2. call'[i].attempt = givenUp[i] /\ Asked(i) <= givenUp[i] /\ call'[i].outcome # "REJECTED"
    BY <1>1, <2>1
  <2> QED BY <1>0, <1>1, <2>1, <2>2, CallerStep
<1> QED BY <1>2, <1>3 DEF LoadMarkets

LEMMA RateLimitedKeeps ==
    ASSUME AdapterInv, NEW i \in Ids, RateLimited(i) PROVE AdapterInv'
<1>0. /\ call \in [Ids -> Calls] /\ losses' \in 0..MaxLosses
      /\ UNCHANGED <<cached, grid, killed, resting, made, late, givenUp>>
      /\ cached' \in Grids \cup {0} /\ (cached # 0 => cached' # 0)
  BY AdapterTypes DEF AdapterInv, RateLimited, Nothing
<1>1. /\ call' \in [Ids -> Calls] /\ \A j \in Ids \ {i} : call'[j] = call[j]
      /\ call'[i].pc = "idle" /\ call'[i].outcome = "UNKNOWN"
  BY <1>0, RaiseLeaves DEF RateLimited, Outcomes
<1>2. ~Sending(i)' /\ ~Unsent(i)' /\ call'[i].outcome # "REJECTED"
  BY <1>1 DEF Sending, Unsent
<1> QED BY <1>0, <1>1, <1>2, CallerStep

LEMMA AnsweredKeeps ==
    ASSUME AdapterInv, NEW i \in Ids, Answered(i) PROVE AdapterInv'
<1> DEFINE op == call[i].op
<1>0. /\ call \in [Ids -> Calls] /\ made \in [Ids -> Nat] /\ resting \in [Ids -> Nat]
      /\ givenUp \in [Ids -> Nat] /\ late \in [Ids \X Ops -> Nat] /\ op \in Ops
      /\ cached \in Grids \cup {0} /\ grid \in Grids /\ losses \in 0..MaxLosses
      /\ call[i].attempt \in 0..MaxRetries /\ givenUp[i] \in Nat /\ MaxRetries \in Nat
      /\ made[i] \in Nat /\ late[<<i, "create">>] \in Nat
  BY AdapterTypes DEF AdapterInv
<1>1. call[i].pc = "send" /\ UNCHANGED <<cached, grid, killed, late, givenUp, losses>>
  BY DEF Answered
<1>2. PICK reply : Effect(i, op, reply) /\ Raise(i, reply)
  BY DEF Answered
<1> HIDE DEF op
<1>3. /\ made' \in [Ids -> Nat] /\ resting' \in [Ids -> Nat]
      /\ \A j \in Ids \ {i} : made'[j] = made[j]
      /\ made'[i] = made[i] \/ (op = "create" /\ reply # "REJECTED" /\ made'[i] = made[i] + 1)
      /\ reply \in Outcomes \ {"none"} /\ (reply = "REJECTED" => op = "create")
  BY <1>0, <1>2, EffectLeaves
<1>4. /\ call' \in [Ids -> Calls] /\ \A j \in Ids \ {i} : call'[j] = call[j]
      /\ call'[i].pc = "idle" /\ call'[i].outcome = reply
  BY <1>0, <1>2, <1>3, RaiseLeaves
<1>5. AdapterTypeOK'
  <2>1. killed' \in BOOLEAN
    BY <1>1 DEF AdapterInv, AdapterTypeOK
  <2> QED BY <1>0, <1>1, <1>3, <1>4, <2>1, TypesStep
<1>6. Attempted(i)'
  <2>1. Attempted(i) /\ (op = "create" => Sending(i))
    BY <1>1 DEF AdapterInv, Sending, op
  <2>2. ~Unsent(i)' /\ ~Sending(i)' /\ givenUp'[i] = givenUp[i] /\ cached' = cached
    BY <1>1, <1>3, <1>4 DEF Unsent, Sending
  <2>3. CASE made'[i] = made[i]
    <3>1. Asked(i)' = Asked(i)
      BY <1>1, <2>3 DEF Asked
    <3>2. call'[i].outcome = "REJECTED" => Asked(i) <= givenUp[i]
      BY <1>3, <1>4, <2>1 DEF Attempted
    <3> QED BY <2>1, <2>2, <3>1, <3>2 DEF Attempted
  <2>4. CASE op = "create" /\ reply # "REJECTED" /\ made'[i] = made[i] + 1
    <3>1. Asked(i)' = Asked(i) + 1 /\ Asked(i) \in Nat
      BY <1>0, <1>1, <2>4 DEF Asked
    <3>2. /\ Asked(i) <= givenUp[i] /\ givenUp[i] = call[i].attempt
          /\ i \notin Exits => cached # 0
      BY <2>1, <2>4 DEF Attempted
    <3>3. Asked(i)' <= givenUp'[i] + 1 /\ Asked(i)' <= MaxRetries + 1
      BY <1>0, <2>2, <3>1, <3>2
    <3> QED BY <1>4, <2>2, <2>4, <3>2, <3>3 DEF Attempted
  <2> QED BY <1>3, <2>3, <2>4
<1>7. \A j \in Ids \ {i} :
         /\ call'[j] = call[j] /\ made'[j] = made[j] /\ givenUp'[j] = givenUp[j]
         /\ late'[<<j, "create">>] = late[<<j, "create">>]
  BY <1>1, <1>3, <1>4
<1> QED BY <1>1, <1>5, <1>6, <1>7, IdStep

(* A lost attempt is given up: it counts, and may have become one order,   *)
(* or may still.                                                           *)
LEMMA NetworkErrorKeeps ==
    ASSUME AdapterInv, NEW i \in Ids, NetworkError(i) PROVE AdapterInv'
<1> DEFINE op == call[i].op
           here == <<i, "create">>
<1>0. /\ call \in [Ids -> Calls] /\ made \in [Ids -> Nat] /\ resting \in [Ids -> Nat]
      /\ givenUp \in [Ids -> Nat] /\ late \in [Ids \X Ops -> Nat] /\ op \in Ops
      /\ cached \in Grids \cup {0} /\ grid \in Grids /\ losses \in 0..MaxLosses
      /\ call[i].attempt \in 0..MaxRetries /\ givenUp[i] \in Nat /\ MaxRetries \in Nat
      /\ MaxLosses \in Nat /\ made[i] \in Nat /\ late[here] \in Nat /\ here \in Ids \X Ops
      /\ Asked(i) \in Nat
  BY AdapterTypes DEF AdapterInv
<1>1. /\ UNCHANGED <<cached, grid, killed>> /\ losses < MaxLosses /\ losses' = losses + 1
      /\ Retry(i)
      /\ givenUp' = IF Sending(i) THEN [givenUp EXCEPT ![i] = givenUp[i] + 1] ELSE givenUp
  BY DEF NetworkError, Sending
<1>2. /\ call' \in [Ids -> Calls] /\ \A j \in Ids \ {i} : call'[j] = call[j]
      /\ Again(i) \/ (call'[i].pc = "idle" /\ call'[i].outcome = "UNKNOWN")
  BY <1>0, <1>1, RetryLeaves
<1>3. /\ givenUp' \in [Ids -> Nat] /\ \A j \in Ids \ {i} : givenUp'[j] = givenUp[j]
      /\ givenUp'[i] = IF Sending(i) THEN givenUp[i] + 1 ELSE givenUp[i]
  <2>1. CASE Sending(i)
    BY <1>0, <1>1, <2>1
  <2>2. CASE ~Sending(i)
    BY <1>0, <1>1, <2>2
  <2> QED BY <2>1, <2>2
<1>4. /\ made' \in [Ids -> Nat] /\ resting' \in [Ids -> Nat] /\ late' \in [Ids \X Ops -> Nat]
      /\ \A j \in Ids \ {i} : made'[j] = made[j] /\ late'[<<j, "create">>] = late[<<j, "create">>]
      /\ Asked(i)' = Asked(i) \/ (Sending(i) /\ Asked(i)' = Asked(i) + 1)
  <2>1. CASE Nothing /\ late' = late
    BY <1>0, <2>1 DEF Nothing, Asked
  <2>2. CASE /\ call[i].pc = "send" /\ late' = late
             /\ \E reply \in Replies(i, op) : Effect(i, op, reply)
    <3>1. PICK reply : Effect(i, op, reply)
      BY <2>2
    <3> HIDE DEF op
    <3>2. /\ made' \in [Ids -> Nat] /\ resting' \in [Ids -> Nat]
          /\ \A j \in Ids \ {i} : made'[j] = made[j]
          /\ made'[i] = made[i] \/ (op = "create" /\ made'[i] = made[i] + 1)
      BY <1>0, <3>1, EffectLeaves
    <3>3. late' = late /\ (op = "create" => Sending(i))
      BY <2>2 DEF Sending, op
    <3>4. Asked(i)' = made'[i] + late[here] /\ Asked(i) = made[i] + late[here]
      BY <3>3 DEF Asked
    <3>5. Asked(i)' = Asked(i) \/ (Sending(i) /\ Asked(i)' = Asked(i) + 1)
      <4> HIDE DEF here
      <4> QED BY <1>0, <3>2, <3>3, <3>4
    <3> QED BY <1>0, <3>2, <3>3, <3>5
  <2>3. CASE call[i].pc = "send" /\ Nothing /\ late' = [late EXCEPT ![<<i, op>>] = late[<<i, op>>] + 1]
    <3>1. <<i, op>> \in Ids \X Ops /\ late[<<i, op>>] \in Nat
      BY <1>0
    <3>2. late' \in [Ids \X Ops -> Nat] /\ made' = made /\ resting' = resting
      BY <1>0, <2>3, <3>1 DEF Nothing
    <3>3. \A j \in Ids \ {i} : late'[<<j, "create">>] = late[<<j, "create">>]
      BY <1>0, <2>3 DEF Ops
    <3>4. CASE op = "create"
      <4>1. late'[here] = late[here] + 1
        BY <1>0, <2>3, <3>4
      <4>2. Sending(i)
        BY <2>3, <3>4 DEF Sending
      <4>3. Asked(i)' = made[i] + late'[here] /\ Asked(i) = made[i] + late[here]
        BY <3>2 DEF Asked
      <4>4. Asked(i)' = Asked(i) + 1
        <5> HIDE DEF here
        <5> QED BY <1>0, <4>1, <4>3
      <4> QED BY <1>0, <3>2, <3>3, <4>2, <4>4
    <3>5. CASE op # "create"
      <4>1. late'[here] = late[here]
        BY <1>0, <2>3, <3>5
      <4>2. Asked(i)' = Asked(i)
        BY <3>2, <4>1 DEF Asked
      <4> QED BY <1>0, <3>2, <3>3, <4>2
    <3> QED BY <3>4, <3>5
  <2> QED BY <2>1, <2>2, <2>3 DEF NetworkError
<1> HIDE DEF here, op
<1>5. AdapterTypeOK'
  <2>1. killed' \in BOOLEAN
    BY <1>1 DEF AdapterInv, AdapterTypeOK
  <2>2. losses' \in 0..MaxLosses
    BY <1>0, <1>1
  <2>3. cached' \in Grids \cup {0} /\ grid' \in Grids
    BY <1>0, <1>1
  <2> QED BY <1>2, <1>3, <1>4, <2>1, <2>2, <2>3, TypesStep
<1>6. Attempted(i)'
  <2>1. Attempted(i) /\ cached' = cached
    BY <1>1 DEF AdapterInv
  <2>2. CASE Sending(i)
    <3>1. /\ givenUp[i] = call[i].attempt /\ Asked(i) <= givenUp[i]
          /\ i \notin Exits => cached' # 0
      BY <2>1, <2>2 DEF Attempted
    <3>2. givenUp'[i] = givenUp[i] + 1 /\ Asked(i)' \in Nat /\ Asked(i)' <= Asked(i) + 1
      BY <1>0, <1>3, <1>4, <2>2
    <3>3. Asked(i)' <= givenUp'[i] /\ Asked(i)' <= givenUp'[i] + 1 /\ Asked(i)' <= MaxRetries + 1
      BY <1>0, <3>1, <3>2
    <3>4. ~Unsent(i)'
      BY <1>2, <2>2 DEF Again, Sending, Unsent
    <3>5. Sending(i)' => givenUp'[i] = call'[i].attempt
      <4>1. Sending(i)' => Again(i)
        BY <1>2 DEF Sending
      <4>2. Again(i) => call'[i].attempt = call[i].attempt + 1
        BY DEF Again
      <4> QED BY <3>1, <3>2, <4>1, <4>2
    <3> QED BY <3>1, <3>3, <3>4, <3>5 DEF Attempted
  <2>3. CASE ~Sending(i)
    <3>1. Asked(i)' = Asked(i) /\ givenUp'[i] = givenUp[i]
      BY <1>3, <1>4, <2>3
    <3>2. ~Sending(i)'
      BY <1>2, <2>3 DEF Again, Sending
    <3>3. Unsent(i)' => Unsent(i)
      BY <1>2 DEF Again, Unsent
    <3>4. call'[i].outcome = "REJECTED" => call[i].outcome = "REJECTED"
      BY <1>2 DEF Again
    <3> QED BY <2>1, <3>1, <3>2, <3>3, <3>4 DEF Attempted
  <2> QED BY <2>2, <2>3
<1>7. \A j \in Ids \ {i} :
         /\ call'[j] = call[j] /\ made'[j] = made[j] /\ givenUp'[j] = givenUp[j]
         /\ late'[<<j, "create">>] = late[<<j, "create">>]
  BY <1>2, <1>3, <1>4
<1> QED BY <1>1, <1>5, <1>6, <1>7, IdStep

(* A late request becomes an order, or none: it is no new one.             *)
LEMMA LateRequestKeeps ==
    ASSUME AdapterInv, NEW i \in Ids, NEW op \in Ops, LateRequest(i, op) PROVE AdapterInv'
<1> DEFINE here == <<i, "create">>
<1>0. /\ call \in [Ids -> Calls] /\ made \in [Ids -> Nat] /\ resting \in [Ids -> Nat]
      /\ givenUp \in [Ids -> Nat] /\ late \in [Ids \X Ops -> Nat]
      /\ cached \in Grids \cup {0} /\ grid \in Grids /\ losses \in 0..MaxLosses
      /\ MaxRetries \in Nat /\ givenUp[i] \in Nat
      /\ made[i] \in Nat /\ late[here] \in Nat /\ here \in Ids \X Ops /\ Asked(i) \in Nat
  BY AdapterTypes DEF AdapterInv
<1>1. /\ late[<<i, op>>] > 0 /\ late' = [late EXCEPT ![<<i, op>>] = late[<<i, op>>] - 1]
      /\ UNCHANGED <<call, cached, grid, killed, givenUp, losses>>
  BY DEF LateRequest
<1>2. PICK reply : Effect(i, op, reply)
  BY DEF LateRequest
<1>3. /\ made' \in [Ids -> Nat] /\ resting' \in [Ids -> Nat]
      /\ \A j \in Ids \ {i} : made'[j] = made[j]
      /\ made'[i] = made[i] \/ (op = "create" /\ made'[i] = made[i] + 1)
  BY <1>0, <1>2, EffectLeaves
<1>4. /\ late' \in [Ids \X Ops -> Nat]
      /\ \A j \in Ids \ {i} : late'[<<j, "create">>] = late[<<j, "create">>]
      /\ late'[here] = IF op = "create" THEN late[here] - 1 ELSE late[here]
      /\ op = "create" => late[here] > 0
  <2>1. <<i, op>> \in Ids \X Ops /\ late[<<i, op>>] \in Nat
    BY <1>0
  <2>2. late[<<i, op>>] - 1 \in Nat
    BY <1>1, <2>1
  <2>3. late' \in [Ids \X Ops -> Nat]
    BY <1>0, <1>1, <2>2
  <2>4. \A j \in Ids \ {i} : late'[<<j, "create">>] = late[<<j, "create">>]
    BY <1>0, <1>1 DEF Ops
  <2>5. CASE op = "create"
    BY <1>0, <1>1, <2>3, <2>4, <2>5
  <2>6. CASE op # "create"
    BY <1>0, <1>1, <2>3, <2>4, <2>6
  <2> QED BY <2>5, <2>6
<1>5. /\ Asked(i)' \in Nat /\ Asked(i)' <= Asked(i)
  <2>1. Asked(i)' = made'[i] + late'[here] /\ Asked(i) = made[i] + late[here]
    BY DEF Asked
  <2> HIDE DEF here
  <2>2. CASE op = "create"
    BY <1>0, <1>3, <1>4, <2>1, <2>2
  <2>3. CASE op # "create"
    BY <1>0, <1>3, <1>4, <2>1, <2>3
  <2> QED BY <2>2, <2>3
<1>6. AdapterTypeOK'
  <2>1. killed' \in BOOLEAN
    BY <1>1 DEF AdapterInv, AdapterTypeOK
  <2>2. /\ call' \in [Ids -> Calls] /\ givenUp' \in [Ids -> Nat] /\ losses' \in 0..MaxLosses
        /\ cached' \in Grids \cup {0} /\ grid' \in Grids
    BY <1>0, <1>1
  <2> QED BY <1>3, <1>4, <2>1, <2>2, TypesStep
<1>7. Attempted(i)'
  <2>1. /\ Attempted(i) /\ (Sending(i)' <=> Sending(i)) /\ (Unsent(i)' <=> Unsent(i))
        /\ call'[i] = call[i] /\ givenUp'[i] = givenUp[i] /\ cached' = cached
    BY <1>1 DEF AdapterInv, Sending, Unsent
  <2>2. Asked(i)' <= givenUp[i] + 1 /\ Asked(i)' <= MaxRetries + 1
    BY <1>0, <1>5, <2>1 DEF Attempted
  <2>3. Unsent(i) => Asked(i)' = 0 /\ givenUp[i] = 0
    BY <1>0, <1>5, <2>1 DEF Attempted
  <2>4. Sending(i) => givenUp[i] = call[i].attempt /\ Asked(i)' <= givenUp[i]
    BY <1>0, <1>5, <2>1 DEF Attempted
  <2>5. call[i].outcome = "REJECTED" => Asked(i)' <= givenUp[i]
    BY <1>0, <1>5, <2>1 DEF Attempted
  <2>6. Asked(i)' > 0 => Asked(i) > 0
    BY <1>0, <1>5
  <2>7. i \notin Exits /\ (Sending(i) \/ Asked(i)' > 0) => cached # 0
    BY <2>1, <2>6 DEF Attempted
  <2> QED BY <2>1, <2>2, <2>3, <2>4, <2>5, <2>7 DEF Attempted
<1>8. \A j \in Ids \ {i} :
         /\ call'[j] = call[j] /\ made'[j] = made[j] /\ givenUp'[j] = givenUp[j]
         /\ late'[<<j, "create">>] = late[<<j, "create">>]
  BY <1>1, <1>3, <1>4
<1> QED BY <1>1, <1>6, <1>7, <1>8, IdStep

(* What the venue and the operator do by themselves sends nothing.         *)
LEMMA OutsideKeeps ==
    ASSUME AdapterInv,
           \/ \E i \in Ids : VenueFills(i)
           \/ TripKillSwitch \/ (\E g \in Grids : VenueChangesGrid(g)) \/ UNCHANGED adapterVars
    PROVE  AdapterInv'
<1>1. UNCHANGED <<call, cached, made, late, givenUp, losses>>
  BY DEF VenueFills, TripKillSwitch, VenueChangesGrid, adapterVars
<1>2. grid' \in Grids
  BY DEF VenueFills, TripKillSwitch, VenueChangesGrid, adapterVars, AdapterInv, AdapterTypeOK
<1>3. killed' \in BOOLEAN
  BY Zenon DEF VenueFills, TripKillSwitch, VenueChangesGrid, adapterVars, AdapterInv,
               AdapterTypeOK
<1>4. resting' \in [Ids -> Nat]
  <2>1. resting \in [Ids -> Nat]
    BY AdapterTypes DEF AdapterInv
  <2>2. ASSUME NEW i \in Ids, VenueFills(i) PROVE resting' \in [Ids -> Nat]
    <3>1. resting[i] \in Nat /\ resting[i] > 0 /\ resting' = [resting EXCEPT ![i] = resting[i] - 1]
      BY <2>1, <2>2 DEF VenueFills
    <3>2. resting[i] - 1 \in Nat
      BY <3>1
    <3> QED BY <2>1, <3>1, <3>2
  <2>3. ASSUME TripKillSwitch \/ (\E g \in Grids : VenueChangesGrid(g)) \/ UNCHANGED adapterVars
        PROVE  resting' = resting
    BY <2>3 DEF TripKillSwitch, VenueChangesGrid, adapterVars
  <2> QED BY <2>1, <2>2, <2>3
<1>5. AdapterTypeOK'
  <2>1. /\ call' \in [Ids -> Calls] /\ cached' \in Grids \cup {0} /\ made' \in [Ids -> Nat]
        /\ givenUp' \in [Ids -> Nat] /\ late' \in [Ids \X Ops -> Nat] /\ losses' \in 0..MaxLosses
    BY <1>1, AdapterTypes DEF AdapterInv
  <2> QED BY <1>2, <1>3, <1>4, <2>1, TypesStep
<1>6. ASSUME NEW i \in Ids PROVE Attempted(i)'
  <2>1. Attempted(i) /\ Asked(i)' = Asked(i) /\ (Sending(i)' <=> Sending(i))
        /\ (Unsent(i)' <=> Unsent(i)) /\ call'[i] = call[i] /\ givenUp'[i] = givenUp[i]
        /\ cached' = cached
    BY <1>1 DEF AdapterInv, Asked, Sending, Unsent
  <2> QED BY <2>1 DEF Attempted
<1> QED BY <1>5, <1>6 DEF AdapterInv

LEMMA AdapterStep == AdapterInv /\ [AdapterNext]_adapterVars => AdapterInv'
<1> SUFFICES ASSUME AdapterInv, [AdapterNext]_adapterVars PROVE AdapterInv'
  OBVIOUS
<1>1. CASE \E i \in Ids : \/ Submission(i) \/ LoadMarkets(i) \/ Answered(i) \/ RateLimited(i)
                          \/ NetworkError(i)
  BY <1>1, SubmissionKeeps, LoadMarketsKeeps, AnsweredKeeps, RateLimitedKeeps,
     NetworkErrorKeeps, Zenon
<1>2. CASE \E i \in Ids : \/ \E op \in {"cancel", "fetch"} : CancelOrFetch(i, op)
                          \/ \E op \in Ops : LateRequest(i, op)
  BY <1>2, CancelOrFetchKeeps, LateRequestKeeps, Zenon
<1>3. CASE \/ \E i \in Ids : VenueFills(i)
           \/ TripKillSwitch \/ (\E g \in Grids : VenueChangesGrid(g)) \/ UNCHANGED adapterVars
  BY <1>3, OutsideKeeps
<1> QED BY <1>1, <1>2, <1>3, Zenon DEF AdapterNext

(* Whatever is lost or late, and whether or not the venue takes an id a    *)
(* second time: a submission leaves no more orders than the attempts that  *)
(* were given up and the one answered, never more than the retry loop has  *)
(* attempts, none beyond those given up when it is REJECTED, and none      *)
(* larger than approved (live_adapter.py:241-280).                         *)
THEOREM OrdersAreCounted == AdapterSpec => []OrdersAreAttempts
<1>1. AdapterInv => OrdersAreAttempts
  <2> SUFFICES ASSUME AdapterInv, NEW i \in Ids
               PROVE  /\ made[i] + late[<<i, "create">>] <= givenUp[i] + 1
                      /\ made[i] + late[<<i, "create">>] <= MaxRetries + 1
                      /\ call[i].outcome = "REJECTED"
                           => made[i] + late[<<i, "create">>] <= givenUp[i]
                      /\ made[i] > 0 => Size(i) <= Approved
    BY DEF OrdersAreAttempts
  <2>1. Attempted(i)
    BY DEF AdapterInv
  <2>2. ASSUME made[i] > 0 PROVE Size(i) <= Approved
    <3>1. made[i] \in Nat /\ late[<<i, "create">>] \in Nat
      BY AdapterTypes DEF AdapterInv
    <3>2. Asked(i) > 0
      BY <2>2, <3>1 DEF Asked
    <3>3. i \in Exits \/ cached # 0
      BY <2>1, <3>2 DEF Attempted
    <3>4. Size(i) \in 0..Approved /\ Approved \in Nat
      BY <3>3, SizeApproved, AdapterAssumption DEF AdapterInv
    <3> QED BY <3>4
  <2> QED BY <2>1, <2>2 DEF Attempted, Asked
<1> QED BY AdapterInitially, AdapterStep, <1>1, PTL DEF AdapterSpec

----------------------------------------------------------------------------
(* The backtests.                                                          *)

OpenTrades == [side : {"long", "short"}, entry : Int, stop : Int, target : Int,
               held : 0..MaxHoldBars - 1, risk : Risks]

BacktestInv ==
    /\ left \subseteq Timeline /\ over \in BOOLEAN
    /\ DOMAIN book = AssetSet
    /\ \A a \in AssetSet : book[a] = Flat \/ book[a] \in OpenTrades
    /\ FillsAreReachable

LEMMA LargerOfTwo ==
    ASSUME NEW x \in Int, NEW y \in Int
    PROVE  Max({x, y}) \in Int /\ Min({x, y}) \in Int
<1>1. \E m \in {x, y} : \A n \in {x, y} : m >= n
  <2>1. CASE x >= y
    BY <2>1
  <2>2. CASE y >= x
    BY <2>2
  <2> QED BY <2>1, <2>2
<1>2. \E m \in {x, y} : \A n \in {x, y} : m =< n
  <2>1. CASE x =< y
    BY <2>1
  <2>2. CASE y =< x
    BY <2>2
  <2> QED BY <2>1, <2>2
<1>3. Max({x, y}) \in {x, y}
  BY <1>1, Zenon DEF Max
<1>4. Min({x, y}) \in {x, y}
  BY <1>2, Zenon DEF Min
<1> QED BY <1>3, <1>4

BarNumbers(bar) ==
    /\ bar.open \in Int /\ bar.high \in Int /\ bar.low \in Int /\ bar.close \in Int
    /\ bar.low <= bar.open /\ bar.open <= bar.high
    /\ bar.low <= bar.close /\ bar.close <= bar.high

LEMMA BarsAreNumbers == ASSUME NEW bar \in Bars PROVE BarNumbers(bar)
  BY BacktestAssumption DEF BarNumbers

(* Where a price lies that the bar lets the trade out at.                  *)
Reachable(side, e, bar) ==
    /\ IF side = "long" THEN e.price <= bar.high ELSE e.price >= bar.low
    /\ e.reason = "stop" => IF side = "long" THEN e.price <= bar.open ELSE e.price >= bar.open

LEMMA NoExitIsNone ==
    ASSUME NEW reason \in {"stop", "target", "time_stop"}, NEW price
    PROVE  [reason |-> reason, price |-> price] # NoExit
<1> SUFFICES ASSUME [reason |-> reason, price |-> price] = NoExit PROVE FALSE
  OBVIOUS
<1>1. [reason |-> reason, price |-> price].reason = NoExit.reason
  OBVIOUS
<1>2. NoExit.reason = "none"
  BY DEF NoExit
<1> QED BY <1>1, <1>2

(* The gap-aware exit: the stop it may fill at is no better than the open, *)
(* because an open beyond the stop would have filled instead.              *)
LEMMA ExitIsReachable ==
    ASSUME engine = "single", NEW trade \in OpenTrades, NEW bar \in Bars,
           CheckExit(trade, bar) # NoExit
    PROVE  Reachable(trade.side, CheckExit(trade, bar), bar)
<1> SUFFICES ASSUME NEW e, e = CheckExit(trade, bar) PROVE Reachable(trade.side, e, bar)
  OBVIOUS
<1>0. /\ trade.side \in {"long", "short"} /\ trade.stop \in Int /\ trade.target \in Int
      /\ BarNumbers(bar)
  BY BarsAreNumbers DEF OpenTrades
<1>1. CASE GapThroughStop(trade, bar)
  <2>1. e = [reason |-> "stop", price |-> bar.open]
    BY <1>1, Zenon DEF CheckExit
  <2>2. e.reason = "stop" /\ e.price = bar.open
    BY <2>1
  <2> QED BY <1>0, <2>2 DEF Reachable, BarNumbers
<1>2. CASE ~GapThroughStop(trade, bar) /\ StopTouched(trade, bar)
  <2>1. e = [reason |-> "stop", price |-> trade.stop]
    BY <1>2, Zenon DEF CheckExit, Touched
  <2>2. e.reason = "stop" /\ e.price = trade.stop
    BY <2>1
  <2> QED BY <1>0, <1>2, <2>2 DEF Reachable, BarNumbers, GapThroughStop
<1>3. CASE ~GapThroughStop(trade, bar) /\ ~StopTouched(trade, bar) /\ TargetTouched(trade, bar)
  <2>1. e = [reason |-> "target", price |-> trade.target]
    BY <1>3, Zenon DEF CheckExit, Touched
  <2>2. e.reason = "target" /\ e.price = trade.target
    BY <2>1
  <2> QED BY <1>0, <1>3, <2>2 DEF Reachable, BarNumbers, TargetTouched
<1>4. CASE /\ ~GapThroughStop(trade, bar) /\ ~StopTouched(trade, bar)
           /\ ~TargetTouched(trade, bar) /\ trade.held + 1 >= MaxHoldBars
  <2>1. e = [reason |-> "time_stop", price |-> bar.close]
    BY <1>4, Zenon DEF CheckExit, Touched
  <2>2. e.reason = "time_stop" /\ e.price = bar.close
    BY <2>1
  <2> QED BY <1>0, <2>2 DEF Reachable, BarNumbers
<1>5. CASE /\ ~GapThroughStop(trade, bar) /\ ~StopTouched(trade, bar)
           /\ ~TargetTouched(trade, bar) /\ ~(trade.held + 1 >= MaxHoldBars)
  BY <1>5, Zenon DEF CheckExit, Touched
<1> QED BY <1>1, <1>2, <1>3, <1>4, <1>5

(* A trade that is held was not held for too long.                         *)
LEMMA HeldIsBounded ==
    ASSUME NEW trade \in OpenTrades, NEW bar \in Bars, CheckExit(trade, bar) = NoExit
    PROVE  trade.held + 1 \in 0..MaxHoldBars - 1
<1>1. Touched(trade, bar) = NoExit
  BY NoExitIsNone, Zenon DEF CheckExit
<1>2. ~(trade.held + 1 >= MaxHoldBars)
  <2> SUFFICES ASSUME trade.held + 1 >= MaxHoldBars PROVE Touched(trade, bar) # NoExit
    BY <1>1
  <2>1. CASE StopTouched(trade, bar)
    BY <2>1, NoExitIsNone, Zenon DEF Touched
  <2>2. CASE ~StopTouched(trade, bar) /\ TargetTouched(trade, bar)
    BY <2>2, NoExitIsNone, Zenon DEF Touched
  <2>3. CASE ~StopTouched(trade, bar) /\ ~TargetTouched(trade, bar)
    <3>1. Touched(trade, bar) = [reason |-> "time_stop", price |-> bar.close]
      BY <2>3, Zenon DEF Touched
    <3> QED BY <3>1, NoExitIsNone
  <2> QED BY <2>1, <2>2, <2>3
<1> QED BY <1>2, BacktestAssumption DEF OpenTrades

LEMMA HoldKeeps ==
    ASSUME NEW trade \in OpenTrades, NEW bar \in Bars, CheckExit(trade, bar) = NoExit
    PROVE  [trade EXCEPT !.held = @ + 1, !.stop = Trailed(trade, bar)] \in OpenTrades
<1>1. Trailed(trade, bar) \in Int
  <2>1. trade.stop \in Int /\ bar.high \in Int /\ bar.low \in Int /\ Trail \in Int
    BY BarsAreNumbers, BacktestAssumption DEF OpenTrades, BarNumbers
  <2>2. bar.high - Trail \in Int /\ bar.low + Trail \in Int
    BY <2>1
  <2> QED BY <2>1, <2>2, LargerOfTwo DEF Trailed
<1>2. trade.held + 1 \in 0..MaxHoldBars - 1
  BY HeldIsBounded
<1> QED BY <1>1, <1>2 DEF OpenTrades

LEMMA BacktestInitially == BacktestInit => BacktestInv
<1> SUFFICES ASSUME BacktestInit PROVE BacktestInv
  OBVIOUS
<1>1. left \subseteq Timeline
  BY DEF BacktestInit
<1>2. over \in BOOLEAN
  BY Zenon DEF BacktestInit
<1>3. DOMAIN book = AssetSet /\ \A a \in AssetSet : book[a] = Flat
  BY DEF BacktestInit
<1>4. FillsAreReachable
  BY Zenon DEF BacktestInit, FillsAreReachable
<1> QED BY <1>1, <1>2, <1>3, <1>4 DEF BacktestInv

LEMMA ReplayKeeps ==
    ASSUME BacktestInv, NEW b \in left, NEW bar \in Bars, Replay(b, bar)
    PROVE  BacktestInv'
<1> DEFINE a == Assets[b[2]]
<1>0. /\ a \in AssetSet /\ left' \subseteq left /\ UNCHANGED <<engine, calendar, over>>
      /\ left' \subseteq Timeline'
  <2>1. left \subseteq Timeline /\ b \in Timeline /\ b[2] \in 1..Len(Assets)
    BY DEF BacktestInv, Timeline
  <2>2. left' = left \ {b} /\ UNCHANGED <<engine, calendar, over>>
    BY DEF Replay
  <2>3. a \in AssetSet
    BY <2>1, BacktestAssumption, ElementOfSeq
  <2>4. Timeline' = Timeline
    BY <2>2 DEF Timeline
  <2> QED BY <2>1, <2>2, <2>3, <2>4
<1>o. over' \in BOOLEAN
  BY <1>0, Zenon DEF BacktestInv
<1> DEFINE e == CheckExit(book[a], bar)
<1>1. CASE book[a] # Flat /\ e = NoExit
  <2>1. book[a] \in OpenTrades
    BY <1>0, <1>1 DEF BacktestInv
  <2>2. Hold(a, bar)
    BY <1>1, Zenon DEF Replay
  <2> DEFINE kept == [book[a] EXCEPT !.held = @ + 1, !.stop = Trailed(book[a], bar)]
  <2>3. book' = [book EXCEPT ![a] = kept] /\ exit' = exit
    BY <2>2, Zenon DEF Hold
  <2>4. kept \in OpenTrades
    BY <1>1, <2>1, HoldKeeps
  <2> HIDE DEF kept, a, e
  <2>5. DOMAIN book' = AssetSet /\ \A x \in AssetSet : book'[x] = Flat \/ book'[x] \in OpenTrades
    BY <1>0, <2>3, <2>4 DEF BacktestInv
  <2>6. FillsAreReachable'
    BY <1>0, <2>3, Zenon DEF BacktestInv, FillsAreReachable
  <2> QED BY <1>0, <1>o, <2>5, <2>6 DEF BacktestInv
<1>2. CASE book[a] # Flat /\ e # NoExit
  <2>1. book[a] \in OpenTrades
    BY <1>0, <1>2 DEF BacktestInv
  <2>2. Close(a, bar, e)
    BY <1>2, Zenon DEF Replay
  <2>3. /\ book' = [book EXCEPT ![a] = Flat]
        /\ exit' = [reason |-> e.reason, price |-> e.price, side |-> book[a].side, bar |-> bar]
    BY <2>2 DEF Close
  <2>4. engine = "single" => Reachable(book[a].side, e, bar)
    BY <1>2, <2>1, ExitIsReachable
  <2> HIDE DEF a, e
  <2>5. DOMAIN book' = AssetSet /\ \A x \in AssetSet : book'[x] = Flat \/ book'[x] \in OpenTrades
    BY <1>0, <2>3 DEF BacktestInv
  <2>6. /\ exit'.reason = e.reason /\ exit'.price = e.price
        /\ exit'.side = book[a].side /\ exit'.bar = bar
    BY <2>3
  <2>7. FillsAreReachable'
    BY <1>0, <2>4, <2>6 DEF FillsAreReachable, Reachable
  <2> QED BY <1>0, <1>o, <2>5, <2>7 DEF BacktestInv
<1>3. CASE NoSignal
  <2>1. UNCHANGED <<book, exit>>
    BY <1>3 DEF NoSignal
  <2>2. FillsAreReachable'
    BY <1>0, <2>1, Zenon DEF BacktestInv, FillsAreReachable
  <2>3. DOMAIN book' = AssetSet /\ \A x \in AssetSet : book'[x] = Flat \/ book'[x] \in OpenTrades
    BY <2>1 DEF BacktestInv
  <2> QED BY <1>0, <1>o, <2>2, <2>3 DEF BacktestInv
<1>4. CASE \E side \in {"long", "short"}, risk \in Risks : Enter(a, bar, side, risk)
  <2>0. PICK side \in {"long", "short"}, risk \in Risks : Enter(a, bar, side, risk)
    BY <1>4
  <2> DEFINE opened == [side |-> side, entry |-> bar.close + Sign(side) * Slippage,
                        stop |-> bar.close - Sign(side) * Reach,
                        target |-> bar.close + Sign(side) * 2 * Reach,
                        held |-> 0, risk |-> risk]
  <2>1. book' = [book EXCEPT ![a] = opened] /\ exit' = exit
    BY <2>0 DEF Enter
  <2>2. opened \in OpenTrades
    <3>1. bar.close \in Int /\ Slippage \in Int /\ Reach \in Int /\ 0 \in 0..MaxHoldBars - 1
      BY BarsAreNumbers, BacktestAssumption DEF BarNumbers
    <3>2. Sign(side) = 1 \/ Sign(side) = -1
      BY DEF Sign
    <3>3. /\ bar.close + Sign(side) * Slippage \in Int /\ bar.close - Sign(side) * Reach \in Int
          /\ bar.close + Sign(side) * 2 * Reach \in Int
      BY <3>1, <3>2
    <3> QED BY <3>1, <3>3 DEF OpenTrades
  <2> HIDE DEF a, e, opened
  <2>3. DOMAIN book' = AssetSet /\ \A x \in AssetSet : book'[x] = Flat \/ book'[x] \in OpenTrades
    BY <1>0, <2>1, <2>2 DEF BacktestInv
  <2>4. FillsAreReachable'
    BY <1>0, <2>1, Zenon DEF BacktestInv, FillsAreReachable
  <2> QED BY <1>0, <1>o, <2>3, <2>4 DEF BacktestInv
<1> QED BY <1>1, <1>2, <1>3, <1>4, Zenon DEF Replay

LEMMA BacktestStep == BacktestInv /\ [BacktestNext]_backtestVars => BacktestInv'
<1> SUFFICES ASSUME BacktestInv, [BacktestNext]_backtestVars PROVE BacktestInv'
  OBVIOUS
<1>1. CASE EndOfData \/ UNCHANGED backtestVars
  <2>1. UNCHANGED <<engine, calendar, left, exit>>
    BY <1>1 DEF EndOfData, backtestVars
  <2>2. over' \in BOOLEAN
    BY <1>1, Zenon DEF EndOfData, backtestVars, BacktestInv
  <2>3. DOMAIN book' = AssetSet /\ \A x \in AssetSet : book'[x] = Flat \/ book'[x] \in OpenTrades
    BY <1>1 DEF EndOfData, backtestVars, BacktestInv
  <2>4. FillsAreReachable'
    BY <2>1, Zenon DEF BacktestInv, FillsAreReachable
  <2>5. left' \subseteq Timeline'
    BY <2>1 DEF BacktestInv, Timeline
  <2> QED BY <2>2, <2>3, <2>4, <2>5 DEF BacktestInv
<1>2. CASE \E b \in left, bar \in Bars : Replay(b, bar)
  BY <1>2, ReplayKeeps
<1> QED BY <1>1, <1>2 DEF BacktestNext

(* On every stream of bars, whatever the strategy proposes and however the *)
(* stop trails, run_backtest gets no trade out at a price better than its  *)
(* bar offered, and no stopped one better than the open (engine.py:3-17).  *)
THEOREM BacktestIsPessimistic == BacktestSpec => []FillsAreReachable
<1>1. BacktestInv => FillsAreReachable
  BY DEF BacktestInv
<1> QED BY BacktestInitially, BacktestStep, <1>1, PTL DEF BacktestSpec

(* A trade is open on one side, and for fewer bars than the time stop.     *)
THEOREM BacktestTypeCorrect == BacktestSpec => []BacktestTypeOK
<1>1. BacktestInv => BacktestTypeOK
  BY DEF BacktestInv, BacktestTypeOK, OpenTrades
<1> QED BY BacktestInitially, BacktestStep, <1>1, PTL DEF BacktestSpec

----------------------------------------------------------------------------
(* The feeds: enumerations in order.                                       *)

(* What a finite set is mapped onto is no larger.                          *)
LEMMA ImageIsNoLarger ==
    ASSUME NEW S, IsFiniteSet(S), NEW T, NEW f \in [S -> T], \A t \in T : \E s \in S : f[s] = t
    PROVE  /\ IsFiniteSet(T) /\ Cardinality(T) \in Nat /\ Cardinality(S) \in Nat
           /\ Cardinality(T) <= Cardinality(S)
<1>1. f \in Surjection(S, T)
  BY DEF Surjection
<1>2. IsFiniteSet(T) /\ Cardinality(T) <= Cardinality(S)
  BY <1>1, FS_Surjection
<1> QED BY <1>2, FS_CardinalityType

(* A set of positive numbers, listed from the least on.                    *)
LEMMA AscendingExists ==
    ASSUME NEW m \in Nat, NEW S \in SUBSET (1..m)
    PROVE  \E s \in SetToSeqs(S) : Ascending(s)
<1> DEFINE Lists(s, k) == /\ s \in Seq(S) /\ Ascending(s)
                          /\ \A i \in 1..Len(s) : s[i] <= k
                          /\ \A x \in S : x <= k => \E i \in 1..Len(s) : s[i] = x
           P == {k \in 0..m : \E s : Lists(s, k)}
<1>1. 0 \in P
  <2>1. <<>> \in Seq(S) /\ Len(<<>>) = 0 /\ DOMAIN <<>> = 1..0
    BY EmptySeq, LenProperties
  <2>2. Lists(<<>>, 0)
    BY <2>1 DEF Ascending
  <2>3. 0 \in 0..m
    OBVIOUS
  <2> HIDE DEF Lists
  <2> QED BY <2>2, <2>3
<1>2. ASSUME NEW k \in 1..m, k - 1 \in P PROVE k \in P
  <2>1. PICK s : Lists(s, k - 1)
    BY <1>2
  <2>2. s \in Seq(S) /\ Len(s) \in Nat /\ DOMAIN s = 1..Len(s)
        /\ \A i \in 1..Len(s) : s[i] \in S /\ s[i] \in 1..m
    BY <2>1, LenProperties, ElementOfSeq
  <2>3. CASE k \notin S
    <3>1. Lists(s, k)
      BY <2>1, <2>2, <2>3
    <3> QED BY <3>1
  <2>4. CASE k \in S
    <3> DEFINE t == Append(s, k)
               n == Len(s)
    <3>1. /\ t \in Seq(S) /\ Len(t) = n + 1 /\ t[n + 1] = k
          /\ \A i \in 1..n : t[i] = s[i]
      BY <2>2, <2>4, AppendProperties
    <3>2. DOMAIN t = 1..n + 1
      BY <3>1, LenProperties
    <3> HIDE DEF t
    <3>3. \A i \in 1..n : t[i] \in 1..m /\ t[i] <= k - 1
      BY <2>1, <2>2, <3>1
    <3>4. \A i \in 1..n + 1 : i \in 1..n \/ i = n + 1
      BY <2>2
    <3>5. Ascending(t)
      <4>1. ASSUME NEW i \in 1..n + 1, NEW j \in 1..n + 1, i < j PROVE t[i] < t[j]
        <5>1. i \in 1..n
          BY <2>2, <4>1
        <5>2. CASE j = n + 1
          BY <3>1, <3>3, <5>1, <5>2
        <5>3. CASE j \in 1..n
          BY <2>1, <2>2, <3>1, <4>1, <5>1, <5>3 DEF Ascending
        <5> QED BY <3>4, <5>2, <5>3
      <4> QED BY <3>2, <4>1 DEF Ascending
    <3>6. \A i \in 1..Len(t) : t[i] <= k
      BY <3>1, <3>3, <3>4
    <3>7. ASSUME NEW x \in S, x <= k PROVE \E i \in 1..Len(t) : t[i] = x
      <4>1. CASE x = k
        BY <2>2, <3>1, <4>1
      <4>2. CASE x # k
        <5>1. x <= k - 1
          BY <3>7, <4>2
        <5>2. PICK i \in 1..n : s[i] = x
          BY <2>1, <5>1
        <5> QED BY <2>2, <3>1, <5>2
      <4> QED BY <4>1, <4>2
    <3>8. Lists(t, k)
      BY <3>1, <3>5, <3>6, <3>7
    <3> QED BY <3>8
  <2> QED BY <2>3, <2>4
<1>3. m \in P
  <2> HIDE DEF P
  <2>1. \A k \in 0..m : k \in P
    BY <1>1, <1>2, StepsReach
  <2> QED BY <2>1
<1>4. PICK s : Lists(s, m)
  BY <1>3
<1> DEFINE n == Len(s)
<1>5. n \in Nat /\ s \in [1..n -> S] /\ DOMAIN s = 1..n
  BY <1>4, LenProperties
<1>6. \A x \in S : \E i \in 1..n : s[i] = x
  BY <1>4
<1>7. \A i, j \in 1..n : i # j => s[i] # s[j]
  <2>1. ASSUME NEW i \in 1..n, NEW j \in 1..n, i < j PROVE s[i] # s[j]
    <3>1. s[i] < s[j] /\ s[i] \in 1..m /\ s[j] \in 1..m
      BY <1>4, <1>5, <2>1 DEF Ascending
    <3> QED BY <3>1
  <2>2. \A i, j \in 1..n : i # j => i < j \/ j < i
    BY <1>5
  <2> QED BY <2>1, <2>2
<1>8. Ascending(s)
  BY <1>4
<1> HIDE DEF n
<1>9. Cardinality(S) = n
  <2>1. s \in Surjection(1..n, S)
    BY <1>5, <1>6 DEF Surjection
  <2>2. s \in Injection(1..n, S)
    BY <1>5, <1>7 DEF Injection, IsInjective
  <2>3. IsFiniteSet(1..n) /\ Cardinality(1..n) = n
    BY <1>5, FS_Interval
  <2> QED BY <2>1, <2>2, <2>3, FS_Surjection
<1>10. s \in SetToSeqs(S)
  BY <1>5, <1>7, <1>9, Zenon DEF SetToSeqs
<1> QED BY <1>8, <1>10

LEMMA InOrderLists ==
    ASSUME NEW m \in Nat, NEW S \in SUBSET (1..m)
    PROVE  LET s == InOrder(S)
           IN  /\ s \in Seq(S) /\ Len(s) \in Nat
               /\ \A x \in S : \E i \in 1..Len(s) : s[i] = x
               /\ \A i, j \in 1..Len(s) : i < j => s[i] < s[j]
<1> DEFINE s == InOrder(S)
<1>1. s \in SetToSeqs(S) /\ Ascending(s)
  BY AscendingExists, Zenon DEF InOrder
<1>2. IsFiniteSet(S)
  <2>1. IsFiniteSet(1..m) /\ S \subseteq 1..m
    BY FS_Interval
  <2> QED BY <2>1, FS_Subset
<1> HIDE DEF s
<1>3. /\ s \in Seq(S) /\ \A x \in S : \E i \in 1..Len(s) : s[i] = x
  BY <1>1, <1>2, SetToSeqsList
<1>4. Len(s) \in Nat /\ DOMAIN s = 1..Len(s)
  BY <1>3, LenProperties
<1>5. \A i, j \in 1..Len(s) : i < j => s[i] < s[j]
  BY <1>1, <1>4 DEF Ascending
<1> QED BY <1>3, <1>4, <1>5 DEF s


(* A page lists, in order, every candle from its first one on when it is    *)
(* the latest page, or from the time asked for, up to its last one.         *)
LEMMA PageLists ==
    ASSUME newest \in Candles, NEW since \in Nat, NEW limit \in Nat
    PROVE  LET p == Page(since, limit)
               n == Len(p)
           IN  /\ p \in Seq(Candles) /\ n \in Nat
               /\ \A i \in 1..n : p[i] \in Listed /\ since <= p[i]
               /\ \A i, j \in 1..n : i < j => p[i] < p[j]
               /\ \A t \in Listed :
                     /\ n > 0 /\ t <= p[n]
                     /\ IF since = 0 THEN p[1] <= t ELSE since <= t
                     => \E i \in 1..n : p[i] = t
<1> DEFINE T == {t \in Listed : t >= since}
           all == InOrder(T)
           k == Len(all)
           n == IF k < limit THEN k ELSE limit
           p == Page(since, limit)
<1>1. newest \in Nat /\ T \in SUBSET (1..newest) /\ \A t \in T : t \in Candles
  BY FeedsAssumption DEF Listed, Candles
<1>2. /\ all \in Seq(T) /\ k \in Nat /\ \A x \in T : \E i \in 1..k : all[i] = x
      /\ \A i, j \in 1..k : i < j => all[i] < all[j]
  <2> HIDE DEF T
  <2> QED BY <1>1, InOrderLists
<1>3. \A i \in 1..k : all[i] \in T
  BY <1>2, ElementOfSeq
<1>4. \A i \in 1..k : all[i] \in Candles /\ all[i] \in Listed /\ since <= all[i] /\ all[i] \in Nat
  <2>1. \A t \in T : t \in Candles /\ t \in Listed /\ since <= t /\ t \in Nat
    BY <1>1 DEF Candles
  <2> QED BY <1>3, <2>1
<1>5. n \in 0..k
  BY <1>2
<1>6. p = IF since = 0 THEN SubSeq(all, k - n + 1, k) ELSE SubSeq(all, 1, n)
  BY Zenon DEF Page
<1> HIDE DEF p, n
<1>7. \A t \in Listed : since <= t => \E i \in 1..k : all[i] = t
  <2>1. \A t \in Listed : since <= t => t \in T
    BY DEF Listed
  <2> QED BY <1>2, <2>1
<1> HIDE DEF all, T
<1>8. CASE since = 0
  <2> DEFINE b == k - n
  <2>1. p = SubSeq(all, b + 1, k) /\ b \in 0..k /\ b + n = k
    BY <1>2, <1>5, <1>6, <1>8
  <2>2. \A i \in b + 1..k : i \in 1..k
    BY <1>2, <2>1
  <2> HIDE DEF b
  <2>3. p \in Seq(Candles) /\ Len(p) = n /\ \A i \in 1..n : p[i] = all[b + i]
    <3>1. b + 1 \in Int /\ k \in Int /\ \A i \in b + 1..k : all[i] \in Candles
      BY <1>2, <1>4, <2>1, <2>2
    <3>2. /\ p \in Seq(Candles) /\ Len(p) = IF b + 1 <= k THEN k - (b + 1) + 1 ELSE 0
          /\ \A i \in 1..k - (b + 1) + 1 : p[i] = all[b + 1 + i - 1]
      BY <2>1, <3>1, SubSeqProperties
    <3> QED BY <1>2, <1>5, <2>1, <3>2
  <2>4. \A i \in 1..n : b + i \in 1..k
    BY <1>2, <1>5, <2>1
  <2>5. \A i, j \in 1..n : i < j => p[i] < p[j]
    <3>1. ASSUME NEW i \in 1..n, NEW j \in 1..n, i < j PROVE p[i] < p[j]
      <4>1. b + i < b + j
        BY <1>5, <2>1, <3>1
      <4>2. all[b + i] < all[b + j]
        BY <1>2, <2>4, <4>1
      <4> QED BY <2>3, <4>2
    <3> QED BY <3>1
  <2>6. ASSUME NEW t \in Listed, n > 0, p[1] <= t
        PROVE  \E i \in 1..n : p[i] = t
    <3>1. 1 \in 1..n /\ t \in Nat
      BY <1>1, <1>5, <2>6 DEF Listed
    <3>2. PICK i \in 1..k : all[i] = t
      BY <1>7, <1>8, <3>1
    <3>3. ~(i < b + 1)
      <4>1. b + 1 \in 1..k /\ p[1] = all[b + 1] /\ all[b + 1] \in Nat
        BY <1>4, <2>3, <2>4, <3>1
      <4>2. i < b + 1 => all[i] < all[b + 1]
        BY <1>2, <3>2, <4>1
      <4>3. all[i] = t /\ all[b + 1] <= t /\ t \in Nat
        BY <2>6, <3>1, <3>2, <4>1
      <4> QED BY <4>1, <4>2, <4>3
    <3>4. i - b \in 1..n /\ b + (i - b) = i
      BY <1>2, <1>5, <2>1, <3>3
    <3> QED BY <2>3, <3>2, <3>4
  <2>7. \A i \in 1..n : p[i] \in Listed /\ since <= p[i]
    BY <1>4, <2>3, <2>4
  <2> QED BY <1>5, <1>8, <2>3, <2>5, <2>6, <2>7 DEF p
<1>9. CASE since # 0
  <2>1. p = SubSeq(all, 1, n) /\ n \in Int
    BY <1>5, <1>6, <1>9
  <2>2. \A i \in 1..n : i \in 1..k
    BY <1>2, <1>5
  <2>3. p \in Seq(Candles) /\ Len(p) = n /\ \A i \in 1..n : p[i] = all[i]
    <3>1. \A i \in 1..n : all[i] \in Candles
      BY <1>4, <2>2
    <3>2. /\ p \in Seq(Candles) /\ Len(p) = IF 1 <= n THEN n - 1 + 1 ELSE 0
          /\ \A i \in 1..n - 1 + 1 : p[i] = all[1 + i - 1]
      BY <2>1, <3>1, SubSeqProperties
    <3> QED BY <1>5, <3>2
  <2>4. \A i, j \in 1..n : i < j => p[i] < p[j]
    BY <1>2, <2>2, <2>3
  <2>5. ASSUME NEW t \in Listed, n > 0, t <= p[n], since <= t
        PROVE  \E i \in 1..n : p[i] = t
    <3>1. n \in 1..n /\ t \in Nat
      BY <1>1, <1>5, <2>5 DEF Listed
    <3>2. PICK i \in 1..k : all[i] = t
      BY <1>7, <2>5
    <3>3. ~(n < i)
      <4>1. n \in 1..k /\ p[n] = all[n] /\ all[n] \in Nat
        BY <1>4, <2>2, <2>3, <3>1
      <4>2. n < i => all[n] < all[i]
        BY <1>2, <3>2, <4>1
      <4>3. all[i] = t /\ t <= all[n] /\ t \in Nat
        BY <2>5, <3>1, <3>2, <4>1
      <4> QED BY <4>1, <4>2, <4>3
    <3>4. i \in 1..n
      BY <1>2, <1>5, <3>3
    <3> QED BY <2>3, <3>2, <3>4
  <2>6. \A i \in 1..n : p[i] \in Listed /\ since <= p[i]
    BY <1>4, <2>2, <2>3
  <2> QED BY <1>5, <1>9, <2>3, <2>4, <2>5, <2>6 DEF p
<1> QED BY <1>8, <1>9

(* What a push sheds is counted, and nothing else leaves the buffer.       *)
LEMMA PushKeeps ==
    ASSUME buffer \in Seq(Candle), shed \in Nat, NEW new \in Seq(Candle), Push(new)
    PROVE  /\ buffer' \in Seq(Candle) /\ Len(buffer') <= MaxLen
           /\ shed' \in Nat /\ shed <= shed'
           /\ \E D \in SUBSET Candle :
                 /\ IsFiniteSet(D) /\ Cardinality(D) \in Nat
                 /\ Cardinality(D) <= shed' - shed
                 /\ ToSet(buffer) \cup ToSet(new) \subseteq ToSet(buffer') \cup D
<1> DEFINE all == buffer \o new
           n == Len(all)
           b == n - MaxLen
<1>1. /\ all \in Seq(Candle) /\ n = Len(buffer) + Len(new)
      /\ Len(buffer) \in Nat /\ Len(new) \in Nat
      /\ \A i \in 1..Len(buffer) : all[i] = buffer[i]
      /\ \A i \in 1..Len(new) : all[Len(buffer) + i] = new[i]
  <2>1. Len(buffer) \in Nat /\ Len(new) \in Nat
    BY LenProperties
  <2>2. /\ all \in Seq(Candle) /\ Len(all) = Len(buffer) + Len(new)
        /\ \A i \in 1..Len(buffer) + Len(new) :
              all[i] = IF i <= Len(buffer) THEN buffer[i] ELSE new[i - Len(buffer)]
    BY ConcatProperties
  <2> HIDE DEF all
  <2>3. \A i \in 1..Len(buffer) : i \in 1..Len(buffer) + Len(new) /\ i <= Len(buffer)
    BY <2>1
  <2>4. \A i \in 1..Len(new) : /\ Len(buffer) + i \in 1..Len(buffer) + Len(new)
                               /\ ~(Len(buffer) + i <= Len(buffer))
                               /\ Len(buffer) + i - Len(buffer) = i
    BY <2>1
  <2>5. \A i \in 1..Len(buffer) : all[i] = buffer[i]
    BY <2>2, <2>3
  <2>6. \A i \in 1..Len(new) : all[Len(buffer) + i] = new[i]
    BY <2>2, <2>4
  <2> QED BY <2>1, <2>2, <2>5, <2>6
<1>2. n \in Nat /\ MaxLen \in Nat \ {0} /\ \A i \in 1..n : all[i] \in Candle
  BY <1>1, LenProperties, ElementOfSeq, FeedsAssumption
<1>3. \A c \in ToSet(buffer) \cup ToSet(new) : \E i \in 1..n : all[i] = c
  <2>1. DOMAIN buffer = 1..Len(buffer) /\ DOMAIN new = 1..Len(new)
    BY LenProperties
  <2>2. ASSUME NEW c \in ToSet(buffer) PROVE \E i \in 1..n : all[i] = c
    <3>1. PICK i \in 1..Len(buffer) : buffer[i] = c
      BY <2>1 DEF ToSet
    <3> QED BY <1>1, <3>1
  <2>3. ASSUME NEW c \in ToSet(new) PROVE \E i \in 1..n : all[i] = c
    <3>1. PICK i \in 1..Len(new) : new[i] = c
      BY <2>1 DEF ToSet
    <3>2. Len(buffer) + i \in 1..n
      BY <1>1
    <3> QED BY <1>1, <3>1, <3>2
  <2> QED BY <2>2, <2>3
<1>4. IF n > MaxLen THEN buffer' = SubSeq(all, b + 1, n) /\ shed' = shed + b
                    ELSE buffer' = all /\ shed' = shed
  BY DEF Push
<1> HIDE DEF all, n, b
<1>5. CASE ~(n > MaxLen)
  <2>1. buffer' = all /\ shed' = shed /\ DOMAIN all = 1..n
    BY <1>1, <1>4, <1>5, LenProperties DEF n
  <2>2. ToSet(buffer) \cup ToSet(new) \subseteq ToSet(buffer')
    BY <1>3, <2>1 DEF ToSet
  <2>3. IsFiniteSet({}) /\ Cardinality({}) = 0
    BY FS_EmptySet
  <2>4. {} \in SUBSET Candle /\ Cardinality({}) \in Nat /\ Cardinality({}) <= shed' - shed
        /\ ToSet(buffer) \cup ToSet(new) \subseteq ToSet(buffer') \cup {}
    BY <2>1, <2>2, <2>3
  <2>5. Len(buffer') <= MaxLen
    BY <1>2, <1>5, <2>1 DEF n
  <2> QED BY <1>1, <2>1, <2>3, <2>4, <2>5
<1>6. CASE n > MaxLen
  <2>1. buffer' = SubSeq(all, b + 1, n) /\ shed' = shed + b /\ b \in 1..n /\ n - b = MaxLen
    BY <1>2, <1>4, <1>6 DEF b
  <2>2. /\ buffer' \in Seq(Candle) /\ Len(buffer') = MaxLen
        /\ \A i \in b + 1..n : \E j \in 1..Len(buffer') : buffer'[j] = all[i]
    <3>1. b + 1 \in Int /\ n \in Int /\ \A i \in b + 1..n : all[i] \in Candle
      BY <1>2, <2>1
    <3>2. /\ buffer' \in Seq(Candle) /\ Len(buffer') = IF b + 1 <= n THEN n - (b + 1) + 1 ELSE 0
          /\ \A i \in 1..n - (b + 1) + 1 : buffer'[i] = all[b + 1 + i - 1]
      BY <2>1, <3>1, SubSeqProperties
    <3>3. Len(buffer') = MaxLen
      BY <1>2, <2>1, <3>2
    <3>4. \A i \in b + 1..n : /\ i - b \in 1..n - (b + 1) + 1 /\ i - b \in 1..MaxLen
                              /\ b + 1 + (i - b) - 1 = i
      BY <1>2, <2>1
    <3> QED BY <3>2, <3>3, <3>4
  <2> DEFINE f == [i \in 1..b |-> all[i]]
             D == {all[i] : i \in 1..b}
  <2>3. f \in [1..b -> D] /\ \A d \in D : \E i \in 1..b : f[i] = d
    OBVIOUS
  <2>4. IsFiniteSet(1..b) /\ Cardinality(1..b) = b
    BY <2>1, FS_Interval
  <2>5. D \in SUBSET Candle
    BY <1>2, <2>1
  <2>6. ToSet(buffer) \cup ToSet(new) \subseteq ToSet(buffer') \cup D
    <3>1. DOMAIN buffer' = 1..Len(buffer')
      BY <2>2, LenProperties
    <3>2. ASSUME NEW c \in ToSet(buffer) \cup ToSet(new) PROVE c \in ToSet(buffer') \cup D
      <4>1. PICK i \in 1..n : all[i] = c
        BY <1>3
      <4>2. i \in 1..b \/ i \in b + 1..n
        BY <1>2, <2>1
      <4> QED BY <2>2, <3>1, <4>1, <4>2 DEF ToSet
    <3> QED BY <3>2
  <2> HIDE DEF f, D
  <2>7. IsFiniteSet(D) /\ Cardinality(D) \in Nat /\ Cardinality(D) <= b
    BY <2>3, <2>4, ImageIsNoLarger
  <2>8. shed' - shed = b /\ shed' \in Nat /\ shed <= shed'
    BY <1>2, <2>1
  <2>9. Cardinality(D) <= shed' - shed /\ Len(buffer') <= MaxLen
    BY <1>2, <2>2, <2>7, <2>8
  <2> QED BY <2>2, <2>5, <2>6, <2>7, <2>8, <2>9
<1> QED BY <1>5, <1>6


LEMMA FinitePart ==
    ASSUME NEW n \in Nat, NEW S \in SUBSET (1..n)
    PROVE  IsFiniteSet(S) /\ Cardinality(S) \in Nat
<1>1. IsFiniteSet(1..n) /\ S \subseteq 1..n
  BY FS_Interval
<1> QED BY <1>1, FS_Subset, FS_CardinalityType

Polls == [kind : {"watch", "poll"}, pc : {"receive", "sleep", "backoff", "stopped", "died"},
          since : 0..LastCandle, attempt : 0..MaxExponent + 1]
Fetches == [pc : {"idle", "page", "done", "failed"}, from : 0..LastCandle, cursor : 0..LastCandle,
            seen : SUBSET Candles, until : 0..LastCandle, pages : Nat]

PollPlaces == {"receive", "sleep", "backoff", "stopped", "died"}

LEMMA PollMoves ==
    ASSUME NEW q \in Polls, NEW p \in PollPlaces
    PROVE  LET r == [q EXCEPT !.pc = p]
           IN  r \in Polls /\ r.since = q.since /\ r.kind = q.kind
BY DEF Polls, PollPlaces

LEMMA PollRetries ==
    ASSUME NEW q \in Polls, NEW a \in 0..MaxExponent + 1
    PROVE  LET r == [q EXCEPT !.attempt = a]
           IN  r \in Polls /\ r.since = q.since /\ r.kind = q.kind
BY DEF Polls

LEMMA PollWaits ==
    ASSUME NEW q \in Polls, NEW p \in PollPlaces, NEW a \in 0..MaxExponent + 1
    PROVE  LET r == [q EXCEPT !.pc = p, !.attempt = a]
           IN  r \in Polls /\ r.since = q.since /\ r.kind = q.kind
BY DEF Polls, PollPlaces

(* Closed candles the loop moved past that did not arrive.                 *)
Lost == {t \in Listed : /\ first <= t /\ t < poll.since
                        /\ [open |-> t, closed |-> TRUE] \notin Delivered}

(* The cursor points to a candle, from the first one on.                   *)
CursorInv ==
    /\ poll.since <= newest
    /\ poll.kind = "poll" => (first = 0 <=> poll.since = 0)
    /\ poll.kind = "poll" /\ first > 0 => Cardinality(Lost) <= shed

FeedsInv == FeedsTypeOK /\ CursorInv

LEMMA LostIsFinite ==
    ASSUME FeedsTypeOK
    PROVE  IsFiniteSet(Lost) /\ Cardinality(Lost) \in Nat
<1>1. newest \in Nat /\ Lost \in SUBSET (1..newest)
  BY FeedsAssumption DEF FeedsTypeOK, Candles, Lost, Listed
<1> HIDE DEF Lost
<1> QED BY <1>1, FinitePart

LEMMA FeedsInitially == FeedsInit => FeedsInv
<1> SUFFICES ASSUME FeedsInit PROVE FeedsInv
  OBVIOUS
<1>1. LastCandle \in Nat \ {0} /\ MaxExponent \in Nat /\ MaxLen \in Nat /\ 1 \in Candles
      /\ Skippable \subseteq Candles
  BY FeedsAssumption DEF Candles
<1>2. buffer = <<>> /\ <<>> \in Seq(Candle) /\ Len(<<>>) = 0
  BY EmptySeq DEF FeedsInit
<1>3. PICK kind \in {"watch", "poll"} :
         poll = [kind |-> kind, pc |-> "receive", since |-> 0, attempt |-> 0]
  BY DEF FeedsInit
<1>4. FeedsTypeOK
  BY <1>1, <1>2, <1>3 DEF FeedsInit, FeedsTypeOK
<1>5. poll.since = 0 /\ first = 0 /\ newest = 1
  BY <1>3 DEF FeedsInit
<1>6. CursorInv
  BY <1>5 DEF CursorInv
<1> QED BY <1>4, <1>6 DEF FeedsInv

(* A page that was pushed leaves no candle behind uncounted.               *)
LEMMA PollKeeps ==
    ASSUME FeedsInv, PollReceives
    PROVE  FeedsInv'
<1> DEFINE times == Page(poll.since, VenueLimit)
           n == Len(times)
           shut == Closed(times)
           new == AsOfNow(shut)
<1>1. FeedsTypeOK /\ CursorInv
  BY DEF FeedsInv
<1>2. /\ newest \in Candles /\ newest \in Nat /\ poll \in Polls /\ buffer \in Seq(Candle)
      /\ shed \in Nat /\ first \in 0..LastCandle /\ poll.since \in Nat /\ poll.kind = "poll"
      /\ VenueLimit \in Nat /\ LastCandle \in Nat /\ MaxExponent \in Nat
  <2>1. VenueLimit \in Nat /\ LastCandle \in Nat /\ MaxExponent \in Nat
    BY FeedsAssumption
  <2>2. /\ newest \in Candles /\ poll \in Polls /\ buffer \in Seq(Candle)
        /\ shed \in Nat /\ first \in 0..LastCandle
    BY <1>1 DEF FeedsTypeOK, Polls
  <2>3. newest \in Nat
    BY <2>1, <2>2 DEF Candles
  <2>4. poll.since \in Nat
    BY <2>1, <2>2 DEF Polls
  <2>5. poll.kind = "poll"
    BY DEF PollReceives
  <2> QED BY <2>1, <2>2, <2>3, <2>4, <2>5
<1>3. UNCHANGED <<newest, skipped, beaten, fetch, ohlcv>>
  BY DEF PollReceives, fetchVars
<1>4. /\ times \in Seq(Candles) /\ n \in Nat
      /\ \A i \in 1..n : times[i] \in Listed /\ poll.since <= times[i]
      /\ \A i, j \in 1..n : i < j => times[i] < times[j]
      /\ \A t \in Listed :
            /\ n > 0 /\ t <= times[n]
            /\ IF poll.since = 0 THEN times[1] <= t ELSE poll.since <= t
            => \E i \in 1..n : times[i] = t
  BY <1>2, PageLists
<1>5. CASE times = <<>>
  <2>1. poll' = [poll EXCEPT !.pc = "sleep", !.attempt = 0] /\ UNCHANGED <<buffer, shed, first>>
    BY <1>5 DEF PollReceives
  <2>2. poll' \in Polls /\ poll'.since = poll.since /\ poll'.kind = poll.kind
    <3>1. "sleep" \in PollPlaces /\ 0 \in 0..MaxExponent + 1 /\ 0 \in 0..LastCandle
      BY <1>2 DEF PollPlaces
    <3> DEFINE r == [poll EXCEPT !.pc = "sleep", !.attempt = 0]
    <3>2. poll \in Polls
      BY <1>2
    <3>3. r \in Polls /\ r.since = poll.since /\ r.kind = poll.kind
      BY <3>1, <3>2, PollWaits
    <3> QED BY <2>1, <3>3
  <2>3. FeedsTypeOK'
    BY <1>1, <1>3, <2>1, <2>2 DEF FeedsTypeOK, Polls
  <2>4. CursorInv'
    BY <1>1, <1>3, <2>1, <2>2 DEF CursorInv, Lost, Listed, Delivered
  <2> QED BY <2>3, <2>4 DEF FeedsInv
<1>6. CASE times # <<>>
  <2>1. n \in Nat /\ n > 0 /\ 1 \in 1..n /\ n \in 1..n
    <3>1. n \in Nat \ {0}
      BY <1>4, <1>6, EmptySeq
    <3> QED BY <3>1
  <2>2. /\ poll' = [poll EXCEPT !.pc = "sleep", !.attempt = 0, !.since = times[n]]
        /\ Push(new)
        /\ first' = IF first = 0 THEN times[1] ELSE first
    BY <1>6 DEF PollReceives, Cursor
  <2>3. \A i \in 1..n : times[i] \in 1..newest /\ times[i] \in Candles /\ times[i] \in Nat
    BY <1>2, <1>4 DEF Listed, Candles
  <2>4. /\ shut \in Seq(Candles) /\ Len(shut) \in 1..n
        /\ \A i \in 1..Len(shut) : shut[i] = times[i]
        /\ \A i \in 1..n : i < n => i \in 1..Len(shut)
    <3>1. CASE n > 1
      <4>1. shut = SubSeq(times, 1, n - 1)
        BY <3>1 DEF Closed
      <4>2. 1 \in Int /\ n - 1 \in Int /\ \A i \in 1..n - 1 : times[i] \in Candles
        BY <2>1, <2>3
      <4> HIDE DEF shut, times, n
      <4>3. /\ shut \in Seq(Candles) /\ Len(shut) = IF 1 <= n - 1 THEN n - 1 - 1 + 1 ELSE 0
            /\ \A i \in 1..n - 1 - 1 + 1 : shut[i] = times[1 + i - 1]
        BY <4>1, <4>2, SubSeqProperties
      <4>4. Len(shut) = n - 1
        BY <2>1, <3>1, <4>3
      <4>5. \A i \in 1..n - 1 : shut[i] = times[i]
        BY <2>1, <4>3
      <4>6. n - 1 \in 1..n /\ \A i \in 1..n : i < n => i \in 1..n - 1
        BY <2>1, <3>1
      <4> QED BY <4>3, <4>4, <4>5, <4>6
    <3>2. CASE ~(n > 1)
      <4>1. shut = times
        BY <3>2 DEF Closed
      <4> HIDE DEF shut
      <4> QED BY <1>4, <2>1, <4>1
    <3> QED BY <3>1, <3>2
  <2>5. /\ new \in Seq(Candle)
        /\ \A i \in 1..Len(shut) : [open |-> times[i], closed |-> times[i] < newest] \in ToSet(new)
    <3>1. DOMAIN shut = 1..Len(shut) /\ Len(shut) \in Nat /\ \A i \in 1..Len(shut) : i \in 1..n
      BY <2>1, <2>4, LenProperties
    <3>2. new = [i \in 1..Len(shut) |-> [open |-> shut[i], closed |-> shut[i] < newest]]
      BY <3>1 DEF AsOfNow
    <3>3. \A i \in 1..Len(shut) : shut[i] = times[i] /\ shut[i] \in Candles
      BY <2>3, <2>4, <3>1
    <3> HIDE DEF new, shut, times, n
    <3>4. \A i \in 1..Len(shut) : [open |-> shut[i], closed |-> shut[i] < newest] \in Candle
      BY <3>3 DEF Candle
    <3>5. new \in [1..Len(shut) -> Candle] /\ DOMAIN new = 1..Len(shut)
      BY <3>2, <3>4
    <3>6. new \in Seq(Candle)
      BY <3>1, <3>5, SeqDef
    <3>7. \A i \in 1..Len(shut) :
             new[i] = [open |-> times[i], closed |-> times[i] < newest] /\ new[i] \in ToSet(new)
      BY <3>2, <3>3, <3>5 DEF ToSet
    <3> QED BY <3>6, <3>7
  <2>6. /\ buffer' \in Seq(Candle) /\ Len(buffer') <= MaxLen
        /\ shed' \in Nat /\ shed <= shed'
        /\ \E D \in SUBSET Candle :
              /\ IsFiniteSet(D) /\ Cardinality(D) \in Nat
              /\ Cardinality(D) <= shed' - shed
              /\ ToSet(buffer) \cup ToSet(new) \subseteq ToSet(buffer') \cup D
    <3> HIDE DEF new
    <3> QED BY <1>2, <2>2, <2>5, PushKeeps
  <2>7. PICK D \in SUBSET Candle :
           /\ IsFiniteSet(D) /\ Cardinality(D) \in Nat
           /\ Cardinality(D) <= shed' - shed
           /\ ToSet(buffer) \cup ToSet(new) \subseteq ToSet(buffer') \cup D
    BY <2>6
  <2> DEFINE O == {d.open : d \in D}
             f == [d \in D |-> d.open]
  <2>8. IsFiniteSet(O) /\ Cardinality(O) \in Nat /\ Cardinality(O) <= Cardinality(D)
    <3>1. f \in [D -> O] /\ \A o \in O : \E d \in D : f[d] = o
      OBVIOUS
    <3> HIDE DEF f, O
    <3> QED BY <2>7, <3>1, ImageIsNoLarger
  <2>9. poll' \in Polls /\ poll'.since = times[n] /\ poll'.kind = "poll"
    <3> DEFINE last == times[n]
               r == [poll EXCEPT !.pc = "sleep", !.attempt = 0, !.since = last]
    <3>1. "sleep" \in PollPlaces /\ 0 \in 0..MaxExponent + 1 /\ last \in 0..LastCandle
      BY <1>2, <2>1, <2>3 DEF PollPlaces, Candles
    <3>2. poll' = r /\ poll.kind = "poll" /\ poll \in Polls
      BY <1>2, <2>2
    <3> HIDE DEF last
    <3>3. r \in Polls /\ r.since = last /\ r.kind = poll.kind
      <4>1. poll \in Polls /\ "sleep" \in PollPlaces
        BY <3>1, <3>2
      <4>2. 0 \in 0..MaxExponent + 1 /\ last \in 0..LastCandle
        BY <3>1
      <4> QED BY <4>1, <4>2 DEF Polls, PollPlaces
    <3>4. poll'.since = last
      BY <3>2, <3>3
    <3>5. poll' \in Polls /\ poll'.kind = "poll"
      BY <3>2, <3>3
    <3> QED BY <3>4, <3>5 DEF last
  <2>10. first' \in 0..LastCandle
    BY <1>2, <2>1, <2>2, <2>3 DEF Candles
  <2>11. FeedsTypeOK'
    BY <1>1, <1>3, <2>6, <2>9, <2>10 DEF FeedsTypeOK, Polls
  <2>12. (first' = 0 <=> poll'.since = 0) /\ poll'.since <= newest'
    BY <1>2, <1>3, <2>1, <2>2, <2>3, <2>9
  <2> HIDE DEF new, shut, O, f
  <2>13. ASSUME NEW t \in Lost'
         PROVE  t \in O \/ (first > 0 /\ t \in Lost)
    <3> DEFINE c == [open |-> t, closed |-> TRUE]
    <3>1. t \in Listed /\ first' <= t /\ t < times[n] /\ c \notin beaten /\ c \notin ToSet(buffer')
          /\ t \in Nat
      <4>1. t \in Listed /\ first' <= t /\ t < poll'.since /\ c \notin beaten \cup ToSet(buffer')
        BY <1>3, <2>13 DEF Lost, Listed, Delivered
      <4>2. t \in Nat
        BY <1>2, <4>1 DEF Listed
      <4> QED BY <2>9, <4>1, <4>2
    <3>2. c \in ToSet(buffer) \cup ToSet(new) => t \in O
      <4>1. SUFFICES ASSUME c \in ToSet(buffer) \cup ToSet(new) PROVE t \in O
        OBVIOUS
      <4>2. c \in D
        BY <2>7, <3>1, <4>1
      <4>3. c.open = t
        OBVIOUS
      <4> QED BY <4>2, <4>3 DEF O
    <3>3. CASE \E i \in 1..n : times[i] = t
      <4>1. PICK i \in 1..n : times[i] = t
        BY <3>3
      <4>2. i < n
        BY <2>1, <3>1, <4>1
      <4>3. times[i] < newest
        BY <2>1, <2>3, <1>2, <3>1, <4>1
      <4>4. c \in ToSet(new)
        BY <2>4, <2>5, <4>1, <4>2, <4>3
      <4> QED BY <3>2, <4>4
    <3>4. CASE ~\E i \in 1..n : times[i] = t
      <4>1. ~(IF poll.since = 0 THEN times[1] <= t ELSE poll.since <= t)
        BY <1>4, <2>1, <2>3, <3>1, <3>4
      <4>2. poll.since # 0
        <5>1. poll.since = 0 => first' = times[1]
          BY <1>1, <1>2, <2>2 DEF CursorInv
        <5> QED BY <3>1, <4>1, <5>1
      <4>3. first > 0 /\ first' = first /\ t < poll.since
        BY <1>1, <1>2, <2>2, <3>1, <4>1, <4>2 DEF CursorInv
      <4>4. CASE c \in ToSet(buffer)
        BY <3>2, <4>4
      <4>5. CASE c \notin ToSet(buffer)
        BY <3>1, <4>3, <4>5 DEF Lost, Delivered
      <4> QED BY <4>4, <4>5
    <3> QED BY <3>3, <3>4
  <2>14. IsFiniteSet(Lost) /\ Cardinality(Lost) \in Nat
    BY <1>1, LostIsFinite
  <2>15. IsFiniteSet(Lost') /\ Cardinality(Lost') \in Nat
    <3>1. newest' \in Nat /\ Lost' \in SUBSET (1..newest')
      BY <1>2, <1>3 DEF Lost, Listed
    <3> QED BY <3>1, FinitePart
  <2>16. Cardinality(Lost') <= shed'
    <3> DEFINE U == O \cup Lost
               L == Lost
               M == Lost'
    <3>1. CASE first > 0
      <4>1. Cardinality(L) <= shed
        BY <1>1, <1>2, <3>1 DEF CursorInv
      <4>2. M \subseteq U
        BY <2>13
      <4> HIDE DEF L, M
      <4>3. /\ IsFiniteSet(O \cup L)
            /\ Cardinality(O \cup L) = Cardinality(O) + Cardinality(L) - Cardinality(O \cap L)
        BY <2>8, <2>14, FS_Union DEF L
      <4>4. Cardinality(O \cap L) \in Nat
        <5>1. IsFiniteSet(O \cap L)
          BY <2>8, FS_Intersection, <2>14 DEF L
        <5> QED BY <5>1, FS_CardinalityType
      <4>5. Cardinality(M) <= Cardinality(O \cup L)
        BY <4>2, <4>3, FS_Subset DEF L
      <4> QED BY <1>2, <2>6, <2>7, <2>8, <2>14, <2>15, <4>1, <4>3, <4>4, <4>5 DEF L, M
    <3>2. CASE ~(first > 0)
      <4>1. M \subseteq O
        BY <2>13, <3>2
      <4> HIDE DEF M
      <4>2. Cardinality(M) <= Cardinality(O)
        BY <2>8, <4>1, FS_Subset
      <4> QED BY <1>2, <2>6, <2>7, <2>8, <2>15, <4>2 DEF M
    <3> QED BY <3>1, <3>2
  <2>17. CursorInv'
    BY <2>12, <2>16 DEF CursorInv
  <2> QED BY <2>11, <2>17 DEF FeedsInv
<1> QED BY <1>5, <1>6


(* Steps that leave the cursor and what it passed alone.                   *)
LEMMA CursorKeeps ==
    ASSUME FeedsInv, newest' \in Candles, newest <= newest',
           UNCHANGED <<skipped, shed, first>>,
           poll' \in Polls, poll'.since = poll.since, poll'.kind = poll.kind,
           poll.kind = "poll" => Delivered \subseteq Delivered'
    PROVE  CursorInv'
<1>1. FeedsTypeOK /\ CursorInv
  BY DEF FeedsInv
<1>2. newest \in Nat /\ poll.since \in Nat /\ newest' \in Nat
  BY <1>1, FeedsAssumption DEF FeedsTypeOK, Candles
<1>3. poll'.since <= newest'
  BY <1>1, <1>2 DEF CursorInv
<1>4. ASSUME poll.kind = "poll" PROVE Lost' \subseteq Lost
  <2>1. ASSUME NEW t \in Lost' PROVE t \in Lost
    <3>1. /\ t \in (1..newest') \ skipped /\ first <= t /\ t < poll.since
          /\ [open |-> t, closed |-> TRUE] \notin Delivered'
      BY <2>1 DEF Lost, Listed
    <3>2. t \in (1..newest) \ skipped
      BY <1>1, <1>2, <3>1 DEF CursorInv
    <3> QED BY <1>4, <3>1, <3>2 DEF Lost, Listed
  <2> QED BY <2>1
<1>5. ASSUME poll.kind = "poll", first > 0 PROVE Cardinality(Lost') <= shed
  <2>1. IsFiniteSet(Lost) /\ Cardinality(Lost) \in Nat
    BY <1>1, LostIsFinite
  <2> DEFINE L == Lost
             M == Lost'
  <2>2. M \subseteq L
    BY <1>4, <1>5
  <2> HIDE DEF L, M
  <2>3. IsFiniteSet(M) /\ Cardinality(M) <= Cardinality(L) /\ Cardinality(L) \in Nat
    BY <2>1, <2>2, FS_Subset DEF L
  <2>4. Cardinality(M) \in Nat /\ shed \in Nat
    BY <1>1, <2>3, FS_CardinalityType DEF FeedsTypeOK
  <2>5. Cardinality(L) <= shed
    BY <1>1, <1>5 DEF CursorInv, L
  <2> QED BY <2>3, <2>4, <2>5 DEF M
<1> QED BY <1>1, <1>3, <1>5 DEF CursorInv

(* The loop's other steps.                                                 *)
LEMMA LoopKeeps ==
    ASSUME FeedsInv, Drain \/ WatchReceives \/ ReceiveFails \/ Wakes \/ StopRequested
    PROVE  FeedsInv'
<1>1. FeedsTypeOK /\ CursorInv
  BY DEF FeedsInv
<1>2. /\ newest \in Candles /\ newest \in Nat /\ poll \in Polls /\ buffer \in Seq(Candle)
      /\ shed \in Nat /\ beaten \subseteq Candle /\ MaxLen \in Nat /\ MaxExponent \in Nat
      /\ poll.attempt \in 0..MaxExponent + 1 /\ LastCandle \in Nat
  BY <1>1, FeedsAssumption DEF FeedsTypeOK, Candles, Polls
<1>3. CASE Drain
  <2>1. /\ beaten' = beaten \cup ToSet(buffer) /\ buffer' = <<>>
        /\ UNCHANGED <<newest, skipped, poll, shed, first, fetchVars>>
    BY <1>3 DEF Drain
  <2>2. ToSet(buffer) \subseteq Candle
    BY <1>2, LenProperties, ElementOfSeq DEF ToSet
  <2>3. <<>> \in Seq(Candle) /\ Len(<<>>) = 0
    BY EmptySeq
  <2>4. FeedsTypeOK'
    BY <1>1, <1>2, <2>1, <2>2, <2>3 DEF FeedsTypeOK, fetchVars
  <2>5. Delivered \subseteq Delivered'
    BY <2>1 DEF Delivered
  <2>6. CursorInv'
    BY <1>2, <2>1, <2>5, CursorKeeps
  <2> QED BY <2>4, <2>6 DEF FeedsInv
<1>4. CASE WatchReceives
  <2>1. /\ poll.kind = "watch" /\ poll' = [poll EXCEPT !.attempt = 0]
        /\ UNCHANGED <<newest, skipped, beaten, first, fetchVars>>
    BY <1>4 DEF WatchReceives
  <2>2. PICK t \in Listed : Push(AsOfNow(<<t>>))
    BY <1>4 DEF WatchReceives
  <2> DEFINE new == AsOfNow(<<t>>)
  <2>3. new \in Seq(Candle)
    <3>1. t \in Candles
      BY <1>2, FeedsAssumption DEF Listed, Candles
    <3>2. DOMAIN <<t>> = 1..1 /\ <<t>>[1] = t
      OBVIOUS
    <3>3. new = [i \in 1..1 |-> [open |-> <<t>>[i], closed |-> <<t>>[i] < newest]]
      BY <3>2 DEF AsOfNow
    <3>4. \A i \in 1..1 : [open |-> <<t>>[i], closed |-> <<t>>[i] < newest] \in Candle
      BY <3>1, <3>2 DEF Candle
    <3> HIDE DEF new
    <3>5. new \in [1..1 -> Candle]
      BY <3>3, <3>4
    <3> QED BY <3>5, SeqDef
  <2> HIDE DEF new
  <2>4. buffer' \in Seq(Candle) /\ Len(buffer') <= MaxLen /\ shed' \in Nat
    BY <1>2, <2>2, <2>3, PushKeeps DEF new
  <2>5. poll' \in Polls /\ poll'.since = poll.since /\ poll'.kind = poll.kind
    <3>1. 0 \in 0..MaxExponent + 1
      BY <1>2
    <3> QED BY <1>2, <2>1, <3>1, PollRetries
  <2>6. FeedsTypeOK'
    BY <1>1, <2>1, <2>4, <2>5 DEF FeedsTypeOK, fetchVars, Polls
  <2>7. CursorInv'
    BY <1>1, <2>1, <2>5 DEF CursorInv
  <2> QED BY <2>6, <2>7 DEF FeedsInv
<1>5. CASE ReceiveFails \/ Wakes \/ StopRequested
  <2>1. UNCHANGED <<newest, skipped, buffer, shed, beaten, first, fetchVars>>
    BY <1>5 DEF ReceiveFails, Wakes, StopRequested
  <2>2. poll' \in Polls /\ poll'.since = poll.since /\ poll'.kind = poll.kind
    <3>1. PollPlaces = {"receive", "sleep", "backoff", "stopped", "died"} /\ 0 \in 0..LastCandle
          /\ 0 \in 0..MaxExponent + 1
      BY <1>2 DEF PollPlaces
    <3>2. CASE ReceiveFails
      <4>1. CASE poll.attempt <= MaxExponent /\ poll' = [poll EXCEPT !.pc = "backoff", !.attempt = poll.attempt + 1]
        <5>1. poll.attempt + 1 \in 0..MaxExponent + 1
          BY <1>2, <4>1
        <5> QED BY <1>2, <3>1, <4>1, <5>1, PollWaits
      <4>2. CASE poll' = [poll EXCEPT !.pc = "died"]
        BY <1>2, <3>1, <4>2, PollMoves
      <4> QED BY <3>2, <4>1, <4>2 DEF ReceiveFails
    <3>3. CASE Wakes
      <4>1. poll' = [poll EXCEPT !.pc = "receive"]
        BY <3>3 DEF Wakes
      <4> QED BY <1>2, <3>1, <4>1, PollMoves
    <3>4. CASE StopRequested
      <4>1. poll' = [poll EXCEPT !.pc = "stopped"]
        BY <3>4 DEF StopRequested
      <4> QED BY <1>2, <3>1, <4>1, PollMoves
    <3> QED BY <1>5, <3>2, <3>3, <3>4
  <2>3. FeedsTypeOK'
    BY <1>1, <2>1, <2>2 DEF FeedsTypeOK, fetchVars, Polls
  <2>4. Delivered \subseteq Delivered'
    BY <2>1 DEF Delivered
  <2>5. CursorInv'
    BY <1>2, <2>1, <2>2, <2>4, CursorKeeps
  <2> QED BY <2>3, <2>5 DEF FeedsInv
<1> QED BY <1>3, <1>4, <1>5

(* The fetch keeps to its own variables.                                   *)
LEMMA FetchTypes ==
    ASSUME FeedsTypeOK, NEW t \in 0..LastCandle,
           FetchAndStore(t) \/ NextPage \/ PageFails
    PROVE  /\ fetch' \in Fetches /\ ohlcv' \in [Candles -> {"absent", "forming", "closed"}]
           /\ UNCHANGED <<newest, skipped, pollVars>>
<1>1. /\ newest \in Candles /\ newest \in Nat /\ fetch \in Fetches /\ LastCandle \in Nat
      /\ PageLimit \in Nat \ {0} /\ ohlcv \in [Candles -> {"absent", "forming", "closed"}]
      /\ newest \in 0..LastCandle
  BY FeedsAssumption DEF FeedsTypeOK, Candles, Fetches
<1>2. CASE FetchAndStore(t)
  BY <1>1, <1>2 DEF FetchAndStore, Fetches
<1>3. CASE PageFails
  <2>1. fetch' = [fetch EXCEPT !.pc = "failed"] /\ UNCHANGED <<newest, skipped, pollVars, ohlcv>>
    BY <1>3 DEF PageFails
  <2>2. fetch' \in Fetches
    BY <1>1, <2>1 DEF Fetches
  <2> QED BY <1>1, <2>1, <2>2
<1>4. CASE NextPage
  <2> DEFINE times == Page(fetch.cursor, PageLimit)
             new   == {u \in ToSet(times) : \A s \in fetch.seen : u > s}
             seen  == fetch.seen \cup new
             pages == fetch.pages + 1
             ends  == Len(times) < PageLimit \/ pages = MaxPages
             upTo  == IF Len(times) < PageLimit THEN newest ELSE 0
             next  == IF ends THEN 0 ELSE Max(seen)
             count == IF MaxPages = 0 THEN 0 ELSE pages
             to    == IF ends THEN "done" ELSE "page"
  <2>1. /\ ohlcv' = [u \in Candles |-> IF u \in new /\ ohlcv[u] = "absent"
                                       THEN IF u < newest THEN "closed" ELSE "forming"
                                       ELSE ohlcv[u]]
        /\ fetch' = [fetch EXCEPT !.seen = seen, !.pages = count, !.until = upTo,
                       !.pc = to, !.cursor = next]
        /\ UNCHANGED <<newest, skipped, pollVars>>
    BY <1>4 DEF NextPage
  <2>2. fetch.cursor \in Nat /\ fetch.seen \subseteq Candles /\ fetch.pages \in Nat
    BY <1>1 DEF Fetches
  <2>3. times \in Seq(Candles) /\ Len(times) \in Nat /\ PageLimit \in Nat
    BY <1>1, <2>2, PageLists
  <2> HIDE DEF times
  <2>4. ToSet(times) \subseteq Candles /\ (Len(times) > 0 => times[1] \in ToSet(times))
    BY <2>3, LenProperties, ElementOfSeq DEF ToSet
  <2>5. seen \subseteq Candles
    BY <2>2, <2>4
  <2>6. next \in 0..LastCandle
    <3>1. CASE ends
      BY <1>1, <3>1
    <3>2. CASE ~ends
      <4>1. Len(times) > 0
        BY <1>1, <2>3, <3>2
      <4>2. seen # {}
        BY <2>4, <4>1
      <4>3. Max(seen) \in seen
        <5> HIDE DEF seen
        <5> QED BY <1>1, <2>5, <4>2, LargestOf DEF Candles
      <4>4. Max(seen) \in 0..LastCandle
        <5>1. Candles \subseteq 0..LastCandle
          BY <1>1 DEF Candles
        <5> HIDE DEF seen
        <5> QED BY <2>5, <4>3, <5>1
      <4>5. next = Max(seen)
        BY <3>2
      <4> QED BY <4>4, <4>5
    <3> QED BY <3>1, <3>2
  <2>7. count \in Nat /\ upTo \in 0..LastCandle /\ to \in {"done", "page"}
    BY <1>1, <2>2
  <2>8. ohlcv' \in [Candles -> {"absent", "forming", "closed"}]
    <3> HIDE DEF new
    <3> QED BY <1>1, <2>1
  <2> HIDE DEF seen, next, count, upTo, to
  <2>9. fetch' \in Fetches
    BY <1>1, <2>1, <2>5, <2>6, <2>7 DEF Fetches
  <2> QED BY <2>1, <2>8, <2>9
<1> QED BY <1>2, <1>3, <1>4

LEMMA FeedsStep == FeedsInv /\ [LoopNext \/ FetchNext]_feedVars => FeedsInv'
<1> SUFFICES ASSUME FeedsInv, [LoopNext \/ FetchNext]_feedVars PROVE FeedsInv'
  OBVIOUS
<1>1. FeedsTypeOK /\ CursorInv
  BY DEF FeedsInv
<1>2. newest \in Candles /\ poll \in Polls /\ newest \in Nat /\ LastCandle \in Nat
      /\ Candles \subseteq 0..LastCandle
  BY <1>1, FeedsAssumption DEF FeedsTypeOK, Candles, Polls
<1>3. CASE NewCandle
  <2>1. newest' = newest + 1 /\ newest < LastCandle /\ UNCHANGED <<skipped, pollVars, fetchVars>>
    BY <1>3 DEF NewCandle
  <2>2. newest' \in Candles /\ newest <= newest'
    BY <1>2, <2>1 DEF Candles
  <2>3. FeedsTypeOK'
    BY <1>1, <2>1, <2>2 DEF FeedsTypeOK, pollVars, fetchVars
  <2>4. CursorInv'
    BY <1>2, <2>1, <2>2, CursorKeeps DEF pollVars, Delivered
  <2> QED BY <2>3, <2>4 DEF FeedsInv
<1>4. ASSUME NEW t \in 0..LastCandle, FetchAndStore(t) \/ NextPage \/ PageFails
      PROVE  FeedsInv'
  <2>1. /\ fetch' \in Fetches /\ ohlcv' \in [Candles -> {"absent", "forming", "closed"}]
        /\ UNCHANGED <<newest, skipped, poll, buffer, shed, beaten, first>>
    BY <1>1, <1>4, FetchTypes DEF pollVars
  <2>2. FeedsTypeOK'
    BY <1>1, <2>1 DEF FeedsTypeOK, Fetches
  <2>3. CursorInv'
    BY <1>2, <2>1, CursorKeeps DEF Delivered
  <2> QED BY <2>2, <2>3 DEF FeedsInv
<1>5. CASE UNCHANGED feedVars
  <2>1. FeedsTypeOK'
    BY <1>1, <1>5 DEF FeedsTypeOK, feedVars, pollVars, fetchVars
  <2>2. CursorInv'
    BY <1>2, <1>5, CursorKeeps DEF Delivered, feedVars, pollVars
  <2> QED BY <2>1, <2>2 DEF FeedsInv
<1>6. 0 \in 0..LastCandle
  BY <1>2
<1>7. CASE LoopNext
  BY <1>3, <1>7, LoopKeeps, PollKeeps DEF LoopNext
<1>8. CASE FetchNext
  BY <1>2, <1>3, <1>4, <1>6, <1>8 DEF FetchNext
<1> QED BY <1>5, <1>7, <1>8

LEMMA PolledArrive == FeedsInv => PolledCandlesArrive
BY DEF FeedsInv, CursorInv, PolledCandlesArrive, Lost

THEOREM CandlesArrive == FeedsSpec => []PolledCandlesArrive
BY FeedsInitially, FeedsStep, PolledArrive, PTL DEF FeedsSpec

THEOREM FeedsTypeCorrect == FeedsSpec => []FeedsTypeOK
<1>1. FeedsInv => FeedsTypeOK
  BY DEF FeedsInv
<1> QED BY FeedsInitially, FeedsStep, <1>1, PTL DEF FeedsSpec

----------------------------------------------------------------------------
(* The limit order book and the venue in front of it.                      *)

(* The turns of the matching loop stay in a set that a turn stays in.      *)
LEMMA MatchStays ==
    ASSUME NEW order, NEW makers, NEW n \in Nat, NEW V, \A m \in V : Turn(m) \in V,
           [order |-> order, makers |-> makers, price |-> lastPrice, trades |-> {}] \in V
    PROVE  Match(order, makers, n) \in V
<1> DEFINE start == [order |-> order, makers |-> makers, price |-> lastPrice, trades |-> {}]
           G == [iv \in (1..n) \X V |-> Turn(iv[2])]
           Eq(t) == t = [i \in 0..n |-> IF i = 0 THEN start ELSE Turn(t[i - 1])]
           turns == CHOOSE t : Eq(t)
<1>1. \A i \in 1..n, v \in V : G[<<i, v>>] = Turn(v)
  OBVIOUS
<1>2. StepsIn(n, V, G)
  BY <1>1 DEF StepsIn
<1>3. start \in V
  OBVIOUS
<1>4. PICK g : Run(g, n, V, start, G)
  <2> HIDE DEF start, G
  <2> QED BY <1>2, <1>3, RunExists
<1> HIDE DEF G, start
<1>0. /\ g \in [0..n -> V] /\ g[0] = start
      /\ \A i \in 1..n : g[i] = G[<<i, g[i - 1]>>]
  BY <1>4 DEF Run
<1>5. \A i \in 1..n : g[i] = Turn(g[i - 1])
  <2>1. \A i \in 1..n : g[i - 1] \in V
    <3>1. \A i \in 1..n : i - 1 \in 0..n
      OBVIOUS
    <3> QED BY <1>0, <3>1, Zenon
  <2> QED BY <1>0, <1>1, <2>1, Zenon
<1>6. Eq(g)
  BY <1>0, <1>5
<1>7. Eq(turns)
  <2> HIDE DEF Eq
  <2> QED BY <1>6
<1>8. Match(order, makers, n) = turns[n]
  BY Zenon DEF Match, start
<1> HIDE DEF turns
<1>9. turns[0] = start /\ \A i \in 1..n : turns[i] = Turn(turns[i - 1])
  <2>1. \A i \in 0..n : turns[i] = IF i = 0 THEN start ELSE Turn(turns[i - 1])
    BY <1>7
  <2> QED BY <2>1
<1> HIDE DEF Eq
<1> DEFINE P == {i \in 0..n : turns[i] \in V}
<1>10. 0 \in P /\ \A i \in 1..n : i - 1 \in P => i \in P
  BY <1>3, <1>9
<1> HIDE DEF P
<1>11. \A i \in 0..n : i \in P
  BY <1>10, StepsReach
<1> QED BY <1>8, <1>11 DEF P

(* What the book consists of.                                              *)
Owners == VenueIds \cup Agents

Orders == [n : Nat, owner : Owners, side : {"buy", "sell"}, price : Int, qty : Nat, filled : Nat]

(* A side of the book: open orders of that side, each with a number of its *)
(* own up to k.                                                            *)
Side(s, side, k) ==
    /\ s \in Seq(Orders)
    /\ \A i \in 1..Len(s) : s[i].side = side /\ s[i].filled < s[i].qty /\ s[i].n \in 1..k
    /\ \A i, j \in 1..Len(s) : i # j => s[i].n # s[j].n

Prioritised(s) == \A i, j \in 1..Len(s) : i < j => Ahead(s[i], s[j])

From(t, s) == \A i \in 1..Len(t) : \E j \in 1..Len(s) : t[i] = s[j]

LEMMA AheadOrders ==
    ASSUME NEW x \in Orders, NEW y \in Orders, NEW z \in Orders,
           x.side = y.side, y.side = z.side
    PROVE  /\ Ahead(x, y) /\ Ahead(y, z) => Ahead(x, z)
           /\ x.n # y.n /\ ~Ahead(x, y) => Ahead(y, x)
BY DEF Ahead, Orders

LEMMA LargestPlace ==
    ASSUME NEW n \in Nat, NEW S, S \subseteq 1..n
    PROVE  LET k == Max({0} \cup S) IN
              k \in 0..n /\ (k = 0 \/ k \in S) /\ \A m \in S : m <= k
<1> DEFINE T == {n - m : m \in {0} \cup S}
           k == Max({0} \cup S)
<1>1. T \subseteq Nat /\ T # {}
  <2>1. \A m \in {0} \cup S : n - m \in Nat
    OBVIOUS
  <2>2. n - 0 \in T
    OBVIOUS
  <2> QED BY <2>1, <2>2
<1>2. PICK d \in T : \A c \in T : d <= c
  BY <1>1, LeastOf
<1>3. PICK x \in {0} \cup S : d = n - x
  BY <1>2
<1>4. ASSUME NEW m \in {0} \cup S PROVE x >= m
  <2>1. n - m \in T /\ x \in 0..n /\ m \in 0..n
    OBVIOUS
  <2> HIDE DEF T
  <2> QED BY <1>2, <1>3, <2>1
<1>5. k \in {0} \cup S /\ \A m \in {0} \cup S : k >= m
  BY <1>4, Zenon DEF Max
<1> HIDE DEF k
<1>6. k \in 0..n /\ (k = 0 \/ k \in S) /\ \A m \in S : m <= k
  BY <1>5
<1> QED BY <1>6 DEF k

(* Where an order goes.                                                    *)
LEMMA InsertedAt ==
    ASSUME NEW s \in Seq(Orders), NEW o \in Orders
    PROVE  /\ Inserted(s, o) \in Seq(Orders)
           /\ Len(Inserted(s, o)) = Len(s) + 1
           /\ \E k \in 0..Len(s) :
                /\ k = 0 \/ Ahead(s[k], o)
                /\ \A i \in 1..Len(s) : i > k => ~Ahead(s[i], o)
                /\ \A i \in 1..Len(s) + 1 :
                     Inserted(s, o)[i] = IF i <= k THEN s[i] ELSE IF i = k + 1 THEN o ELSE s[i - 1]
<1> DEFINE S == {i \in 1..Len(s) : Ahead(s[i], o)}
           k == Max({0} \cup S)
           before == SubSeq(s, 1, k)
           after == SubSeq(s, k + 1, Len(s))
           t == (before \o <<o>>) \o after
<1>1. Len(s) \in Nat /\ S \subseteq 1..Len(s) /\ \A i \in 1..Len(s) : s[i] \in Orders
  BY LenProperties, ElementOfSeq
<1>2. k \in 0..Len(s) /\ (k = 0 \/ k \in S) /\ \A m \in S : m <= k
  <2> HIDE DEF S
  <2> QED BY <1>1, LargestPlace
<1>3. Inserted(s, o) = SubSeq(s, 1, (k + 1) - 1) \o <<o>> \o SubSeq(s, k + 1, Len(s))
  BY Zenon DEF Inserted, InsertAt
<1> HIDE DEF k
<1>4. Inserted(s, o) = t
  <2>1. (k + 1) - 1 = k
    BY <1>2
  <2> QED BY <1>3, <2>1
<1>5. before \in Seq(Orders) /\ Len(before) = k /\ \A i \in 1..k : before[i] = s[i]
  <2>1. \A i \in 1..k : s[i] \in Orders
    BY <1>1, <1>2
  <2> QED BY <1>2, <2>1, SubSeqProperties
<1>6. after \in Seq(Orders) /\ Len(after) = Len(s) - k /\ \A i \in 1..Len(s) - k : after[i] = s[k + i]
  <2>1. \A i \in k + 1..Len(s) : s[i] \in Orders
    BY <1>1, <1>2
  <2> QED BY <1>1, <1>2, <2>1, SubSeqProperties
<1> HIDE DEF before, after
<1>7. <<o>> \in Seq(Orders) /\ Len(<<o>>) = 1 /\ <<o>>[1] = o
  OBVIOUS
<1> DEFINE mid == before \o <<o>>
<1>8. mid \in Seq(Orders) /\ Len(mid) = k + 1
      /\ \A i \in 1..k + 1 : mid[i] = IF i <= k THEN s[i] ELSE o
  BY <1>2, <1>5, <1>7, ConcatProperties
<1> HIDE DEF mid
<1>9. t = mid \o after
  BY DEF mid
<1> HIDE DEF t
<1>10. t \in Seq(Orders) /\ Len(t) = Len(s) + 1
       /\ \A i \in 1..Len(s) + 1 : t[i] = IF i <= k + 1 THEN mid[i] ELSE after[i - (k + 1)]
  BY <1>1, <1>2, <1>6, <1>8, <1>9, ConcatProperties
<1>11. ASSUME NEW i \in 1..Len(s) + 1
       PROVE  t[i] = IF i <= k THEN s[i] ELSE IF i = k + 1 THEN o ELSE s[i - 1]
  <2>1. CASE i <= k + 1
    BY <1>2, <1>8, <1>10, <2>1
  <2>2. CASE i > k + 1
    <3>1. i - (k + 1) \in 1..Len(s) - k /\ k + (i - (k + 1)) = i - 1
      BY <1>1, <1>2, <2>2
    <3>2. t[i] = after[i - (k + 1)] /\ ~(i <= k) /\ i # k + 1 /\ s[k + (i - (k + 1))] = s[i - 1]
      BY <1>2, <1>10, <2>2, <3>1
    <3>3. after[i - (k + 1)] = s[k + (i - (k + 1))]
      BY <1>6, <3>1
    <3> QED BY <3>2, <3>3, Zenon
  <2>3. i \in Nat /\ k \in Nat
    BY <1>1, <1>2
  <2> QED BY <2>1, <2>2, <2>3
<1>12. /\ k = 0 \/ Ahead(s[k], o)
       /\ \A i \in 1..Len(s) : i > k => ~Ahead(s[i], o)
  BY <1>1, <1>2
<1> QED
  <2>1. \A i \in 1..Len(s) + 1 :
          t[i] = IF i <= k THEN s[i] ELSE IF i = k + 1 THEN o ELSE s[i - 1]
    BY <1>11
  <2> QED BY <1>2, <1>4, <1>10, <1>12, <2>1

(* Inserting an order keeps a side in order.                               *)
LEMMA InsertingArranges ==
    ASSUME NEW side, NEW k \in Nat, NEW t, Side(t, side, k), Prioritised(t),
           NEW o \in Orders, o.side = side, o.filled < o.qty, o.n \in 1..k,
           \A i \in 1..Len(t) : t[i].n # o.n
    PROVE  /\ Side(Inserted(t, o), side, k) /\ Prioritised(Inserted(t, o))
           /\ \A i \in 1..Len(Inserted(t, o)) :
                Inserted(t, o)[i] = o \/ \E j \in 1..Len(t) : Inserted(t, o)[i] = t[j]
<1> DEFINE u == Inserted(t, o)
           n == Len(t)
<1>1. t \in Seq(Orders) /\ n \in Nat /\ \A i \in 1..n : t[i] \in Orders /\ t[i].side = side
  BY LenProperties, ElementOfSeq DEF Side
<1>2. u \in Seq(Orders) /\ Len(u) = n + 1
      /\ \E p \in 0..n :
           /\ p = 0 \/ Ahead(t[p], o)
           /\ \A i \in 1..n : i > p => ~Ahead(t[i], o)
           /\ \A i \in 1..n + 1 : u[i] = IF i <= p THEN t[i] ELSE IF i = p + 1 THEN o ELSE t[i - 1]
  BY <1>1, InsertedAt
<1>3. PICK p \in 0..n :
        /\ p = 0 \/ Ahead(t[p], o)
        /\ \A i \in 1..n : i > p => ~Ahead(t[i], o)
        /\ \A i \in 1..n + 1 : u[i] = IF i <= p THEN t[i] ELSE IF i = p + 1 THEN o ELSE t[i - 1]
  BY <1>2
<1> HIDE DEF u, n
<1>4. ASSUME NEW i \in 1..n + 1
      PROVE  \/ i <= p /\ i \in 1..n /\ u[i] = t[i]
             \/ i = p + 1 /\ u[i] = o
             \/ i > p + 1 /\ i - 1 \in 1..n /\ i - 1 > p /\ u[i] = t[i - 1]
  <2>1. u[i] = IF i <= p THEN t[i] ELSE IF i = p + 1 THEN o ELSE t[i - 1]
    BY <1>3
  <2>2. p \in Nat /\ p <= n /\ i \in Nat /\ n \in Nat
    BY <1>1
  <2> QED BY <2>1, <2>2
<1>5. \A i \in 1..n + 1 : u[i] = o \/ \E j \in 1..n : u[i] = t[j]
  BY <1>4
<1>6. \A i \in 1..n : i <= p => Ahead(t[i], o)
  <2>1. ASSUME NEW i \in 1..n, i <= p PROVE Ahead(t[i], o)
    <3>1. p \in 1..n /\ Ahead(t[p], o)
      BY <1>3, <2>1, <1>1
    <3>2. i < p => Ahead(t[i], t[p])
      BY <3>1 DEF Prioritised, n
    <3>3. i = p \/ i < p
      BY <2>1, <1>1
    <3> QED BY <1>1, <3>1, <3>2, <3>3, AheadOrders
  <2> QED BY <2>1
<1>7. \A i \in 1..n : i > p => Ahead(o, t[i])
  <2>1. ASSUME NEW i \in 1..n, i > p PROVE Ahead(o, t[i])
    <3>1. ~Ahead(t[i], o) /\ t[i].n # o.n /\ t[i] \in Orders /\ t[i].side = o.side
      BY <1>1, <1>3, <2>1 DEF n
    <3> QED BY <3>1, AheadOrders
  <2> QED BY <2>1
<1>8. \A i, j \in 1..n : i < j => Ahead(t[i], t[j])
  BY DEF Prioritised, n
<1>9. ASSUME NEW i \in 1..n + 1, NEW j \in 1..n + 1, i < j PROVE Ahead(u[i], u[j])
  <2>1. CASE j <= p /\ j \in 1..n /\ u[j] = t[j]
    <3>1. i \in 1..n /\ u[i] = t[i]
      BY <1>1, <1>4, <1>9, <2>1
    <3> QED BY <1>8, <1>9, <2>1, <3>1
  <2>2. CASE j = p + 1 /\ u[j] = o
    <3>1. i <= p /\ i \in 1..n /\ u[i] = t[i]
      BY <1>1, <1>4, <1>9, <2>2
    <3> QED BY <1>6, <2>2, <3>1
  <2>3. CASE j > p + 1 /\ j - 1 \in 1..n /\ j - 1 > p /\ u[j] = t[j - 1]
    <3>1. CASE i <= p /\ i \in 1..n /\ u[i] = t[i]
      <4>1. i < j - 1
        BY <1>1, <2>3, <3>1
      <4> QED BY <1>8, <2>3, <3>1, <4>1
    <3>2. CASE i = p + 1 /\ u[i] = o
      BY <1>7, <2>3, <3>2
    <3>3. CASE i > p + 1 /\ i - 1 \in 1..n /\ i - 1 > p /\ u[i] = t[i - 1]
      <4>1. i - 1 < j - 1
        BY <1>9
      <4> QED BY <1>8, <2>3, <3>3, <4>1
    <3> QED BY <1>4, <3>1, <3>2, <3>3
  <2> QED BY <1>4, <2>1, <2>2, <2>3
<1>10. Prioritised(u)
  BY <1>2, <1>9 DEF Prioritised
<1>11. \A i \in 1..n : t[i].side = side /\ t[i].filled < t[i].qty /\ t[i].n \in 1..k
  BY DEF Side, n
<1>12. \A i \in 1..n + 1 : u[i].side = side /\ u[i].filled < u[i].qty /\ u[i].n \in 1..k
  BY <1>5, <1>11
<1>13. ASSUME NEW i \in 1..n + 1, NEW j \in 1..n + 1, i < j PROVE u[i].n # u[j].n
  <2>1. \A a, b \in 1..n : a # b => t[a].n # t[b].n
    BY DEF Side, n
  <2>2. \A a \in 1..n : t[a].n # o.n
    BY DEF n
  <2>3. CASE j <= p /\ j \in 1..n /\ u[j] = t[j]
    <3>1. i \in 1..n /\ u[i] = t[i] /\ i # j
      BY <1>1, <1>4, <1>13, <2>3
    <3> QED BY <2>1, <2>3, <3>1
  <2>4. CASE j = p + 1 /\ u[j] = o
    <3>1. i <= p /\ i \in 1..n /\ u[i] = t[i]
      BY <1>1, <1>4, <1>13, <2>4
    <3> QED BY <2>2, <2>4, <3>1
  <2>5. CASE j > p + 1 /\ j - 1 \in 1..n /\ j - 1 > p /\ u[j] = t[j - 1]
    <3>1. CASE i <= p /\ i \in 1..n /\ u[i] = t[i]
      <4>1. i # j - 1
        BY <1>1, <2>5, <3>1
      <4> QED BY <2>1, <2>5, <3>1, <4>1
    <3>2. CASE i = p + 1 /\ u[i] = o
      BY <2>2, <2>5, <3>2
    <3>3. CASE i > p + 1 /\ i - 1 \in 1..n /\ i - 1 > p /\ u[i] = t[i - 1]
      <4>1. i - 1 # j - 1
        BY <1>13
      <4> QED BY <2>1, <2>5, <3>3, <4>1
    <3> QED BY <1>4, <3>1, <3>2, <3>3
  <2> QED BY <1>4, <2>3, <2>4, <2>5
<1>14. \A i, j \in 1..n + 1 : i # j => u[i].n # u[j].n
  <2>1. \A i, j \in 1..n + 1 : i < j \/ j < i \/ i = j
    BY <1>1
  <2> QED BY <1>13, <2>1
<1>15. Side(u, side, k)
  BY <1>2, <1>12, <1>14 DEF Side
<1> QED BY <1>2, <1>5, <1>10, <1>15 DEF u, n

(* What the first i of the orders of s come to when they are put in order. *)
Arranged(t, s, i, side, k) ==
    /\ Side(t, side, k) /\ Prioritised(t)
    /\ \A p \in 1..Len(t) : \E q \in 1..i : t[p] = s[q]

LEMMA SortedArranges ==
    ASSUME NEW side, NEW k \in Nat, NEW s, Side(s, side, k)
    PROVE  Arranged(Sorted(s), s, Len(s), side, k)
<1> DEFINE n == Len(s)
           V == Seq(Orders)
           none == <<>>
           G == [iv \in (1..n) \X V |-> Inserted(iv[2], s[iv[1]])]
           Eq(f) == f = [i \in 0..n |-> IF i = 0 THEN <<>> ELSE Inserted(f[i - 1], s[i])]
           sorted == CHOOSE f : Eq(f)
<1>1. /\ s \in Seq(Orders) /\ n \in Nat
      /\ \A i \in 1..n : /\ s[i] \in Orders /\ s[i].side = side
                         /\ s[i].filled < s[i].qty /\ s[i].n \in 1..k
      /\ \A i, j \in 1..n : i # j => s[i].n # s[j].n
  BY LenProperties, ElementOfSeq DEF Side
<1>2. \A i \in 1..n, v \in V : G[<<i, v>>] = Inserted(v, s[i])
  OBVIOUS
<1>3. StepsIn(n, V, G)
  <2>1. \A i \in 1..n, v \in V : Inserted(v, s[i]) \in V
    BY <1>1, InsertedAt
  <2> HIDE DEF G
  <2> QED BY <1>2, <2>1 DEF StepsIn
<1>4. PICK g : Run(g, n, V, none, G)
  <2>1. none \in V /\ n \in Nat
    BY <1>1
  <2> HIDE DEF none, G, V, n
  <2> QED BY <1>3, <2>1, RunExists
<1> HIDE DEF G, V, n
<1>5. /\ g \in [0..n -> V] /\ g[0] = <<>>
      /\ \A i \in 1..n : g[i] = G[<<i, g[i - 1]>>]
  BY <1>4 DEF Run, none
<1>6. \A i \in 1..n : g[i] = Inserted(g[i - 1], s[i])
  <2>1. \A i \in 1..n : g[i - 1] \in V
    <3>1. \A i \in 1..n : i - 1 \in 0..n
      BY <1>1
    <3> QED BY <1>5, <3>1, Zenon
  <2> QED BY <1>2, <1>5, <2>1, Zenon
<1>7. Eq(g)
  BY <1>1, <1>5, <1>6
<1>8. Eq(sorted)
  <2> HIDE DEF Eq
  <2> QED BY <1>7
<1>9. Sorted(s) = sorted[n]
  BY Zenon DEF Sorted, n
<1> HIDE DEF sorted
<1>10. sorted[0] = <<>> /\ \A i \in 1..n : sorted[i] = Inserted(sorted[i - 1], s[i])
  <2>1. \A i \in 0..n : sorted[i] = IF i = 0 THEN <<>> ELSE Inserted(sorted[i - 1], s[i])
    BY <1>8
  <2>2. 0 \in 0..n /\ \A i \in 1..n : i \in 0..n /\ i # 0
    BY <1>1
  <2> QED BY <2>1, <2>2, Zenon
<1> HIDE DEF Eq
<1> DEFINE P == {i \in 0..n : Arranged(sorted[i], s, i, side, k)}
<1>11. 0 \in P
  <2>1. <<>> \in Seq(Orders) /\ Len(<<>>) = 0
    OBVIOUS
  <2>2. Side(<<>>, side, k) /\ Prioritised(<<>>)
    BY <2>1 DEF Side, Prioritised
  <2> QED BY <1>1, <1>10, <2>1, <2>2 DEF Arranged
<1>12. ASSUME NEW i \in 1..n, i - 1 \in P PROVE i \in P
  <2> DEFINE t == sorted[i - 1]
             o == s[i]
             u == Inserted(t, o)
  <2>1. Side(t, side, k) /\ Prioritised(t)
        /\ \A p \in 1..Len(t) : \E q \in 1..i - 1 : t[p] = s[q]
    BY <1>12 DEF Arranged
  <2>2. o \in Orders /\ o.side = side /\ o.filled < o.qty /\ o.n \in 1..k
    BY <1>1
  <2>3. sorted[i] = u
    BY <1>10
  <2> HIDE DEF t, u
  <2>4. \A p \in 1..Len(t) : t[p].n # o.n
    <3>1. ASSUME NEW p \in 1..Len(t) PROVE t[p].n # o.n
      <4>1. PICK q \in 1..i - 1 : t[p] = s[q]
        BY <2>1
      <4>2. q \in 1..n /\ q # i
        BY <1>1
      <4> QED BY <1>1, <4>1, <4>2
    <3> QED BY <3>1
  <2>5. /\ Side(u, side, k) /\ Prioritised(u)
        /\ \A p \in 1..Len(u) : u[p] = o \/ \E q \in 1..Len(t) : u[p] = t[q]
    <3> HIDE DEF o
    <3>1. Side(t, side, k) /\ Prioritised(t)
      BY <2>1
    <3>2. /\ Side(Inserted(t, o), side, k) /\ Prioritised(Inserted(t, o))
          /\ \A p \in 1..Len(Inserted(t, o)) :
               Inserted(t, o)[p] = o \/ \E q \in 1..Len(t) : Inserted(t, o)[p] = t[q]
      BY <2>2, <2>4, <3>1, InsertingArranges
    <3> QED BY <3>2 DEF u
  <2>6. \A p \in 1..Len(u) : \E q \in 1..i : u[p] = s[q]
    <3>1. i \in 1..i /\ \A q \in 1..i - 1 : q \in 1..i
      BY <1>1
    <3>2. ASSUME NEW p \in 1..Len(u) PROVE \E q \in 1..i : u[p] = s[q]
      <4>1. CASE u[p] = o
        BY <3>1, <4>1
      <4>2. ASSUME NEW r \in 1..Len(t), u[p] = t[r] PROVE \E q \in 1..i : u[p] = s[q]
        <5>1. PICK q \in 1..i - 1 : t[r] = s[q]
          BY <2>1
        <5> QED BY <3>1, <4>2, <5>1
      <4> QED BY <2>5, <4>1, <4>2
    <3> QED BY <3>2
  <2>7. Arranged(sorted[i], s, i, side, k)
    BY <2>3, <2>5, <2>6 DEF Arranged
  <2>8. i \in 0..n
    BY <1>1
  <2> QED BY <2>7, <2>8
<1> HIDE DEF P
<1>13. \A i \in 0..n : i \in P
  BY <1>1, <1>11, <1>12, StepsReach
<1>14. n \in P
  BY <1>1, <1>13
<1> QED BY <1>9, <1>14 DEF P, n

(* A side without the orders of an owner.                                  *)
LEMMA WithoutKeeps ==
    ASSUME NEW side, NEW k \in Nat, NEW s, Side(s, side, k), NEW owner
    PROVE  /\ Side(Without(s, owner), side, k)
           /\ From(Without(s, owner), s)
           /\ Prioritised(s) => Prioritised(Without(s, owner))
           /\ \A i \in 1..Len(Without(s, owner)) : Without(s, owner)[i].owner # owner
<1> DEFINE n == Len(s)
           V == Seq(Orders)
           none == <<>>
           Next1(v, i) == IF s[i].owner = owner THEN v ELSE Append(v, s[i])
           G == [iv \in (1..n) \X V |-> Next1(iv[2], iv[1])]
           Eq(f) == f = [i \in 0..n |->
                           IF i = 0 THEN <<>>
                           ELSE IF s[i].owner = owner THEN f[i - 1] ELSE Append(f[i - 1], s[i])]
           kept == CHOOSE f : Eq(f)
<1>1. /\ s \in Seq(Orders) /\ n \in Nat
      /\ \A i \in 1..n : /\ s[i] \in Orders /\ s[i].side = side
                         /\ s[i].filled < s[i].qty /\ s[i].n \in 1..k
      /\ \A i, j \in 1..n : i # j => s[i].n # s[j].n
  BY LenProperties, ElementOfSeq DEF Side
<1>2. \A i \in 1..n, v \in V : G[<<i, v>>] = Next1(v, i)
  OBVIOUS
<1>3. StepsIn(n, V, G)
  <2>1. \A i \in 1..n, v \in V : Next1(v, i) \in V
    BY <1>1
  <2> HIDE DEF G, Next1
  <2> QED BY <1>2, <2>1 DEF StepsIn
<1>4. PICK g : Run(g, n, V, none, G)
  <2>1. none \in V /\ n \in Nat
    BY <1>1
  <2> HIDE DEF none, G, V, n
  <2> QED BY <1>3, <2>1, RunExists
<1> HIDE DEF G, V, n
<1>5. /\ g \in [0..n -> V] /\ g[0] = <<>>
      /\ \A i \in 1..n : g[i] = G[<<i, g[i - 1]>>]
  BY <1>4 DEF Run, none
<1>6. \A i \in 1..n : g[i] = IF s[i].owner = owner THEN g[i - 1] ELSE Append(g[i - 1], s[i])
  <2>1. \A i \in 1..n : g[i - 1] \in V
    <3>1. \A i \in 1..n : i - 1 \in 0..n
      BY <1>1
    <3> QED BY <1>5, <3>1, Zenon
  <2> QED BY <1>2, <1>5, <2>1, Zenon
<1>7. Eq(g)
  <2>1. \A i \in 0..n : i = 0 \/ i \in 1..n
    BY <1>1
  <2>2. \A i \in 0..n : g[i] = IF i = 0 THEN <<>>
                               ELSE IF s[i].owner = owner THEN g[i - 1]
                               ELSE Append(g[i - 1], s[i])
    BY <1>5, <1>6, <2>1, Zenon
  <2> QED BY <1>5, <2>2, Zenon
<1>8. Eq(kept)
  <2> HIDE DEF Eq
  <2> QED BY <1>7
<1>9. Without(s, owner) = kept[n]
  BY Zenon DEF Without, n
<1> HIDE DEF kept
<1>10. kept[0] = <<>>
       /\ \A i \in 1..n : kept[i] = IF s[i].owner = owner THEN kept[i - 1]
                                    ELSE Append(kept[i - 1], s[i])
  <2>1. \A i \in 0..n : kept[i] = IF i = 0 THEN <<>>
                                  ELSE IF s[i].owner = owner THEN kept[i - 1]
                                  ELSE Append(kept[i - 1], s[i])
    BY <1>8
  <2>2. 0 \in 0..n /\ \A i \in 1..n : i \in 0..n /\ i # 0
    BY <1>1
  <2> QED BY <2>1, <2>2, Zenon
<1> HIDE DEF Eq
<1> DEFINE Kept(t, i) ==
             /\ Side(t, side, k) /\ (Prioritised(s) => Prioritised(t))
             /\ \A p \in 1..Len(t) : \E q \in 1..i : t[p] = s[q]
             /\ \A p \in 1..Len(t) : t[p].owner # owner
           P == {i \in 0..n : Kept(kept[i], i)}
<1>11. 0 \in P
  <2>1. <<>> \in Seq(Orders) /\ Len(<<>>) = 0
    OBVIOUS
  <2>2. Side(<<>>, side, k) /\ Prioritised(<<>>)
    BY <2>1 DEF Side, Prioritised
  <2> QED BY <1>1, <1>10, <2>1, <2>2
<1>12. ASSUME NEW i \in 1..n, i - 1 \in P PROVE i \in P
  <2> DEFINE t == kept[i - 1]
             o == s[i]
             u == Append(t, o)
  <2>0. i \in 0..n /\ i \in 1..i /\ i - 1 \in Nat /\ \A q \in 1..i - 1 : q \in 1..i /\ q \in 1..n /\ q < i
    BY <1>1
  <2>1. /\ Side(t, side, k) /\ (Prioritised(s) => Prioritised(t))
        /\ \A p \in 1..Len(t) : \E q \in 1..i - 1 : t[p] = s[q]
        /\ \A p \in 1..Len(t) : t[p].owner # owner
    BY <1>12
  <2>2. o \in Orders /\ o.side = side /\ o.filled < o.qty /\ o.n \in 1..k
    BY <1>1
  <2>3. kept[i] = IF o.owner = owner THEN t ELSE u
    BY <1>10
  <2> HIDE DEF t, o
  <2>4. CASE o.owner = owner
    <3>1. kept[i] = t
      BY <2>3, <2>4
    <3>2. \A p \in 1..Len(t) : \E q \in 1..i : t[p] = s[q]
      BY <2>0, <2>1, Zenon
    <3>3. Kept(kept[i], i)
      BY <2>1, <3>1, <3>2
    <3> HIDE DEF Kept
    <3> QED BY <2>0, <3>3
  <2>5. CASE o.owner # owner
    <3>1. kept[i] = u
      BY <2>3, <2>5
    <3>2. /\ t \in Seq(Orders) /\ Len(t) \in Nat
          /\ \A p \in 1..Len(t) : t[p].side = side /\ t[p].filled < t[p].qty /\ t[p].n \in 1..k
          /\ \A p, q \in 1..Len(t) : p # q => t[p].n # t[q].n
      BY <2>1, LenProperties DEF Side
    <3>3. u \in Seq(Orders) /\ Len(u) = Len(t) + 1
          /\ (\A p \in 1..Len(t) : u[p] = t[p]) /\ u[Len(t) + 1] = o
      BY <2>2, <3>2, AppendProperties
    <3> HIDE DEF u
    <3>4. \A p \in 1..Len(u) : (p \in 1..Len(t) /\ u[p] = t[p]) \/ (p = Len(t) + 1 /\ u[p] = o)
      BY <3>2, <3>3
    <3>5. \A p \in 1..Len(t) : t[p].n # o.n /\ (Prioritised(s) => Ahead(t[p], o))
      <4>1. ASSUME NEW p \in 1..Len(t)
            PROVE  t[p].n # o.n /\ (Prioritised(s) => Ahead(t[p], o))
        <5>1. PICK q \in 1..i - 1 : t[p] = s[q]
          BY <2>1
        <5>2. q \in 1..n /\ q < i /\ q # i
          BY <2>0
        <5> QED BY <1>1, <5>1, <5>2 DEF Prioritised, n, o
      <4> QED BY <4>1
    <3>6. \A p, q \in 1..Len(u) : p # q => u[p].n # u[q].n
      BY <3>2, <3>4, <3>5
    <3>7. Prioritised(s) => Prioritised(u)
      <4>1. ASSUME Prioritised(s), NEW p \in 1..Len(u), NEW q \in 1..Len(u), p < q
            PROVE  Ahead(u[p], u[q])
        <5>1. p \in 1..Len(t) /\ u[p] = t[p]
          BY <3>2, <3>3, <3>4, <4>1
        <5>2. CASE q = Len(t) + 1 /\ u[q] = o
          BY <3>5, <4>1, <5>1, <5>2
        <5>3. CASE q \in 1..Len(t) /\ u[q] = t[q]
          BY <2>1, <4>1, <5>1, <5>3 DEF Prioritised
        <5> QED BY <3>4, <5>2, <5>3
      <4> QED BY <4>1 DEF Prioritised
    <3>8. \A p \in 1..Len(u) : \E q \in 1..i : u[p] = s[q]
      BY <2>0, <2>1, <3>4, Zenon DEF o
    <3>9. Side(u, side, k)
      BY <2>2, <3>2, <3>3, <3>4, <3>6 DEF Side
    <3>10. \A p \in 1..Len(u) : u[p].owner # owner
      BY <2>1, <2>5, <3>4
    <3>11. Kept(kept[i], i)
      BY <3>1, <3>7, <3>8, <3>9, <3>10
    <3> HIDE DEF Kept
    <3> QED BY <2>0, <3>11
  <2> QED BY <2>4, <2>5
<1> HIDE DEF P
<1>13. \A i \in 0..n : i \in P
  BY <1>1, <1>11, <1>12, StepsReach
<1>14. n \in P
  BY <1>1, <1>13
<1> QED BY <1>9, <1>14 DEF P, n, From

(* Trades among the first k orders, and what order n traded in them.       *)
TradesOf(k) == [maker : 1..k, taker : 1..k, price : Int, qty : Nat]

Vol(n, T) == Volume({t \in T : n \in {t.maker, t.taker}})

LEMMA VolumeGrows ==
    ASSUME NEW T, IsFiniteSet(T), \A t \in T : t.qty \in Nat, NEW S \in SUBSET T
    PROVE  Volume(S) \in Nat /\ Volume(T) \in Nat /\ Volume(S) <= Volume(T)
<1> DEFINE f == [t \in T |-> t.qty]
           g == [t \in S |-> t.qty]
<1>1. \A t \in T : f[t] \in Nat
  OBVIOUS
<1>2. \A t \in S : f[t] \in Int /\ g[t] = f[t]
  OBVIOUS
<1>3. IsFiniteSet(S)
  BY FS_Subset
<1>4. Volume(S) = SumFunctionOnSet(g, S) /\ Volume(T) = SumFunctionOnSet(f, T)
  BY DEF Volume
<1> HIDE DEF f, g
<1>5. SumFunctionOnSet(g, S) = SumFunctionOnSet(f, S)
  BY <1>2, <1>3, SumSame
<1>6. SumFunctionOnSet(f, S) \in Nat /\ SumFunctionOnSet(f, T) \in Nat
      /\ SumFunctionOnSet(f, S) <= SumFunctionOnSet(f, T)
  BY <1>1, SumGrows
<1> QED BY <1>4, <1>5, <1>6

LEMMA VolumeAdds ==
    ASSUME NEW T, IsFiniteSet(T), \A t \in T : t.qty \in Nat, NEW x, x.qty \in Nat, x \notin T
    PROVE  Volume(T \cup {x}) = Volume(T) + x.qty
<1> DEFINE S == T \cup {x}
           f == [t \in S |-> t.qty]
           g == [t \in T |-> t.qty]
<1>1. IsFiniteSet(S) /\ S \ {x} = T /\ x \in S
  BY FS_AddElement
<1>2. (\A t \in S : f[t] \in Int) /\ f[x] = x.qty /\ \A t \in T : f[t] \in Int /\ g[t] = f[t]
  OBVIOUS
<1>3. Volume(S) = SumFunctionOnSet(f, S) /\ Volume(T) = SumFunctionOnSet(g, T)
  BY DEF Volume
<1> HIDE DEF f, g, S
<1>4. SumFunctionOnSet(g, T) = SumFunctionOnSet(f, T)
  BY <1>2, SumSame
<1>5. /\ SumFunctionOnSet(f, S) \in Int /\ SumFunctionOnSet(f, S \ {x}) \in Int
      /\ SumFunctionOnSet(f, S) = f[x] + SumFunctionOnSet(f, S \ {x})
  BY <1>1, <1>2, SumSplit
<1>6. Volume(S) = x.qty + SumFunctionOnSet(f, T) /\ Volume(T) = SumFunctionOnSet(f, T)
      /\ SumFunctionOnSet(f, T) \in Int
  BY <1>1, <1>2, <1>3, <1>4, <1>5, Zenon
<1>7. Volume(S) = Volume(T) + x.qty
  <2> HIDE DEF f
  <2> QED BY <1>6
<1> QED BY <1>7 DEF S

LEMMA VolSame ==
    ASSUME NEW n, NEW T, NEW U, \A t \in U : n # t.maker /\ n # t.taker
    PROVE  Vol(n, T \cup U) = Vol(n, T)
<1>1. {t \in T \cup U : n \in {t.maker, t.taker}} = {t \in T : n \in {t.maker, t.taker}}
  OBVIOUS
<1> QED BY <1>1 DEF Vol

LEMMA VolAdds ==
    ASSUME NEW n, NEW T, IsFiniteSet(T), \A t \in T : t.qty \in Nat,
           NEW x, x.qty \in Nat, x \notin T, n \in {x.maker, x.taker}
    PROVE  Vol(n, T \cup {x}) = Vol(n, T) + x.qty
<1> DEFINE S == {t \in T : n \in {t.maker, t.taker}}
<1>1. {t \in T \cup {x} : n \in {t.maker, t.taker}} = S \cup {x}
  OBVIOUS
<1>2. IsFiniteSet(S) /\ x \notin S /\ \A t \in S : t.qty \in Nat
  BY FS_Subset
<1> HIDE DEF S
<1>3. Volume(S \cup {x}) = Volume(S) + x.qty
  BY <1>2, VolumeAdds
<1> QED BY <1>1, <1>3 DEF Vol, S

LEMMA VolOfNone ==
    ASSUME NEW n, NEW T, \A t \in T : n # t.maker /\ n # t.taker
    PROVE  Vol(n, T) = 0
<1>1. {t \in T : n \in {t.maker, t.taker}} = {}
  OBVIOUS
<1>2. Volume({}) = 0
  BY SumOfNone DEF Volume
<1> QED BY <1>1, <1>2 DEF Vol

LEMMA VolGrows ==
    ASSUME NEW n, NEW T, NEW U, IsFiniteSet(U), \A t \in U : t.qty \in Nat, T \subseteq U
    PROVE  Vol(n, T) \in Nat /\ Vol(n, U) \in Nat /\ Vol(n, T) <= Vol(n, U)
<1> DEFINE S(A) == {t \in A : n \in {t.maker, t.taker}}
<1>1. S(T) \in SUBSET S(U) /\ IsFiniteSet(S(U)) /\ \A t \in S(U) : t.qty \in Nat
  BY FS_Subset
<1>2. Vol(n, T) = Volume(S(T)) /\ Vol(n, U) = Volume(S(U))
  BY DEF Vol
<1> HIDE DEF S
<1> QED BY <1>1, <1>2, VolumeGrows

(* Two states of one order.                                                *)
Like(x, y) == /\ x.n = y.n /\ x.owner = y.owner /\ x.side = y.side
              /\ x.price = y.price /\ x.qty = y.qty

(* What the orders of a side have filled is what trades say of them.       *)
Backed(s, T) == \A i \in 1..Len(s) : s[i].filled = Vol(s[i].n, T)

NewTrades(k) == [maker : 1..k, taker : {k + 1}, price : Int, qty : Nat]

Matchings(k) == [order : Orders, makers : Seq(Orders), price : Int, trades : SUBSET NewTrades(k)]

(* What is left of a side when its first d orders have been taken.         *)
Rests(t, s, d) ==
    /\ d \in 0..Len(s) /\ Len(t) = Len(s) - d
    /\ \A i \in 1..Len(t) : Like(t[i], s[i + d]) /\ t[i].filled < t[i].qty

Matched(m, order, makers, k, T) ==
    /\ Like(m.order, order) /\ m.order.filled <= m.order.qty
    /\ \E d \in 0..Len(makers) : Rests(m.makers, makers, d)
    /\ Backed(m.makers, T \cup m.trades)
    /\ IsFiniteSet(m.trades)
    /\ \A t \in m.trades : \E j \in 1..Len(makers) : t.maker = makers[j].n
    /\ m.order.filled = Vol(k + 1, T \cup m.trades)
    /\ m.order.filled < m.order.qty =>
          \A t \in m.trades : \A i \in 1..Len(m.makers) : m.makers[i].n # t.maker

LEMMA MinOfTwo ==
    ASSUME NEW a \in Int, NEW b \in Int
    PROVE  /\ Min({a, b}) \in {a, b} /\ Min({a, b}) <= a /\ Min({a, b}) <= b
<1>1. \E x \in {a, b} : \A y \in {a, b} : x <= y
  <2>1. CASE a <= b
    BY <2>1
  <2>2. CASE ~(a <= b)
    BY <2>2
  <2> QED BY <2>1, <2>2
<1>2. Min({a, b}) \in {a, b} /\ \A y \in {a, b} : Min({a, b}) <= y
  BY <1>1, Zenon DEF Min
<1> QED BY <1>2

(* A trade: the best maker loses qty, or leaves.                           *)
Trade(m) == [maker |-> Head(m.makers).n, taker |-> m.order.n, price |-> Head(m.makers).price,
             qty |-> Min({Unfilled(m.order), Unfilled(Head(m.makers))})]

Traded1(m) ==
    LET maker == Head(m.makers)
        qty == Trade(m).qty
    IN  [order |-> [m.order EXCEPT !.filled = @ + qty],
         makers |-> IF qty = Unfilled(maker) THEN Tail(m.makers)
                    ELSE <<[maker EXCEPT !.filled = @ + qty]>> \o Tail(m.makers),
         price |-> maker.price,
         trades |-> m.trades \cup {Trade(m)}]

LEMMA TurnIs ==
    ASSUME NEW m
    PROVE  \/ Turn(m) = m
           \/ m.makers # <<>> /\ Unfilled(m.order) # 0 /\ Turn(m) = Traded1(m)
<1>1. CASE m.makers = <<>> \/ Unfilled(m.order) = 0 \/ ~Crosses(m.order, Head(m.makers))
  BY <1>1, Zenon DEF Turn
<1>2. CASE ~(m.makers = <<>> \/ Unfilled(m.order) = 0 \/ ~Crosses(m.order, Head(m.makers)))
  <2>1. Trade(m).qty = Min({Unfilled(m.order), Unfilled(Head(m.makers))})
    BY DEF Trade
  <2>2. Turn(m) = Traded1(m)
    BY <1>2, <2>1, Zenon DEF Turn, Traded1, Trade
  <2> QED BY <1>2, <2>2
<1> QED BY <1>1, <1>2

LEMMA FillsMore ==
    ASSUME NEW o \in Orders, NEW q \in Nat
    PROVE  LET p == [o EXCEPT !.filled = @ + q] IN
              p \in Orders /\ Like(p, o) /\ p.filled = o.filled + q
BY DEF Orders, Like

LEMMA BestLeaves ==
    ASSUME NEW s \in Seq(Orders), s # <<>>
    PROVE  /\ Len(s) \in Nat \ {0} /\ Head(s) = s[1] /\ s[1] \in Orders
           /\ Tail(s) \in Seq(Orders) /\ Len(Tail(s)) = Len(s) - 1
           /\ \A i \in 1..Len(Tail(s)) : i + 1 \in 1..Len(s) /\ Tail(s)[i] = s[i + 1]
<1>1. Len(s) \in Nat \ {0} /\ Head(s) \in Orders /\ Head(s) = s[1] /\ Tail(s) \in Seq(Orders)
      /\ Len(Tail(s)) = Len(s) - 1 /\ \A i \in 1..Len(Tail(s)) : Tail(s)[i] = s[i + 1]
  BY EmptySeq, HeadTailProperties
<1>2. \A i \in 1..Len(Tail(s)) : i + 1 \in 1..Len(s)
  BY <1>1
<1> QED BY <1>1, <1>2

LEMMA BestReplaced ==
    ASSUME NEW s \in Seq(Orders), s # <<>>, NEW h \in Orders
    PROVE  /\ <<h>> \o Tail(s) \in Seq(Orders) /\ Len(<<h>> \o Tail(s)) = Len(s)
           /\ (<<h>> \o Tail(s))[1] = h
           /\ \A i \in 1..Len(s) : i # 1 => (<<h>> \o Tail(s))[i] = s[i]
<1> DEFINE one == <<h>>
           t == one \o Tail(s)
<1>1. /\ Len(s) \in Nat \ {0} /\ Tail(s) \in Seq(Orders) /\ Len(Tail(s)) = Len(s) - 1
      /\ \A i \in 1..Len(Tail(s)) : Tail(s)[i] = s[i + 1]
  BY BestLeaves
<1>2. one \in Seq(Orders) /\ Len(one) = 1 /\ one[1] = h
  OBVIOUS
<1> HIDE DEF one
<1>3. t \in Seq(Orders) /\ Len(t) = 1 + Len(Tail(s))
      /\ \A i \in 1..1 + Len(Tail(s)) : t[i] = IF i <= 1 THEN one[i] ELSE Tail(s)[i - 1]
  <2> DEFINE rest == Tail(s)
  <2>1. rest \in Seq(Orders)
    BY <1>1
  <2> HIDE DEF rest
  <2>2. /\ one \o rest \in Seq(Orders) /\ Len(one \o rest) = Len(one) + Len(rest)
        /\ \A i \in 1..Len(one) + Len(rest) :
             (one \o rest)[i] = IF i <= Len(one) THEN one[i] ELSE rest[i - Len(one)]
    BY <1>2, <2>1, ConcatProperties
  <2>3. Len(one) = 1
    BY <1>2
  <2> QED BY <2>2, <2>3, Zenon DEF rest
<1> HIDE DEF t
<1>4. Len(t) = Len(s) /\ 1 \in 1..1 + Len(Tail(s))
  BY <1>1, <1>3
<1>5. t[1] = h
  BY <1>2, <1>3, <1>4
<1>6. ASSUME NEW i \in 1..Len(s), i # 1 PROVE t[i] = s[i]
  <2>1. i - 1 \in 1..Len(Tail(s)) /\ ~(i <= 1) /\ (i - 1) + 1 = i /\ i \in 1..1 + Len(Tail(s))
    BY <1>1, <1>6
  <2>2. t[i] = Tail(s)[i - 1]
    BY <1>3, <2>1, Zenon
  <2>3. Tail(s)[i - 1] = s[(i - 1) + 1]
    BY <1>1, <2>1
  <2> QED BY <2>1, <2>2, <2>3
<1> QED BY <1>3, <1>4, <1>5, <1>6 DEF t, one

(* The trade of a turn, and what it is worth to each order.                *)
TradeCounts(m, k, T) ==
    LET x == Trade(m)
        b == m.makers[1]
        U == T \cup m.trades
    IN  /\ x \in NewTrades(k) /\ x.maker = b.n /\ x.taker = k + 1 /\ x.qty \in Nat
        /\ x.qty <= Unfilled(m.order) /\ x.qty <= Unfilled(b)
        /\ x.qty = Unfilled(m.order) \/ x.qty = Unfilled(b)
        /\ Vol(b.n, U \cup {x}) = Vol(b.n, U) + x.qty
        /\ Vol(k + 1, U \cup {x}) = Vol(k + 1, U) + x.qty
        /\ \A n : n # b.n /\ n # k + 1 => Vol(n, U \cup {x}) = Vol(n, U)

LEMMA TradeIsNew ==
    ASSUME NEW k \in Nat, NEW side, NEW makers, Side(makers, side, k),
           NEW order, order.n = k + 1, NEW T \in SUBSET TradesOf(k), IsFiniteSet(T),
           NEW m \in Matchings(k), Matched(m, order, makers, k, T),
           m.makers # <<>>, Unfilled(m.order) # 0
    PROVE  TradeCounts(m, k, T)
<1> DEFINE x == Trade(m)
           b == m.makers[1]
           U == T \cup m.trades
           o == m.order
<1>1. o \in Orders /\ m.makers \in Seq(Orders) /\ m.trades \in SUBSET NewTrades(k)
  BY DEF Matchings
<1>2. Len(m.makers) \in Nat \ {0} /\ Head(m.makers) = b /\ b \in Orders
  BY <1>1, BestLeaves
<1>3. PICK d \in 0..Len(makers) : Rests(m.makers, makers, d)
  BY DEF Matched
<1>4. Len(makers) \in Nat
  BY LenProperties DEF Side
<1>5. 1 \in 1..Len(m.makers) /\ 1 + d \in 1..Len(makers)
  BY <1>2, <1>3, <1>4 DEF Rests
<1>6. b.filled < b.qty /\ b.n \in 1..k
  <2>1. Like(b, makers[1 + d]) /\ b.filled < b.qty
    BY <1>3, <1>5 DEF Rests
  <2>2. makers[1 + d].n \in 1..k
    BY <1>5 DEF Side
  <2> QED BY <2>1, <2>2 DEF Like
<1>7. o.n = k + 1 /\ o.filled <= o.qty /\ {o.filled, o.qty, b.filled, b.qty} \subseteq Nat
      /\ b.price \in Int /\ IsFiniteSet(m.trades) /\ b.filled < b.qty
  BY <1>1, <1>2, <1>6 DEF Matched, Like, Orders
<1>8. o.filled < o.qty
  BY <1>7 DEF Unfilled
<1>9. Unfilled(o) \in Nat \ {0} /\ Unfilled(b) \in Nat \ {0}
  <2> HIDE DEF o, b
  <2>1. {o.filled, o.qty, b.filled, b.qty} \subseteq Nat
    BY <1>7
  <2>2. o.qty - o.filled \in Nat \ {0}
    BY <1>8, <2>1
  <2>3. b.filled < b.qty
    BY <1>7
  <2>4. b.qty - b.filled \in Nat \ {0}
    BY <2>1, <2>3
  <2> QED BY <2>2, <2>4 DEF Unfilled
<1>10. x.qty \in Nat /\ x.qty <= Unfilled(o) /\ x.qty <= Unfilled(b)
       /\ (x.qty = Unfilled(o) \/ x.qty = Unfilled(b))
  <2>1. x.qty = Min({Unfilled(o), Unfilled(b)})
    BY <1>2 DEF Trade
  <2> DEFINE u == Unfilled(o)
             v == Unfilled(b)
  <2>2. u \in Int /\ v \in Int /\ u \in Nat /\ v \in Nat
    BY <1>9
  <2> HIDE DEF x, o, b, u, v
  <2>3. Min({u, v}) \in {u, v} /\ Min({u, v}) <= u /\ Min({u, v}) <= v
    BY <2>2, MinOfTwo
  <2>4. x.qty = Min({u, v})
    BY <2>1 DEF u, v
  <2>5. x.qty \in Nat /\ x.qty <= u /\ x.qty <= v /\ (x.qty = u \/ x.qty = v)
    BY <2>2, <2>3, <2>4
  <2> QED BY <2>5 DEF u, v
<1>11. x = [maker |-> b.n, taker |-> o.n, price |-> b.price, qty |-> x.qty]
       /\ x.maker = b.n /\ x.taker = o.n
  BY <1>2 DEF Trade
<1> HIDE DEF x
<1>12. x \in NewTrades(k)
  <2> HIDE DEF b, o
  <2> QED BY <1>6, <1>7, <1>10, <1>11 DEF NewTrades
<1>13. x \notin U
  <2>1. \A t \in T : t.taker # k + 1
    BY DEF TradesOf
  <2>2. \A t \in m.trades : t.maker # b.n
    BY <1>5, <1>8 DEF Matched
  <2> QED BY <1>7, <1>11, <2>1, <2>2
<1>14. IsFiniteSet(U) /\ \A t \in U : t.qty \in Nat
  <2>1. IsFiniteSet(U)
    BY <1>7, FS_Union
  <2> QED BY <1>1, <2>1 DEF TradesOf, NewTrades
<1>15. \A n : n # b.n /\ n # k + 1 => Vol(n, U \cup {x}) = Vol(n, U)
  <2>1. ASSUME NEW n, n # b.n, n # k + 1 PROVE Vol(n, U \cup {x}) = Vol(n, U)
    <3>1. \A t \in {x} : n # t.maker /\ n # t.taker
      BY <1>7, <1>11, <2>1
    <3> HIDE DEF U
    <3> QED BY <3>1, VolSame
  <2> QED BY <2>1
<1>16. b.n \in {x.maker, x.taker} /\ k + 1 \in {x.maker, x.taker} /\ x.taker = k + 1
  BY <1>7, <1>11
<1> HIDE DEF U, b, o
<1>17. Vol(b.n, U \cup {x}) = Vol(b.n, U) + x.qty
  BY <1>10, <1>13, <1>14, <1>16, VolAdds
<1>18. Vol(k + 1, U \cup {x}) = Vol(k + 1, U) + x.qty
  BY <1>10, <1>13, <1>14, <1>16, VolAdds
<1>19. x.maker = b.n
  BY <1>11
<1> QED BY <1>10, <1>12, <1>15, <1>16, <1>17, <1>18, <1>19, Zenon DEF x, b, U, o, TradeCounts

LEMMA TradeKeeps ==
    ASSUME NEW k \in Nat, NEW side, NEW makers, Side(makers, side, k),
           NEW order, order.n = k + 1, NEW T \in SUBSET TradesOf(k), IsFiniteSet(T),
           NEW m \in Matchings(k), Matched(m, order, makers, k, T),
           m.makers # <<>>, Unfilled(m.order) # 0
    PROVE  Traded1(m) \in Matchings(k) /\ Matched(Traded1(m), order, makers, k, T)
<1> DEFINE x == Trade(m)
           q == x.qty
           s == m.makers
           b == s[1]
           o == m.order
           U == T \cup m.trades
           W == U \cup {x}
           new == Traded1(m)
           h == [b EXCEPT !.filled = @ + q]
           p == [o EXCEPT !.filled = @ + q]
           t == IF q = Unfilled(b) THEN Tail(s) ELSE <<h>> \o Tail(s)
<1>1. /\ x \in NewTrades(k) /\ x.maker = b.n /\ x.taker = k + 1 /\ q \in Nat
      /\ q <= Unfilled(o) /\ q <= Unfilled(b)
      /\ q = Unfilled(o) \/ q = Unfilled(b)
      /\ Vol(b.n, W) = Vol(b.n, U) + q
      /\ Vol(k + 1, W) = Vol(k + 1, U) + q
      /\ \A n : n # b.n /\ n # k + 1 => Vol(n, W) = Vol(n, U)
  <2>1. TradeCounts(m, k, T)
    BY TradeIsNew
  <2> QED BY <2>1, Zenon DEF TradeCounts
<1>2. o \in Orders /\ s \in Seq(Orders) /\ m.trades \in SUBSET NewTrades(k)
  BY DEF Matchings
<1>3. /\ Len(s) \in Nat \ {0} /\ Head(s) = b /\ b \in Orders
      /\ Tail(s) \in Seq(Orders) /\ Len(Tail(s)) = Len(s) - 1
      /\ \A i \in 1..Len(Tail(s)) : i + 1 \in 1..Len(s) /\ Tail(s)[i] = s[i + 1]
      /\ \A i \in 1..Len(s) : s[i] \in Orders
  BY <1>2, BestLeaves, ElementOfSeq
<1>4. PICK d \in 0..Len(makers) : Rests(s, makers, d)
  BY DEF Matched
<1>5. /\ Like(o, order) /\ o.filled <= o.qty /\ Backed(s, U)
      /\ IsFiniteSet(m.trades) /\ o.filled = Vol(k + 1, U)
      /\ \A y \in m.trades : \E j \in 1..Len(makers) : y.maker = makers[j].n
      /\ o.filled < o.qty => \A y \in m.trades : \A i \in 1..Len(s) : s[i].n # y.maker
  BY DEF Matched
<1>6. /\ Len(makers) \in Nat
      /\ \A i \in 1..Len(makers) : makers[i].n \in 1..k
      /\ \A i, j \in 1..Len(makers) : i # j => makers[i].n # makers[j].n
  BY LenProperties DEF Side
<1>7. /\ Len(s) = Len(makers) - d
      /\ \A i \in 1..Len(s) : /\ i + d \in 1..Len(makers) /\ Like(s[i], makers[i + d])
                              /\ s[i].filled < s[i].qty
  BY <1>3, <1>4, <1>6 DEF Rests
<1>8. new.order = p /\ new.makers = t /\ new.price = b.price /\ new.trades = m.trades \cup {x}
      /\ new = [order |-> p, makers |-> t, price |-> b.price, trades |-> m.trades \cup {x}]
  BY <1>3, Zenon DEF Traded1
<1> HIDE DEF new
<1>9. p \in Orders /\ Like(p, o) /\ p.filled = o.filled + q
      /\ h \in Orders /\ Like(h, b) /\ h.filled = b.filled + q
  BY <1>1, <1>2, <1>3, FillsMore
<1> HIDE DEF p, h
<1>10. /\ <<h>> \o Tail(s) \in Seq(Orders) /\ Len(<<h>> \o Tail(s)) = Len(s)
       /\ (<<h>> \o Tail(s))[1] = h
       /\ \A i \in 1..Len(s) : i # 1 => (<<h>> \o Tail(s))[i] = s[i]
  <2> HIDE DEF s, b
  <2> QED BY <1>2, <1>9, BestReplaced DEF s
<1>11. {o.filled, o.qty, b.filled, b.qty} \subseteq Nat /\ b.price \in Int
  BY <1>2, <1>3 DEF Orders
<1>12. t \in Seq(Orders)
       /\ \/ q = Unfilled(b) /\ t = Tail(s)
          \/ q # Unfilled(b) /\ t = <<h>> \o Tail(s) /\ q = Unfilled(o)
  BY <1>1, <1>3, <1>10
<1> HIDE DEF t, x, q, U
<1>13. new \in Matchings(k)
  <2>1. m.trades \cup {x} \in SUBSET NewTrades(k)
    BY <1>1, <1>2
  <2> QED BY <1>8, <1>9, <1>11, <1>12, <2>1 DEF Matchings
<1>14. \A i, j \in 1..Len(s) : i # j => s[i].n # s[j].n
  <2>1. ASSUME NEW i \in 1..Len(s), NEW j \in 1..Len(s), i # j PROVE s[i].n # s[j].n
    <3>1. i + d \in 1..Len(makers) /\ j + d \in 1..Len(makers) /\ i + d # j + d
      BY <1>7, <2>1
    <3>2. s[i].n = makers[i + d].n /\ s[j].n = makers[j + d].n
      BY <1>7 DEF Like
    <3> QED BY <1>6, <3>1, <3>2
  <2> QED BY <2>1
<1>15. \A i \in 1..Len(s) : s[i].n \in 1..k /\ s[i].n # k + 1
  <2>1. ASSUME NEW i \in 1..Len(s) PROVE s[i].n \in 1..k
    <3>1. s[i].n = makers[i + d].n /\ i + d \in 1..Len(makers)
      BY <1>7 DEF Like
    <3> QED BY <1>6, <3>1
  <2> QED BY <2>1
<1>16. T \cup new.trades = W
  BY <1>8 DEF U
<1>17. 1 \in 1..Len(s) /\ b.filled = Vol(b.n, U) /\ \A i \in 1..Len(s) : s[i].filled = Vol(s[i].n, U)
  BY <1>3, <1>5 DEF Backed
<1>18. \A i \in 1..Len(s) : i # 1 => s[i].filled = Vol(s[i].n, W)
  <2>1. ASSUME NEW i \in 1..Len(s), i # 1 PROVE s[i].filled = Vol(s[i].n, W)
    <3>1. s[i].n # b.n /\ s[i].n # k + 1
      BY <1>14, <1>15, <1>17, <2>1
    <3> QED BY <1>1, <1>17, <3>1
  <2> QED BY <2>1
<1> HIDE DEF W
<1> DEFINE Left == /\ \E e \in 0..Len(makers) : Rests(t, makers, e)
                   /\ Backed(t, W)
                   /\ p.filled < p.qty =>
                        \A y \in m.trades \cup {x} : \A i \in 1..Len(t) : t[i].n # y.maker
<1>19. ASSUME q = Unfilled(b) /\ t = Tail(s) PROVE Left
  <2>1. \A i \in 1..Len(t) : i + 1 \in 1..Len(s) /\ i + 1 # 1 /\ t[i] = s[i + 1]
    BY <1>3, <1>19
  <2>2. Backed(t, W)
    BY <1>18, <2>1 DEF Backed
  <2>3. Rests(t, makers, d + 1) /\ d + 1 \in 0..Len(makers)
    <3>1. d + 1 \in 0..Len(makers) /\ Len(t) = Len(makers) - (d + 1)
      BY <1>3, <1>6, <1>7, <1>19
    <3>2. ASSUME NEW i \in 1..Len(t) PROVE Like(t[i], makers[i + (d + 1)]) /\ t[i].filled < t[i].qty
      <4>1. (i + 1) + d = i + (d + 1)
        OBVIOUS
      <4> QED BY <1>7, <2>1, <4>1
    <3> QED BY <3>1, <3>2 DEF Rests
  <2>4. p.filled < p.qty => \A y \in m.trades \cup {x} : \A i \in 1..Len(t) : t[i].n # y.maker
    <3>1. ASSUME p.filled < p.qty, NEW y \in m.trades \cup {x}, NEW i \in 1..Len(t)
          PROVE  t[i].n # y.maker
      <4>1. o.filled < o.qty
        <5>1. p.qty = o.qty
          BY <1>9 DEF Like
        <5>2. p.filled = o.filled + q /\ q \in Nat /\ {o.filled, o.qty} \subseteq Nat
          BY <1>1, <1>9, <1>11
        <5> HIDE DEF o
        <5> QED BY <3>1, <5>1, <5>2
      <4>2. i + 1 \in 1..Len(s) /\ i + 1 # 1 /\ t[i] = s[i + 1]
        BY <2>1
      <4>3. y \in m.trades => s[i + 1].n # y.maker
        BY <1>5, <4>1, <4>2
      <4>4. s[i + 1].n # b.n
        BY <1>14, <1>17, <4>2
      <4>5. y \in {x} => y.maker = b.n
        BY <1>1
      <4> QED BY <3>1, <4>2, <4>3, <4>4, <4>5
    <3> QED BY <3>1
  <2> QED BY <2>2, <2>3, <2>4
<1>20. ASSUME q # Unfilled(b) /\ t = <<h>> \o Tail(s) /\ q = Unfilled(o) PROVE Left
  <2>1. Len(t) = Len(s) /\ t[1] = h /\ \A i \in 1..Len(t) : i # 1 => t[i] = s[i]
    BY <1>10, <1>20
  <2>2. Backed(t, W)
    <3>1. h.filled = Vol(h.n, W)
      BY <1>1, <1>9, <1>17 DEF Like
    <3> QED BY <1>18, <2>1, <3>1 DEF Backed
  <2>3. Rests(t, makers, d)
    <3>1. h.filled < h.qty
      <4>1. h.filled = b.filled + q /\ h.qty = b.qty /\ q <= b.qty - b.filled
            /\ q # b.qty - b.filled
        BY <1>1, <1>9, <1>20, Zenon DEF Like, Unfilled
      <4>2. q \in Nat /\ b.filled \in Nat /\ b.qty \in Nat
        BY <1>1, <1>11
      <4> HIDE DEF b
      <4> QED BY <4>1, <4>2
    <3>2. Like(h, makers[1 + d])
      <4>1. Like(b, makers[1 + d])
        BY <1>7, <1>17
      <4> QED BY <1>9, <4>1 DEF Like
    <3>3. \A i \in 1..Len(t) : Like(t[i], makers[i + d]) /\ t[i].filled < t[i].qty
      BY <1>7, <2>1, <3>1, <3>2
    <3> QED BY <1>7, <2>1, <3>3 DEF Rests
  <2>4. ~(p.filled < p.qty)
    <3>1. p.filled = o.filled + q /\ p.qty = o.qty /\ q = o.qty - o.filled
      BY <1>9, <1>20, Zenon DEF Like, Unfilled
    <3>2. o.filled \in Nat /\ o.qty \in Nat
      BY <1>11
    <3> HIDE DEF o
    <3> QED BY <3>1, <3>2
  <2> QED BY <2>2, <2>3, <2>4
<1>21. Left
  BY <1>12, <1>19, <1>20
<1>22. Like(p, order) /\ p.filled <= p.qty /\ p.filled = Vol(k + 1, W)
  BY <1>1, <1>5, <1>9, <1>11 DEF Like, Unfilled
<1>23. IsFiniteSet(m.trades \cup {x})
  BY <1>5, FS_AddElement
<1>24. \A y \in m.trades \cup {x} : \E j \in 1..Len(makers) : y.maker = makers[j].n
  <2>1. x.maker = makers[1 + d].n /\ 1 + d \in 1..Len(makers)
    BY <1>1, <1>7, <1>17 DEF Like
  <2> QED BY <1>5, <2>1
<1>25. Matched(new, order, makers, k, T)
  BY <1>8, <1>16, <1>21, <1>22, <1>23, <1>24, Zenon DEF Matched
<1> QED BY <1>13, <1>25 DEF new

LEMMA MatchKeeps ==
    ASSUME NEW k \in Nat, NEW side, NEW makers, Side(makers, side, k),
           NEW order \in Orders, order.n = k + 1, order.filled = 0,
           NEW T \in SUBSET TradesOf(k), IsFiniteSet(T), Backed(makers, T),
           lastPrice \in Int, NEW n \in Nat
    PROVE  LET m == Match(order, makers, n) IN
              m \in Matchings(k) /\ Matched(m, order, makers, k, T)
<1> DEFINE V == {m \in Matchings(k) : Matched(m, order, makers, k, T)}
           start == [order |-> order, makers |-> makers, price |-> lastPrice, trades |-> {}]
<1>1. start \in V
  <2>1. start.order = order /\ start.makers = makers /\ start.trades = {}
    OBVIOUS
  <2>2. start \in Matchings(k)
    BY DEF Matchings, Side
  <2> HIDE DEF start
  <2>3. Len(makers) \in Nat
    BY LenProperties DEF Side
  <2>4. Rests(makers, makers, 0) /\ 0 \in 0..Len(makers)
    BY <2>3 DEF Rests, Like, Side
  <2>5. T \cup {} = T
    OBVIOUS
  <2>6. Vol(k + 1, T) = 0
    <3>1. \A t \in T : k + 1 # t.maker /\ k + 1 # t.taker
      BY DEF TradesOf
    <3> QED BY <3>1, VolOfNone
  <2>7. Like(order, order) /\ order.filled <= order.qty /\ IsFiniteSet({})
    BY FS_EmptySet DEF Like, Orders
  <2>8. Matched(start, order, makers, k, T)
    BY <2>1, <2>4, <2>5, <2>6, <2>7 DEF Matched
  <2> QED BY <2>2, <2>8
<1>2. ASSUME NEW m \in V PROVE Turn(m) \in V
  <2>1. m \in Matchings(k) /\ Matched(m, order, makers, k, T)
    OBVIOUS
  <2>2. ASSUME m.makers # <<>>, Unfilled(m.order) # 0 PROVE Traded1(m) \in V
    <3>1. Traded1(m) \in Matchings(k) /\ Matched(Traded1(m), order, makers, k, T)
      BY <2>1, <2>2, TradeKeeps
    <3> QED BY <3>1
  <2> QED BY <2>2, TurnIs
<1> HIDE DEF V, start
<1>3. Match(order, makers, n) \in V
  BY <1>1, <1>2, MatchStays DEF start
<1> QED BY <1>3 DEF V

----------------------------------------------------------------------------
(* Placing an order.                                                       *)

Apart(s, t) == \A i \in 1..Len(s), j \in 1..Len(t) : s[i].n # t[j].n

(* No order of s could trade with one of t.                                *)
Ordered(s, t) ==
    /\ Prioritised(s) /\ Prioritised(t)
    /\ \A i \in 1..Len(s), j \in 1..Len(t) : ~Crosses(s[i], t[j])

LEMMA ExecutionIs ==
    ASSUME NEW own, NEW opposite, NEW order, NEW n
    PROVE  LET e == Execution(own, opposite, order, n)
               r == Match(order, opposite, n)
           IN  /\ e.opposite = r.makers /\ e.trades = r.trades /\ e.price = r.price
               /\ \/ e.own = own
                  \/ /\ Unfilled(r.order) > 0 /\ e.own = Rested(own, r.order)
                     /\ r.makers = <<>> \/ ~Crosses(e.own[1], Head(r.makers))
<1> DEFINE e == Execution(own, opposite, order, n)
           r == Match(order, opposite, n)
           more == Unfilled(r.order) > 0
           slips == more /\ r.makers # <<>> /\ Crosses(order, Head(r.makers))
           rested == Rested(own, r.order)
           rests == more /\ ~slips /\ order.price > 0
           crossed == rests /\ r.makers # <<>> /\ Crosses(rested[1], Head(r.makers))
<1>1. e = [trades |-> r.trades, price |-> r.price, raised |-> slips \/ crossed,
           own |-> IF rests /\ ~crossed THEN rested ELSE own, opposite |-> r.makers]
  BY Zenon DEF Execution
<1>2. e.opposite = r.makers /\ e.trades = r.trades /\ e.price = r.price
      /\ e.own = IF rests /\ ~crossed THEN rested ELSE own
  <2> HIDE DEF e, r, rested, rests, crossed, slips
  <2> QED BY <1>1
<1>3. CASE rests /\ ~crossed
  <2>1. e.own = rested
    BY <1>2, <1>3, Zenon
  <2> QED BY <1>2, <1>3, <2>1, Zenon
<1>4. CASE ~(rests /\ ~crossed)
  <2>1. e.own = own
    BY <1>2, <1>4, Zenon
  <2> QED BY <1>2, <2>1, Zenon
<1> QED BY <1>3, <1>4

LEMMA SideGrows ==
    ASSUME NEW s, NEW side, NEW k \in Nat, Side(s, side, k)
    PROVE  Side(s, side, k + 1)
BY DEF Side

(* A side with one more order, put in order.                               *)
RestsAmong(t, s, o, k) ==
    /\ Side(t, o.side, k + 1) /\ Prioritised(t)
    /\ \A i \in 1..Len(t) : t[i] = o \/ \E j \in 1..Len(s) : t[i] = s[j]

LEMMA RestedIs ==
    ASSUME NEW s, NEW k \in Nat, NEW o \in Orders, Side(s, o.side, k),
           o.n = k + 1, o.filled < o.qty
    PROVE  RestsAmong(Rested(s, o), s, o, k)
<1> DEFINE a == Append(s, o)
           t == Sorted(a)
<1>1. /\ s \in Seq(Orders) /\ Len(s) \in Nat
      /\ \A i \in 1..Len(s) : s[i].side = o.side /\ s[i].filled < s[i].qty /\ s[i].n \in 1..k
      /\ \A i, j \in 1..Len(s) : i # j => s[i].n # s[j].n
  BY LenProperties DEF Side
<1>2. a \in Seq(Orders) /\ Len(a) = Len(s) + 1
      /\ (\A i \in 1..Len(s) : a[i] = s[i]) /\ a[Len(s) + 1] = o
  BY <1>1, AppendProperties
<1> HIDE DEF a
<1>3. \A i \in 1..Len(a) : (i \in 1..Len(s) /\ a[i] = s[i]) \/ (i = Len(s) + 1 /\ a[i] = o)
  BY <1>1, <1>2
<1>4. Side(a, o.side, k + 1)
  <2>1. \A i, j \in 1..Len(a) : i # j => a[i].n # a[j].n
    BY <1>1, <1>3
  <2>2. \A i \in 1..Len(a) : a[i].side = o.side /\ a[i].filled < a[i].qty /\ a[i].n \in 1..k + 1
    BY <1>1, <1>3
  <2> QED BY <1>2, <2>1, <2>2 DEF Side
<1>5. Arranged(t, a, Len(a), o.side, k + 1)
  <2>1. k + 1 \in Nat
    OBVIOUS
  <2> QED BY <1>4, <2>1, SortedArranges
<1> HIDE DEF t
<1>6. /\ Side(t, o.side, k + 1) /\ Prioritised(t)
      /\ \A i \in 1..Len(t) : \E j \in 1..Len(a) : t[i] = a[j]
  BY <1>5 DEF Arranged
<1>7. \A i \in 1..Len(t) : t[i] = o \/ \E j \in 1..Len(s) : t[i] = s[j]
  BY <1>3, <1>6
<1>8. Rested(s, o) = t
  BY DEF Rested, t, a
<1>9. RestsAmong(t, s, o, k)
  BY <1>6, <1>7 DEF RestsAmong
<1> QED BY <1>8, <1>9

(* What is left of a side is still one.                                    *)
LEMMA RestsIs ==
    ASSUME NEW s, NEW side, NEW k \in Nat, Side(s, side, k),
           NEW t \in Seq(Orders), NEW d \in 0..Len(s), Rests(t, s, d)
    PROVE  /\ Side(t, side, k)
           /\ \A i \in 1..Len(t) : \E j \in 1..Len(s) : Like(t[i], s[j])
           /\ Prioritised(s) => Prioritised(t)
<1>1. /\ Len(s) \in Nat
      /\ \A i \in 1..Len(s) : s[i].side = side /\ s[i].n \in 1..k
      /\ \A i, j \in 1..Len(s) : i # j => s[i].n # s[j].n
  BY LenProperties DEF Side
<1>2. /\ Len(t) = Len(s) - d
      /\ \A i \in 1..Len(t) : Like(t[i], s[i + d]) /\ t[i].filled < t[i].qty
  BY DEF Rests
<1>3. \A i \in 1..Len(t) : i + d \in 1..Len(s)
  BY <1>1, <1>2
<1>4. \A i \in 1..Len(t) : t[i].side = side /\ t[i].n \in 1..k /\ t[i].n = s[i + d].n
  BY <1>1, <1>2, <1>3, Zenon DEF Like
<1>5. \A i, j \in 1..Len(t) : i # j => t[i].n # t[j].n
  <2>1. ASSUME NEW i \in 1..Len(t), NEW j \in 1..Len(t), i # j PROVE t[i].n # t[j].n
    <3> DEFINE p == i + d
               q == j + d
    <3>1. p # q
      BY <2>1
    <3>2. p \in 1..Len(s) /\ q \in 1..Len(s)
      BY <1>3
    <3>3. t[i].n = s[p].n /\ t[j].n = s[q].n
      BY <1>4
    <3> HIDE DEF p, q
    <3>4. s[p].n # s[q].n
      BY <1>1, <3>1, <3>2
    <3> QED BY <3>3, <3>4
  <2> QED BY <2>1
<1>6. Side(t, side, k)
  BY <1>2, <1>4, <1>5 DEF Side
<1>7. ASSUME Prioritised(s), NEW i \in 1..Len(t), NEW j \in 1..Len(t), i < j
      PROVE  Ahead(t[i], t[j])
  <2>1. i + d \in 1..Len(s) /\ j + d \in 1..Len(s) /\ i + d < j + d
    BY <1>3, <1>7
  <2>2. Ahead(s[i + d], s[j + d])
    BY <1>7, <2>1 DEF Prioritised
  <2> QED BY <1>2, <2>2 DEF Ahead, Like
<1> QED BY <1>2, <1>3, <1>6, <1>7 DEF Prioritised

(* Both sides before and after an order, with the trades so far.           *)
Sides(own, opposite, side, k, T) ==
    /\ Side(own, side, k)
    /\ Side(opposite, IF side = "buy" THEN "sell" ELSE "buy", k)
    /\ Apart(own, opposite) /\ Backed(own, T) /\ Backed(opposite, T)

Accepts(order, k) ==
    order \in Orders /\ order.n = k + 1 /\ order.filled = 0 /\ order.qty > 0

ExecutedWell(e, own, opposite, order, k, T) ==
    /\ Sides(e.own, e.opposite, order.side, k + 1, T \cup e.trades)
    /\ e.trades \in SUBSET NewTrades(k) /\ IsFiniteSet(e.trades) /\ e.price \in Int
    /\ \A i \in 1..Len(e.own) :
          Like(e.own[i], order) \/ \E j \in 1..Len(own) : Like(e.own[i], own[j])
    /\ \A i \in 1..Len(e.opposite) :
          \E j \in 1..Len(opposite) : Like(e.opposite[i], opposite[j])
    /\ Ordered(own, opposite) => Ordered(e.own, e.opposite)

LEMMA BestNotCrossing ==
    ASSUME NEW s, NEW t, NEW side \in {"buy", "sell"}, NEW k \in Nat,
           NEW other, other = IF side = "buy" THEN "sell" ELSE "buy",
           Side(s, side, k), Side(t, other, k), Prioritised(s), Prioritised(t),
           s # <<>>, t # <<>>, ~Crosses(s[1], Head(t))
    PROVE  \A i \in 1..Len(s), j \in 1..Len(t) : ~Crosses(s[i], t[j])
<1>1. /\ s \in Seq(Orders) /\ t \in Seq(Orders) /\ Len(s) \in Nat \ {0} /\ Len(t) \in Nat \ {0}
      /\ Head(t) = t[1]
      /\ \A i \in 1..Len(s) : s[i] \in Orders /\ s[i].side = side
      /\ \A i \in 1..Len(t) : t[i] \in Orders /\ t[i].side = other
  BY BestLeaves, ElementOfSeq DEF Side
<1>2. ASSUME NEW i \in 1..Len(s), NEW j \in 1..Len(t) PROVE ~Crosses(s[i], t[j])
  <2>1. i = 1 \/ Ahead(s[1], s[i])
    BY <1>1 DEF Prioritised
  <2>2. j = 1 \/ Ahead(t[1], t[j])
    BY <1>1 DEF Prioritised
  <2> QED
    <3> DEFINE a == s[1]
               b == s[i]
               c == t[1]
               d == t[j]
    <3>1. a \in Orders /\ b \in Orders /\ c \in Orders /\ d \in Orders
      BY <1>1
    <3>2. a.side = side /\ b.side = side /\ c.side = other /\ d.side = other
      BY <1>1
    <3>3. (b = a \/ Ahead(a, b)) /\ (d = c \/ Ahead(c, d)) /\ ~Crosses(a, c)
      BY <1>1, <2>1, <2>2
    <3> HIDE DEF a, b, c, d
    <3>4. a.price \in Int /\ b.price \in Int /\ c.price \in Int /\ d.price \in Int
      BY <3>1 DEF Orders
    <3>5. ~Crosses(b, d)
      <4>1. CASE side = "buy"
        BY <3>2, <3>3, <3>4, <4>1 DEF Ahead, Crosses
      <4>2. CASE side = "sell"
        BY <3>2, <3>3, <3>4, <4>2 DEF Ahead, Crosses
      <4> QED BY <4>1, <4>2
    <3> QED BY <3>5 DEF b, d
<1> QED BY <1>2

(* An order placed leaves both sides backed by the trades, and in order if *)
(* they were.                                                              *)
LEMMA ExecutionKeeps ==
    ASSUME NEW own, NEW opposite, NEW order, NEW k \in Nat, Accepts(order, k),
           NEW T \in SUBSET TradesOf(k), IsFiniteSet(T),
           Sides(own, opposite, order.side, k, T), lastPrice \in Int, NEW n \in Nat
    PROVE  ExecutedWell(Execution(own, opposite, order, n), own, opposite, order, k, T)
<1> DEFINE e == Execution(own, opposite, order, n)
           r == Match(order, opposite, n)
           side == order.side
           other == IF side = "buy" THEN "sell" ELSE "buy"
           o == r.order
           t == r.makers
           U == T \cup r.trades
<1>1. order \in Orders /\ order.n = k + 1 /\ order.filled = 0 /\ side \in {"buy", "sell"}
  BY DEF Accepts, Orders
<1>2. /\ Side(own, side, k) /\ Side(opposite, other, k) /\ Apart(own, opposite)
      /\ Backed(own, T) /\ Backed(opposite, T)
  BY DEF Sides
<1>3. /\ e.opposite = t /\ e.trades = r.trades /\ e.price = r.price
      /\ \/ e.own = own
         \/ /\ Unfilled(o) > 0 /\ e.own = Rested(own, o)
            /\ t = <<>> \/ ~Crosses(e.own[1], Head(t))
  BY ExecutionIs
<1>4. r \in Matchings(k) /\ Matched(r, order, opposite, k, T)
  <2> HIDE DEF other, side
  <2> QED BY <1>1, <1>2, MatchKeeps
<1> HIDE DEF e, r, other
<1>5. o \in Orders /\ t \in Seq(Orders) /\ r.price \in Int /\ r.trades \in SUBSET NewTrades(k)
  BY <1>4 DEF Matchings
<1>6. /\ Like(o, order) /\ Backed(t, U) /\ IsFiniteSet(r.trades) /\ o.filled = Vol(k + 1, U)
      /\ \A x \in r.trades : \E j \in 1..Len(opposite) : x.maker = opposite[j].n
  BY <1>4 DEF Matched
<1>7. PICK d \in 0..Len(opposite) : Rests(t, opposite, d)
  BY <1>4 DEF Matched
<1>8. o.side = side /\ o.n = k + 1
  BY <1>1, <1>6 DEF Like
<1> HIDE DEF side, o, t, U
<1>9. /\ Side(t, other, k)
      /\ \A i \in 1..Len(t) : \E j \in 1..Len(opposite) : Like(t[i], opposite[j])
      /\ Prioritised(opposite) => Prioritised(t)
  BY <1>2, <1>5, <1>7, RestsIs
<1>10. Side(own, side, k + 1) /\ Side(t, other, k + 1)
  BY <1>2, <1>9, SideGrows
<1>11. Len(own) \in Nat /\ Len(t) \in Nat /\ Len(opposite) \in Nat
  BY <1>2, <1>9, LenProperties DEF Side
<1>12. Apart(own, t)
  <2>1. ASSUME NEW i \in 1..Len(own), NEW j \in 1..Len(t) PROVE own[i].n # t[j].n
    <3>1. PICK p \in 1..Len(opposite) : Like(t[j], opposite[p])
      BY <1>9
    <3>2. own[i].n # opposite[p].n
      BY <1>2 DEF Apart
    <3> QED BY <3>1, <3>2 DEF Like
  <2> QED BY <2>1 DEF Apart
<1>13. Backed(own, U)
  <2>1. ASSUME NEW i \in 1..Len(own) PROVE own[i].filled = Vol(own[i].n, U)
    <3> DEFINE m == own[i].n
    <3>1. m \in 1..k
      BY <1>2 DEF Side
    <3>2. \A x \in r.trades : m # x.maker /\ m # x.taker
      <4>1. \A x \in r.trades : x.taker = k + 1
        BY <1>5 DEF NewTrades
      <4>2. \A j \in 1..Len(opposite) : m # opposite[j].n
        BY <1>2 DEF Apart
      <4> HIDE DEF m
      <4>3. m # k + 1
        BY <3>1
      <4> QED BY <1>6, <4>1, <4>2, <4>3, Zenon
    <3> HIDE DEF m
    <3>3. Vol(m, U) = Vol(m, T)
      BY <3>2, VolSame DEF U
    <3> QED BY <1>2, <3>3 DEF Backed, m
  <2> QED BY <2>1 DEF Backed
<1>14. CASE e.own = own
  <2>1. Sides(e.own, e.opposite, side, k + 1, T \cup e.trades)
    BY <1>3, <1>6, <1>10, <1>12, <1>13, <1>14 DEF Sides, other, U
  <2>2. \A i \in 1..Len(own) : Like(own[i], own[i])
    BY DEF Like
  <2>3. ASSUME Ordered(own, opposite) PROVE Ordered(own, t)
    <3>1. \A i \in 1..Len(own), j \in 1..Len(t) : ~Crosses(own[i], t[j])
      BY <1>9, <2>3, Zenon DEF Ordered, Crosses, Like
    <3> QED BY <1>9, <2>3, <3>1 DEF Ordered
  <2>4. e.trades \in SUBSET NewTrades(k) /\ IsFiniteSet(e.trades) /\ e.price \in Int
    BY <1>3, <1>5, <1>6
  <2>5. Ordered(own, opposite) => Ordered(e.own, e.opposite)
    BY <1>3, <1>14, <2>3, Zenon
  <2> QED BY <1>3, <1>9, <1>14, <2>1, <2>2, <2>4, <2>5, Zenon DEF ExecutedWell, side, e
<1>15. CASE /\ Unfilled(o) > 0 /\ e.own = Rested(own, o)
            /\ t = <<>> \/ ~Crosses(e.own[1], Head(t))
  <2> DEFINE s == Rested(own, o)
  <2>1. o.filled < o.qty
    BY <1>5, <1>15 DEF Unfilled, Orders
  <2>2. /\ Side(s, side, k + 1) /\ Prioritised(s)
        /\ \A i \in 1..Len(s) : s[i] = o \/ \E j \in 1..Len(own) : s[i] = own[j]
    <3>1. Side(own, o.side, k)
      BY <1>2, <1>8
    <3>2. o \in Orders /\ o.n = k + 1
      BY <1>5, <1>8
    <3>3. RestsAmong(Rested(own, o), own, o, k)
      BY <2>1, <3>1, <3>2, RestedIs
    <3>4. RestsAmong(s, own, o, k)
      BY <3>3
    <3> HIDE DEF s
    <3> QED BY <1>8, <3>4 DEF RestsAmong
  <2>3. e.own = s
    BY <1>15
  <2> HIDE DEF s
  <2>4. Apart(s, t)
    <3>1. \A j \in 1..Len(t) : o.n # t[j].n
      BY <1>8, <1>9 DEF Side
    <3>2. ASSUME NEW i \in 1..Len(s), NEW j \in 1..Len(t) PROVE s[i].n # t[j].n
      <4>1. CASE s[i] = o
        BY <3>1, <4>1
      <4>2. ASSUME NEW p \in 1..Len(own), s[i] = own[p] PROVE s[i].n # t[j].n
        BY <1>12, <4>2 DEF Apart
      <4> QED BY <2>2, <4>1, <4>2
    <3> QED BY <3>2 DEF Apart
  <2>5. Backed(s, U)
    BY <1>6, <1>8, <1>13, <2>2, Zenon DEF Backed
  <2>6. Sides(e.own, e.opposite, side, k + 1, T \cup e.trades)
    BY <1>3, <1>6, <1>10, <2>2, <2>3, <2>4, <2>5 DEF Sides, other, U
  <2>7. \A i \in 1..Len(s) : Like(s[i], order) \/ \E j \in 1..Len(own) : Like(s[i], own[j])
    <3>1. \A j \in 1..Len(own) : Like(own[j], own[j])
      BY DEF Like
    <3> QED BY <1>6, <2>2, <3>1, Zenon
  <2>8. ASSUME Ordered(own, opposite) PROVE Ordered(s, t)
    <3>1. Prioritised(t)
      BY <1>9, <2>8 DEF Ordered
    <3>2. CASE t = <<>> \/ s = <<>>
      BY <2>2, <3>1, <3>2 DEF Ordered
    <3>3. CASE t # <<>> /\ s # <<>>
      <4>1. ~Crosses(s[1], Head(t)) /\ k + 1 \in Nat
        BY <1>15, <2>3, <3>3
      <4>2. other = IF side = "buy" THEN "sell" ELSE "buy"
        BY DEF other
      <4>3. side \in {"buy", "sell"}
        BY <1>1
      <4>4. \A i \in 1..Len(s), j \in 1..Len(t) : ~Crosses(s[i], t[j])
        BY <1>10, <2>2, <3>1, <3>3, <4>1, <4>2, <4>3, BestNotCrossing
      <4> QED BY <2>2, <3>1, <4>4 DEF Ordered
    <3> QED BY <3>2, <3>3
  <2>9. e.trades \in SUBSET NewTrades(k) /\ IsFiniteSet(e.trades) /\ e.price \in Int
    BY <1>3, <1>5, <1>6
  <2>10. Ordered(own, opposite) => Ordered(e.own, e.opposite)
    BY <1>3, <2>3, <2>8, Zenon
  <2> QED BY <1>3, <1>9, <2>3, <2>6, <2>7, <2>9, <2>10, Zenon DEF ExecutedWell, side, e
<1> QED BY <1>3, <1>14, <1>15 DEF e

(* Of two sides it does not matter which is asked to cross the other.      *)
LEMMA OrderedFlips ==
    ASSUME NEW s, NEW t, NEW k \in Nat, Side(s, "buy", k), Side(t, "sell", k)
    PROVE  Ordered(s, t) <=> Ordered(t, s)
<1>1. /\ \A i \in 1..Len(s) : s[i].price \in Int /\ s[i].side = "buy"
      /\ \A i \in 1..Len(t) : t[i].price \in Int /\ t[i].side = "sell"
  <2>1. /\ \A i \in 1..Len(s) : s[i] \in Orders /\ s[i].side = "buy"
        /\ \A i \in 1..Len(t) : t[i] \in Orders /\ t[i].side = "sell"
    BY ElementOfSeq DEF Side
  <2>2. \A x \in Orders : x.price \in Int
    BY DEF Orders
  <2> QED BY <2>1, <2>2, Zenon
<1>2. \A i \in 1..Len(s), j \in 1..Len(t) : Crosses(s[i], t[j]) <=> Crosses(t[j], s[i])
  BY <1>1 DEF Crosses
<1> QED BY <1>2 DEF Ordered

----------------------------------------------------------------------------
(* What holds of the book: its sides are backed by the tape, and unless the *)
(* injector wrote into it they are in order.                                *)
Taped(T, k) == T \in SUBSET TradesOf(k) /\ IsFiniteSet(T)

BookInv ==
    /\ placed \in 4..MaxOrders /\ lastPrice \in Int
    /\ Taped(tape, placed)
    /\ Sides(bids, asks, "buy", placed, tape)
    /\ ~injected => Ordered(bids, asks)

(* The resting orders of the strategy are those the venue numbered.         *)
Known(s, numbered) ==
    \A i \in 1..Len(s) : s[i].owner \in VenueIds =>
        s[i].n = numbered[s[i].owner].n /\ s[i].qty = numbered[s[i].owner].size

VenueInv ==
    /\ venueOpen \subseteq VenueIds
    /\ venueOrders \in [VenueIds -> [n : Nat, size : Nat]]
    /\ venueFilled \in [VenueIds -> Nat]
    /\ \A id \in VenueIds : venueFilled[id] <= Vol(venueOrders[id].n, tape)
    /\ Known(bids, venueOrders) /\ Known(asks, venueOrders)
    /\ venuePosition = None \/ venuePosition.size \in Nat \ {0}

LEMMA TapedMore ==
    ASSUME NEW k \in Nat, NEW T, Taped(T, k)
    PROVE  /\ Taped(T, k + 1) /\ Vol(k + 1, T) = 0 /\ Vol(0, T) = 0
           /\ \A x \in T : x.qty \in Nat
<1>1. \A x \in T : x.maker \in 1..k /\ x.taker \in 1..k /\ x.qty \in Nat
  BY DEF Taped, TradesOf
<1>2. 1..k \subseteq 1..k + 1
  OBVIOUS
<1>3. TradesOf(k) \subseteq TradesOf(k + 1)
  BY <1>2 DEF TradesOf
<1>4. \A x \in T : k + 1 # x.maker /\ k + 1 # x.taker /\ 0 # x.maker /\ 0 # x.taker
  BY <1>1
<1>5. Vol(k + 1, T) = 0
  BY <1>4, VolOfNone
<1>6. Vol(0, T) = 0
  BY <1>4, VolOfNone
<1>7. Taped(T, k + 1)
  BY <1>3 DEF Taped
<1> QED BY <1>1, <1>5, <1>6, <1>7

LEMMA SidesFlip ==
    ASSUME NEW s, NEW t, NEW k, NEW T
    PROVE  Sides(s, t, "buy", k, T) <=> Sides(t, s, "sell", k, T)
BY DEF Sides, Apart

(* Orders can be taken out of the book.                                     *)
LEMMA LessOfBook ==
    ASSUME NEW k \in Nat, NEW T, NEW s, NEW t, NEW b, NEW a,
           Sides(s, t, "buy", k, T),
           Side(b, "buy", k), From(b, s), Prioritised(s) => Prioritised(b),
           Side(a, "sell", k), From(a, t), Prioritised(t) => Prioritised(a)
    PROVE  Sides(b, a, "buy", k, T) /\ (Ordered(s, t) => Ordered(b, a))
<1>1. Apart(s, t) /\ Backed(s, T) /\ Backed(t, T)
  BY DEF Sides
<1>2. Apart(b, a)
  <2>1. ASSUME NEW i \in 1..Len(b), NEW j \in 1..Len(a) PROVE b[i].n # a[j].n
    <3>1. PICK p \in 1..Len(s) : b[i] = s[p]
      BY Zenon DEF From
    <3>2. PICK q \in 1..Len(t) : a[j] = t[q]
      BY Zenon DEF From
    <3> QED BY <1>1, <3>1, <3>2, Zenon DEF Apart
  <2> QED BY <2>1 DEF Apart
<1>3. Backed(b, T) /\ Backed(a, T)
  <2>1. ASSUME NEW i \in 1..Len(b) PROVE b[i].filled = Vol(b[i].n, T)
    <3>1. PICK p \in 1..Len(s) : b[i] = s[p]
      BY Zenon DEF From
    <3> QED BY <1>1, <3>1, Zenon DEF Backed
  <2>2. ASSUME NEW i \in 1..Len(a) PROVE a[i].filled = Vol(a[i].n, T)
    <3>1. PICK p \in 1..Len(t) : a[i] = t[p]
      BY Zenon DEF From
    <3> QED BY <1>1, <3>1, Zenon DEF Backed
  <2> QED BY <2>1, <2>2 DEF Backed
<1>4. Sides(b, a, "buy", k, T)
  BY <1>2, <1>3 DEF Sides
<1>5. ASSUME Ordered(s, t) PROVE Ordered(b, a)
  <2>1. \A i \in 1..Len(b), j \in 1..Len(a) : ~Crosses(b[i], a[j])
    BY <1>5, Zenon DEF Ordered, From
  <2> QED BY <1>5, <2>1 DEF Ordered
<1> QED BY <1>4, <1>5

LEMMA FromItself ==
    ASSUME NEW s
    PROVE  From(s, s)
BY DEF From

LEMMA KnownFrom ==
    ASSUME NEW s, NEW t, NEW numbered, Known(s, numbered), From(t, s)
    PROVE  Known(t, numbered)
<1>1. ASSUME NEW i \in 1..Len(t), t[i].owner \in VenueIds
      PROVE  t[i].n = numbered[t[i].owner].n /\ t[i].qty = numbered[t[i].owner].size
  <2>1. PICK j \in 1..Len(s) : t[i] = s[j]
    BY Zenon DEF From
  <2> QED BY <1>1, <2>1, Zenon DEF Known
<1> QED BY <1>1, Zenon DEF Known

LEMMA PrefixKeeps ==
    ASSUME NEW side, NEW k \in Nat, NEW s, Side(s, side, k), NEW d \in 0..Len(s)
    PROVE  LET t == SubSeq(s, 1, d) IN
              /\ Side(t, side, k) /\ From(t, s) /\ (Prioritised(s) => Prioritised(t))
<1> DEFINE t == SubSeq(s, 1, d)
<1>1. /\ s \in Seq(Orders) /\ Len(s) \in Nat
      /\ \A i \in 1..Len(s) : s[i] \in Orders /\ s[i].side = side /\ s[i].filled < s[i].qty /\ s[i].n \in 1..k
      /\ \A i, j \in 1..Len(s) : i # j => s[i].n # s[j].n
  BY LenProperties, ElementOfSeq DEF Side
<1>2. t \in Seq(Orders) /\ Len(t) = d /\ \A i \in 1..d : t[i] = s[i]
  <2>1. \A i \in 1..d : s[i] \in Orders
    BY <1>1
  <2> QED BY <1>1, <2>1, SubSeqProperties
<1> HIDE DEF t
<1>3. \A i \in 1..Len(t) : i \in 1..Len(s) /\ t[i] = s[i]
  BY <1>1, <1>2
<1>4. Side(t, side, k)
  BY <1>1, <1>2, <1>3 DEF Side
<1>5. From(t, s)
  BY <1>3, Zenon DEF From
<1>6. Prioritised(s) => Prioritised(t)
  BY <1>3 DEF Prioritised
<1> QED BY <1>4, <1>5, <1>6 DEF t

(* An order that has just been numbered.                                    *)
LEMMA NewOrderIs ==
    ASSUME NEW k \in Nat, NEW owner \in Owners, NEW side \in {"buy", "sell"}, NEW price \in Int,
           NEW qty \in Nat \ {0}
    PROVE  Accepts(Order(k + 1, owner, side, price, qty), k)
BY DEF Accepts, Order, Orders

LEMMA OneOrderSide ==
    ASSUME NEW k \in Nat, NEW o, Accepts(o, k), NEW T, Taped(T, k)
    PROVE  Side(<<o>>, o.side, k + 1) /\ Backed(<<o>>, T)
<1>1. o \in Orders /\ o.n = k + 1 /\ o.filled < o.qty /\ o.filled = 0
  BY DEF Accepts, Orders
<1>2. <<o>> \in Seq(Orders) /\ Len(<<o>>) = 1 /\ <<o>>[1] = o
  BY <1>1
<1>3. Vol(k + 1, T) = 0
  BY TapedMore
<1> DEFINE s == <<o>>
<1>4. s \in Seq(Orders) /\ \A i \in 1..Len(s) : i = 1 /\ s[i] = o
  BY <1>2
<1> HIDE DEF s
<1>5. Side(s, o.side, k + 1)
  BY <1>1, <1>4 DEF Side
<1>6. Backed(s, T)
  BY <1>1, <1>3, <1>4 DEF Backed
<1> QED BY <1>5, <1>6 DEF s

(* What an order placed among bs and as leaves.                             *)
FromLike(t, s, order) ==
    \A i \in 1..Len(t) : Like(t[i], order) \/ \E j \in 1..Len(s) : Like(t[i], s[j])

PlacedWell(bs, as, order) ==
    /\ placed' = placed + 1 /\ lastPrice' \in Int
    /\ Taped(tape', placed + 1) /\ tape \subseteq tape'
    /\ Sides(bids', asks', "buy", placed + 1, tape')
    /\ Ordered(bs, as) => Ordered(bids', asks')
    /\ FromLike(bids', bs, order) /\ FromLike(asks', as, order)
    /\ injected' = injected

LEMMA PlacedBuy ==
    ASSUME NEW bs, NEW as, NEW order, NEW n, order.side = "buy", PlaceOrderIn(bs, as, order, n)
    PROVE  LET e == Execution(bs, as, order, n) IN
              /\ bids' = e.own /\ asks' = e.opposite /\ tape' = tape \cup e.trades
              /\ lastPrice' = e.price /\ placed' = order.n /\ injected' = injected
BY Zenon DEF PlaceOrderIn

LEMMA PlacedSell ==
    ASSUME NEW bs, NEW as, NEW order, NEW n, order.side # "buy", PlaceOrderIn(bs, as, order, n)
    PROVE  LET e == Execution(as, bs, order, n) IN
              /\ bids' = e.opposite /\ asks' = e.own /\ tape' = tape \cup e.trades
              /\ lastPrice' = e.price /\ placed' = order.n /\ injected' = injected
BY Zenon DEF PlaceOrderIn

LEMMA TapeGrows ==
    ASSUME NEW k \in Nat, NEW T, Taped(T, k), NEW U \in SUBSET NewTrades(k), IsFiniteSet(U)
    PROVE  Taped(T \cup U, k + 1) /\ Vol(k + 1, T \cup U) = Volume(U)
<1>1. IsFiniteSet(T \cup U)
  BY FS_Union DEF Taped
<1>2. 1..k \subseteq 1..k + 1 /\ k + 1 \in 1..k + 1
  OBVIOUS
<1>3. U \subseteq TradesOf(k + 1)
  BY <1>2 DEF NewTrades, TradesOf
<1>4. T \subseteq TradesOf(k + 1)
  BY TapedMore DEF Taped
<1>5. \A x \in T : k + 1 # x.maker /\ k + 1 # x.taker
  BY DEF Taped, TradesOf
<1>6. \A x \in U : x.taker = k + 1
  BY DEF NewTrades
<1>7. {x \in T \cup U : k + 1 \in {x.maker, x.taker}} = U
  BY <1>5, <1>6
<1> QED BY <1>1, <1>3, <1>4, <1>7 DEF Taped, Vol

LEMMA PlacingKeeps ==
    ASSUME placed \in Nat, lastPrice \in Int, Taped(tape, placed),
           NEW bs, NEW as, Sides(bs, as, "buy", placed, tape),
           NEW order, Accepts(order, placed), NEW n \in Nat, PlaceOrderIn(bs, as, order, n)
    PROVE  PlacedWell(bs, as, order)
<1>1. order \in Orders /\ order.n = placed + 1 /\ order.side \in {"buy", "sell"}
  BY DEF Accepts, Orders
<1>2. tape \in SUBSET TradesOf(placed) /\ IsFiniteSet(tape)
  BY DEF Taped
<1>3. CASE order.side = "buy"
  <2> DEFINE e == Execution(bs, as, order, n)
  <2>1. /\ bids' = e.own /\ asks' = e.opposite /\ tape' = tape \cup e.trades
        /\ lastPrice' = e.price /\ placed' = order.n /\ injected' = injected
    BY <1>3, PlacedBuy
  <2>2. Sides(bs, as, order.side, placed, tape)
    BY <1>3
  <2>3. ExecutedWell(e, bs, as, order, placed, tape)
    BY <1>2, <2>2, ExecutionKeeps
  <2> HIDE DEF e
  <2>4. /\ Sides(bids', asks', "buy", placed + 1, tape')
        /\ e.trades \in SUBSET NewTrades(placed) /\ IsFiniteSet(e.trades) /\ lastPrice' \in Int
        /\ FromLike(bids', bs, order) /\ FromLike(asks', as, order)
        /\ Ordered(bs, as) => Ordered(bids', asks')
    BY <1>3, <2>1, <2>3, Zenon DEF ExecutedWell, FromLike
  <2>5. Taped(tape', placed + 1)
    BY <2>1, <2>4, TapeGrows
  <2>6. placed' = placed + 1 /\ tape \subseteq tape' /\ injected' = injected
    BY <1>1, <2>1
  <2> QED BY <2>4, <2>5, <2>6 DEF PlacedWell
<1>4. CASE order.side = "sell"
  <2> DEFINE e == Execution(as, bs, order, n)
  <2>1. /\ bids' = e.opposite /\ asks' = e.own /\ tape' = tape \cup e.trades
        /\ lastPrice' = e.price /\ placed' = order.n /\ injected' = injected
    BY <1>4, PlacedSell
  <2>2. Sides(as, bs, order.side, placed, tape)
    BY <1>4, SidesFlip
  <2>3. ExecutedWell(e, as, bs, order, placed, tape)
    BY <1>2, <2>2, ExecutionKeeps
  <2> HIDE DEF e
  <2>4. /\ Sides(asks', bids', "sell", placed + 1, tape')
        /\ e.trades \in SUBSET NewTrades(placed) /\ IsFiniteSet(e.trades) /\ lastPrice' \in Int
        /\ FromLike(bids', bs, order) /\ FromLike(asks', as, order)
        /\ Ordered(as, bs) => Ordered(asks', bids')
    BY <1>4, <2>1, <2>3, Zenon DEF ExecutedWell, FromLike
  <2>5. Taped(tape', placed + 1)
    BY <2>1, <2>4, TapeGrows
  <2>6. placed' = placed + 1 /\ tape \subseteq tape' /\ injected' = injected
    BY <1>1, <2>1
  <2>7. Sides(bids', asks', "buy", placed + 1, tape')
    BY <2>4, SidesFlip
  <2>8. Ordered(bs, as) => Ordered(bids', asks')
    <3>1. placed + 1 \in Nat
      OBVIOUS
    <3>2. Ordered(bs, as) <=> Ordered(as, bs)
      BY OrderedFlips DEF Sides
    <3>3. Ordered(bids', asks') <=> Ordered(asks', bids')
      BY <2>7, <3>1, OrderedFlips DEF Sides
    <3> QED BY <2>4, <3>2, <3>3
  <2> QED BY <2>4, <2>5, <2>6, <2>7, <2>8 DEF PlacedWell
<1> QED BY <1>1, <1>3, <1>4

(* Every step but a submission leaves the orders of the strategy alone.     *)
Steady ==
    /\ BookInv' /\ tape \subseteq tape'
    /\ Known(bids', venueOrders) /\ Known(asks', venueOrders)

LEMMA SteadyKeeps ==
    ASSUME VenueInv, Steady, venueOrders' = venueOrders, venueFilled' = venueFilled,
           venueOpen' \subseteq venueOpen, venuePosition' \in {venuePosition, None}
    PROVE  VenueInv'
<1>1. IsFiniteSet(tape') /\ \A x \in tape' : x.qty \in Nat
  BY DEF Steady, BookInv, Taped, TradesOf
<1>2. ASSUME NEW id \in VenueIds PROVE venueFilled'[id] <= Vol(venueOrders'[id].n, tape')
  <2> DEFINE m == venueOrders[id].n
             old == Vol(m, tape)
             new == Vol(m, tape')
  <2>1. old \in Nat /\ new \in Nat /\ old <= new
    BY <1>1, VolGrows DEF Steady
  <2>2. venueFilled[id] \in Nat /\ venueFilled[id] <= old
    BY DEF VenueInv
  <2> HIDE DEF old, new
  <2>3. venueFilled[id] <= new
    BY <2>1, <2>2
  <2> QED BY <2>3 DEF new
<1>3. (\A id \in VenueIds : venueFilled[id] <= Vol(venueOrders[id].n, tape))'
  BY <1>2
<1>4. venueOpen' \subseteq VenueIds /\ (venuePosition' = None \/ venuePosition'.size \in Nat \ {0})
  BY DEF VenueInv
<1> QED BY <1>3, <1>4 DEF VenueInv, Steady

LEMMA BestAre ==
    ASSUME BookInv
    PROVE  BestBid \in Int /\ BestAsk \in Int /\ Len(bids) \in Nat /\ Len(asks) \in Nat
<1>1. bids \in Seq(Orders) /\ asks \in Seq(Orders) /\ lastPrice \in Int
  BY DEF BookInv, Sides, Side
<1>2. \A x \in Orders : x.price \in Int
  BY DEF Orders
<1>3. bids = <<>> \/ bids[1].price \in Int
  BY <1>1, <1>2, BestLeaves
<1>4. asks = <<>> \/ asks[1].price \in Int
  BY <1>1, <1>2, BestLeaves
<1> QED BY <1>1, <1>3, <1>4, LenProperties DEF BestBid, BestAsk

LEMMA DepthsAre ==
    ASSUME BookInv, NEW side, NEW n \in Depth(side)
    PROVE  n \in Nat
BY BestAre DEF Depth, Opposite

LEMMA AgentsDiffer ==
    ASSUME NEW owner \in Agents
    PROVE  owner \notin VenueIds /\ owner \in Owners
BY BookAssumption DEF Owners

LEMMA KnownPlaced ==
    ASSUME NEW s, NEW t, NEW order, NEW numbered, Known(s, numbered), FromLike(t, s, order),
           order.owner \notin VenueIds
    PROVE  Known(t, numbered)
<1>1. ASSUME NEW i \in 1..Len(t), t[i].owner \in VenueIds
      PROVE  t[i].n = numbered[t[i].owner].n /\ t[i].qty = numbered[t[i].owner].size
  <2>1. PICK j \in 1..Len(s) : Like(t[i], s[j])
    BY <1>1, Zenon DEF FromLike, Like
  <2> QED BY <1>1, <2>1, Zenon DEF Known, Like
<1> QED BY <1>1, Zenon DEF Known

LEMMA PlacedSteady ==
    ASSUME BookInv, placed < MaxOrders, NEW bs, NEW as, NEW order, PlacedWell(bs, as, order),
           order.owner \in Agents, Ordered(bids, asks) => Ordered(bs, as),
           Known(bs, venueOrders), Known(as, venueOrders)
    PROVE  Steady
<1>1. /\ placed' = placed + 1 /\ lastPrice' \in Int
      /\ Taped(tape', placed + 1) /\ tape \subseteq tape'
      /\ Sides(bids', asks', "buy", placed + 1, tape')
      /\ Ordered(bs, as) => Ordered(bids', asks')
      /\ FromLike(bids', bs, order) /\ FromLike(asks', as, order)
      /\ injected' = injected
  BY DEF PlacedWell
<1>2. order.owner \notin VenueIds
  BY AgentsDiffer
<1>3. Known(bids', venueOrders) /\ Known(asks', venueOrders)
  BY <1>1, <1>2, KnownPlaced
<1>4. placed' \in 4..MaxOrders
  BY <1>1, BookAssumption DEF BookInv
<1>5. ~injected' => Ordered(bids', asks')
  BY <1>1 DEF BookInv
<1>6. BookInv'
  BY <1>1, <1>4, <1>5 DEF BookInv
<1> QED BY <1>1, <1>3, <1>6 DEF Steady

LEMMA ProposalsAre ==
    ASSUME BookInv, NEW p \in Proposals
    PROVE  p[1] \in Agents /\ p[2] \in {"buy", "sell"} /\ p[3] \in Int
<1>1. BestBid \in Int /\ BestAsk \in Int /\ Sweep \in Int
  BY BestAre, BookAssumption
<1>2. CASE p \in {<<"hft", "buy", q - 1>> : q \in BestBid .. BestAsk}
  BY <1>1, <1>2 DEF Agents
<1>3. CASE p \in {<<"hft", "sell", q + 1>> : q \in BestBid .. BestAsk}
  BY <1>1, <1>3 DEF Agents
<1>4. CASE p \in {<<"vwap", "buy", BestBid>>, <<"retail", "buy", BestAsk + Sweep>>,
                  <<"swarm", "sell", BestBid - Sweep>>, <<"vampire", "buy", BestBid + 1>>}
  BY <1>1, <1>4 DEF Agents
<1> QED BY <1>2, <1>3, <1>4, Zenon DEF Proposals

LEMMA AgentSteady ==
    ASSUME BookInv, VenueInv, NEW p \in Proposals, NEW qty \in Sizes,
           RunAgent(p[1], p[2], p[3], qty)
    PROVE  Steady
<1> DEFINE order == Order(placed + 1, p[1], p[2], p[3], qty)
<1>1. PICK n \in Depth(p[2]) : PlaceOrder(order, n)
  BY Zenon DEF RunAgent
<1>2. p[1] \in Agents /\ p[2] \in {"buy", "sell"} /\ p[3] \in Int /\ qty \in Nat \ {0} /\ n \in Nat
  BY <1>1, ProposalsAre, DepthsAre, BookAssumption
<1>3. placed \in Nat /\ placed < MaxOrders /\ lastPrice \in Int /\ Taped(tape, placed)
      /\ Sides(bids, asks, "buy", placed, tape)
  BY BookAssumption DEF BookInv, RunAgent
<1>4. Accepts(order, placed)
  BY <1>2, <1>3, AgentsDiffer, NewOrderIs
<1>5. order.owner \in Agents
  BY <1>2 DEF Order
<1> HIDE DEF order
<1>6. PlacedWell(bids, asks, order)
  BY <1>1, <1>2, <1>3, <1>4, PlacingKeeps DEF PlaceOrder
<1> QED BY <1>3, <1>5, <1>6, PlacedSteady DEF VenueInv

LEMMA SpoofSteady ==
    ASSUME BookInv, VenueInv, NEW qty \in Sizes, Spoof(qty)
    PROVE  Steady
<1> DEFINE rest == Without(bids, "spoofer_1")
           best == IF rest = <<>> THEN lastPrice - 1 ELSE rest[1].price
           order == Order(placed + 1, "spoofer_1", "buy", best - 1, qty)
<1>1. PICK n \in Depth("buy") : PlaceOrderIn(rest, asks, order, n)
  BY Zenon DEF Spoof
<1>2. placed \in Nat /\ placed < MaxOrders /\ lastPrice \in Int /\ Taped(tape, placed)
      /\ Sides(bids, asks, "buy", placed, tape)
  BY BookAssumption DEF BookInv, Spoof
<1>3. Side(bids, "buy", placed) /\ Side(asks, "sell", placed)
  BY <1>2 DEF Sides
<1>4. Side(rest, "buy", placed) /\ From(rest, bids) /\ (Prioritised(bids) => Prioritised(rest))
  BY <1>2, <1>3, WithoutKeeps
<1> HIDE DEF rest
<1>5. Sides(rest, asks, "buy", placed, tape) /\ (Ordered(bids, asks) => Ordered(rest, asks))
  BY <1>2, <1>3, <1>4, FromItself, LessOfBook
<1>6. best \in Int
  <2>1. rest \in Seq(Orders)
    BY <1>4 DEF Side
  <2>2. \A x \in Orders : x.price \in Int
    BY DEF Orders
  <2>3. rest # <<>> => rest[1].price \in Int
    BY <2>1, <2>2, BestLeaves
  <2> QED BY <1>2, <2>3
<1> HIDE DEF best
<1>7. "spoofer_1" \in Agents /\ best - 1 \in Int /\ qty \in Nat \ {0} /\ n \in Nat
  BY <1>6, DepthsAre, BookAssumption DEF Agents
<1>8. Accepts(order, placed)
  BY <1>2, <1>7, AgentsDiffer, NewOrderIs
<1>9. order.owner \in Agents
  BY <1>7 DEF Order
<1> HIDE DEF order
<1>10. PlacedWell(rest, asks, order)
  BY <1>1, <1>2, <1>5, <1>7, <1>8, PlacingKeeps
<1>11. Known(rest, venueOrders) /\ Known(asks, venueOrders)
  BY <1>4, KnownFrom DEF VenueInv
<1> QED BY <1>2, <1>5, <1>9, <1>10, <1>11, PlacedSteady

LEMMA ExitSteady ==
    ASSUME BookInv, VenueInv, SubmitExit
    PROVE  Steady
<1> DEFINE side == IF venuePosition.side = "buy" THEN "sell" ELSE "buy"
           qty == IF venuePosition = None THEN 1 ELSE venuePosition.size
           price == IF side = "sell" THEN BestBid ELSE BestAsk
           order == Order(placed + 1, "exit", side, price, qty)
<1>1. PICK n \in Depth(side) : PlaceOrder(order, n)
  BY Zenon DEF SubmitExit
<1>2. placed \in Nat /\ placed < MaxOrders /\ lastPrice \in Int /\ Taped(tape, placed)
      /\ Sides(bids, asks, "buy", placed, tape)
  BY BookAssumption DEF BookInv, SubmitExit
<1>3. side \in {"buy", "sell"} /\ price \in Int /\ qty \in Nat \ {0} /\ n \in Nat
  BY <1>1, BestAre, DepthsAre DEF VenueInv
<1> HIDE DEF side, price, qty
<1>4. "exit" \in Agents
  BY DEF Agents
<1>5. Accepts(order, placed)
  BY <1>2, <1>3, <1>4, AgentsDiffer, NewOrderIs
<1>6. order.owner \in Agents
  BY <1>4 DEF Order
<1> HIDE DEF order
<1>7. PlacedWell(bids, asks, order)
  BY <1>1, <1>2, <1>3, <1>5, PlacingKeeps DEF PlaceOrder
<1> QED BY <1>2, <1>6, <1>7, PlacedSteady DEF VenueInv

(* An edit that takes orders out of the book.                               *)
LEMMA LessSteady ==
    ASSUME BookInv, VenueInv,
           Side(bids', "buy", placed), From(bids', bids), Prioritised(bids) => Prioritised(bids'),
           Side(asks', "sell", placed), From(asks', asks), Prioritised(asks) => Prioritised(asks'),
           lastPrice' \in Int, UNCHANGED <<placed, tape, injected>>
    PROVE  Steady
<1>1. placed \in Nat /\ Sides(bids, asks, "buy", placed, tape)
  BY BookAssumption DEF BookInv
<1>2. Sides(bids', asks', "buy", placed, tape) /\ (Ordered(bids, asks) => Ordered(bids', asks'))
  BY <1>1, LessOfBook
<1>3. BookInv'
  BY <1>2 DEF BookInv
<1>4. Known(bids', venueOrders) /\ Known(asks', venueOrders)
  BY KnownFrom DEF VenueInv
<1> QED BY <1>3, <1>4 DEF Steady

LEMMA InvSides ==
    ASSUME BookInv
    PROVE  placed \in Nat /\ lastPrice \in Int /\ Side(bids, "buy", placed) /\ Side(asks, "sell", placed)
BY BookAssumption DEF BookInv, Sides

LEMMA CrashSteady ==
    ASSUME BookInv, VenueInv, FlashCrash
    PROVE  Steady
<1> DEFINE d == Min({1, Len(bids)})
<1>1. Len(bids) \in Nat
  BY BestAre
<1>2. d \in {1, Len(bids)} /\ d <= 1 /\ d <= Len(bids)
  BY <1>1, MinOfTwo
<1>3. bids' = SubSeq(bids, 1, d)
  BY DEF FlashCrash
<1> HIDE DEF d
<1>4. d \in 0..Len(bids)
  BY <1>1, <1>2
<1>5. Side(bids', "buy", placed) /\ From(bids', bids) /\ (Prioritised(bids) => Prioritised(bids'))
  BY <1>3, <1>4, InvSides, PrefixKeeps
<1>6. asks' = asks /\ UNCHANGED <<placed, tape, injected>> /\ lastPrice' = lastPrice - 1
  BY DEF FlashCrash, Falling
<1> QED BY <1>5, <1>6, InvSides, FromItself, LessSteady

LEMMA PriceSteady ==
    ASSUME BookInv, VenueInv, GapOpen \/ SpoofStage4
    PROVE  Steady
<1>1. bids' = bids /\ asks' = asks /\ UNCHANGED <<placed, tape, injected>> /\ lastPrice' \in Int
  BY InvSides DEF GapOpen, SpoofStage4, Falling
<1> QED BY <1>1, InvSides, FromItself, LessSteady

LEMMA WithdrawSteady ==
    ASSUME BookInv, VenueInv, SpoofStage3
    PROVE  Steady
<1>1. bids' = Without(bids, "spoofer") /\ asks' = asks /\ lastPrice' = lastPrice
      /\ UNCHANGED <<placed, tape, injected>>
  BY DEF SpoofStage3
<1>2. Side(bids', "buy", placed) /\ From(bids', bids) /\ (Prioritised(bids) => Prioritised(bids'))
  BY <1>1, InvSides, WithoutKeeps
<1> QED BY <1>1, <1>2, InvSides, FromItself, LessSteady

LEMMA CancelSteady ==
    ASSUME BookInv, VenueInv, NEW id \in VenueIds, Cancel(id)
    PROVE  Steady
<1>1. bids' = Without(bids, id) /\ asks' = Without(asks, id) /\ lastPrice' = lastPrice
      /\ UNCHANGED <<placed, tape, injected>>
  BY DEF Cancel
<1>2. Side(bids', "buy", placed) /\ From(bids', bids) /\ (Prioritised(bids) => Prioritised(bids'))
  BY <1>1, InvSides, WithoutKeeps
<1>3. Side(asks', "sell", placed) /\ From(asks', asks) /\ (Prioritised(asks) => Prioritised(asks'))
  BY <1>1, InvSides, WithoutKeeps
<1> QED BY <1>1, <1>2, <1>3, InvSides, LessSteady

(* An edit that puts orders into the book.                                  *)
LEMMA VacuumSteady ==
    ASSUME BookInv, VenueInv, LiquidityVacuum
    PROVE  Steady
<1> DEFINE spread == BestAsk - BestBid
           b == Order(placed + 1, "chaos", "buy", BestBid - spread, 1)
           a == Order((placed + 1) + 1, "chaos", "sell", BestAsk + spread, 1)
           k == placed + 1
<1>1. placed \in 4..MaxOrders /\ placed \in Nat /\ k \in Nat /\ lastPrice \in Int /\ Taped(tape, placed)
  BY BookAssumption DEF BookInv
<1>2. (placed + 1) + 1 = placed + 2
  BY <1>1
<1>3. /\ placed + 2 <= MaxOrders /\ placed' = k + 1 /\ injected' = TRUE /\ tape' = tape
      /\ lastPrice' = lastPrice /\ bids' = <<b>> /\ asks' = <<a>>
  BY <1>2 DEF LiquidityVacuum
<1>4. BestBid - spread \in Int /\ BestAsk + spread \in Int /\ "chaos" \in Agents /\ 1 \in Nat \ {0}
      /\ "buy" \in {"buy", "sell"} /\ "sell" \in {"buy", "sell"}
  BY BestAre DEF Agents
<1>5. b.side = "buy" /\ a.side = "sell" /\ b.owner \in Agents /\ a.owner \in Agents
      /\ b.n # a.n
  BY <1>1, <1>4 DEF Order
<1>6. Accepts(b, placed) /\ Accepts(a, k)
  <2> HIDE DEF spread
  <2> QED BY <1>1, <1>4, AgentsDiffer, NewOrderIs
<1> HIDE DEF b, a
<1>7. Taped(tape, k) /\ Taped(tape, k + 1)
  BY <1>1, TapedMore
<1>8. Side(<<b>>, "buy", k) /\ Backed(<<b>>, tape)
  BY <1>1, <1>5, <1>6, OneOrderSide
<1> HIDE DEF k
<1>9. Side(<<a>>, "sell", k + 1) /\ Backed(<<a>>, tape)
  BY <1>1, <1>5, <1>6, <1>7, OneOrderSide
<1>10. Side(<<b>>, "buy", k + 1)
  BY <1>1, <1>8, SideGrows
<1>11. \A x : Len(<<x>>) = 1 /\ <<x>>[1] = x /\ \A i \in 1..Len(<<x>>) : i = 1
  OBVIOUS
<1>12. Apart(<<b>>, <<a>>)
  BY <1>5, <1>11, Zenon DEF Apart
<1>13. Sides(bids', asks', "buy", k + 1, tape)
  BY <1>3, <1>8, <1>9, <1>10, <1>12 DEF Sides
<1>14. Known(<<b>>, venueOrders) /\ Known(<<a>>, venueOrders)
  <2>1. b.owner \notin VenueIds /\ a.owner \notin VenueIds
    BY <1>5, AgentsDiffer
  <2>2. \A i \in 1..Len(<<b>>) : <<b>>[i] = b
    BY <1>11, Zenon
  <2>3. \A i \in 1..Len(<<a>>) : <<a>>[i] = a
    BY <1>11, Zenon
  <2> QED BY <2>1, <2>2, <2>3, Zenon DEF Known
<1>15. placed' \in 4..MaxOrders
  BY <1>1, <1>3 DEF k
<1>16. BookInv'
  BY <1>1, <1>3, <1>7, <1>13, <1>15 DEF BookInv
<1> QED BY <1>3, <1>14, <1>16 DEF Steady

LEMMA SpooferSteady ==
    ASSUME BookInv, VenueInv, SpoofStage1
    PROVE  Steady
<1> DEFINE o == Order(placed + 1, "spoofer", "buy", BestBid, 2)
           one == <<o>>
           s == one \o bids
           k == placed + 1
<1>1. placed \in 4..MaxOrders /\ placed \in Nat /\ k \in Nat /\ lastPrice \in Int
      /\ Taped(tape, placed) /\ Sides(bids, asks, "buy", placed, tape)
  BY BookAssumption DEF BookInv
<1>2. /\ placed < MaxOrders /\ placed' = k /\ injected' = TRUE /\ tape' = tape
      /\ lastPrice' = lastPrice /\ bids' = s /\ asks' = asks
  BY DEF SpoofStage1
<1>3. "spoofer" \in Agents /\ 2 \in Nat \ {0} /\ "buy" \in {"buy", "sell"} /\ BestBid \in Int
  BY BestAre DEF Agents
<1>4. o.side = "buy" /\ o.owner \in Agents /\ o.n = k
  BY <1>3 DEF Order
<1>5. Accepts(o, placed)
  BY <1>1, <1>3, AgentsDiffer, NewOrderIs
<1> HIDE DEF o
<1>6. Taped(tape, k) /\ Side(one, "buy", k) /\ Backed(one, tape)
  BY <1>1, <1>4, <1>5, TapedMore, OneOrderSide
<1>7. Side(bids, "buy", placed) /\ Side(asks, "sell", placed) /\ Apart(bids, asks)
      /\ Backed(bids, tape) /\ Backed(asks, tape)
  BY <1>1 DEF Sides
<1>8. Side(bids, "buy", k) /\ Side(asks, "sell", k)
  BY <1>1, <1>7, SideGrows
<1>9. Len(one) = 1 /\ one[1] = o
  OBVIOUS
<1> HIDE DEF one
<1>10. one \in Seq(Orders) /\ bids \in Seq(Orders) /\ Len(bids) \in Nat
  BY <1>6, <1>7, LenProperties DEF Side
<1>11. /\ s \in Seq(Orders) /\ Len(s) = 1 + Len(bids)
       /\ \A i \in 1..1 + Len(bids) : s[i] = IF i <= 1 THEN one[i] ELSE bids[i - 1]
  <2>1. /\ one \o bids \in Seq(Orders) /\ Len(one \o bids) = Len(one) + Len(bids)
        /\ \A i \in 1..Len(one) + Len(bids) :
             (one \o bids)[i] = IF i <= Len(one) THEN one[i] ELSE bids[i - Len(one)]
    BY <1>10, ConcatProperties
  <2> QED BY <1>9, <2>1, Zenon
<1> HIDE DEF s
<1>12. \A i \in 1..Len(s) : (i = 1 /\ s[i] = o) \/ (i - 1 \in 1..Len(bids) /\ s[i] = bids[i - 1])
  BY <1>9, <1>10, <1>11
<1>13. o \in Orders /\ o.filled < o.qty /\ o.filled = 0
  BY <1>5 DEF Accepts, Orders
<1>14. /\ \A i \in 1..Len(bids) : bids[i].n \in 1..placed /\ bids[i].side = "buy"
                                  /\ bids[i].filled < bids[i].qty
       /\ \A i, j \in 1..Len(bids) : i # j => bids[i].n # bids[j].n
       /\ \A i \in 1..Len(asks) : asks[i].n \in 1..placed
  BY <1>7 DEF Side
<1>15. Side(s, "buy", k)
  <2>1. \A i \in 1..Len(s) : s[i].side = "buy" /\ s[i].filled < s[i].qty /\ s[i].n \in 1..k
    BY <1>1, <1>4, <1>12, <1>13, <1>14
  <2>2. \A i, j \in 1..Len(s) : i # j => s[i].n # s[j].n
    <3>1. ASSUME NEW i \in 1..Len(s), NEW j \in 1..Len(s), i # j PROVE s[i].n # s[j].n
      <4>1. CASE i = 1 /\ s[i] = o
        <5>1. j - 1 \in 1..Len(bids) /\ s[j] = bids[j - 1]
          BY <1>12, <3>1, <4>1
        <5> QED BY <1>1, <1>4, <1>14, <4>1, <5>1
      <4>2. CASE i - 1 \in 1..Len(bids) /\ s[i] = bids[i - 1]
        <5>1. CASE j = 1 /\ s[j] = o
          BY <1>1, <1>4, <1>14, <4>2, <5>1
        <5>2. CASE j - 1 \in 1..Len(bids) /\ s[j] = bids[j - 1]
          <6>1. i \in Nat /\ j \in Nat /\ i - 1 # j - 1
            BY <1>11, <3>1
          <6> QED BY <1>14, <4>2, <5>2, <6>1, Zenon
        <5> QED BY <1>12, <5>1, <5>2
      <4> QED BY <1>12, <4>1, <4>2
    <3> QED BY <3>1
  <2> QED BY <1>11, <2>1, <2>2 DEF Side
<1>16. Apart(s, asks)
  <2>1. ASSUME NEW i \in 1..Len(s), NEW j \in 1..Len(asks) PROVE s[i].n # asks[j].n
    <3>1. asks[j].n \in 1..placed
      BY <1>14
    <3>2. CASE s[i] = o
      BY <1>1, <1>4, <3>1, <3>2
    <3>3. CASE i - 1 \in 1..Len(bids) /\ s[i] = bids[i - 1]
      BY <1>7, <3>3 DEF Apart
    <3> QED BY <1>12, <3>2, <3>3
  <2> QED BY <2>1 DEF Apart
<1>17. Backed(s, tape)
  <2>1. o.filled = Vol(o.n, tape)
    <3>1. 1 \in 1..Len(one)
      BY <1>9
    <3> QED BY <1>6, <1>9, <3>1 DEF Backed
  <2> QED BY <1>7, <1>12, <2>1, Zenon DEF Backed
<1>18. Known(s, venueOrders)
  <2>1. o.owner \notin VenueIds
    BY <1>4, AgentsDiffer
  <2>2. Known(bids, venueOrders)
    BY DEF VenueInv
  <2>3. ASSUME NEW i \in 1..Len(s), s[i].owner \in VenueIds
        PROVE  /\ s[i].n = venueOrders[s[i].owner].n
               /\ s[i].qty = venueOrders[s[i].owner].size
    <3>1. s[i] # o
      BY <2>1, <2>3
    <3>2. PICK j \in 1..Len(bids) : s[i] = bids[j]
      BY <1>12, <3>1, Zenon
    <3> QED BY <2>2, <2>3, <3>2, Zenon DEF Known
  <2> QED BY <2>3 DEF Known
<1>19. Sides(s, asks, "buy", k, tape)
  BY <1>7, <1>8, <1>15, <1>16, <1>17 DEF Sides
<1>20. placed' \in 4..MaxOrders
  BY <1>1, <1>2, BookAssumption
<1> HIDE DEF k
<1>21. BookInv'
  BY <1>1, <1>2, <1>6, <1>19, <1>20 DEF BookInv
<1> QED BY <1>2, <1>18, <1>21 DEF Steady, VenueInv

(* A submission: the venue numbers the order, and records what it took if   *)
(* the book did not raise.                                                  *)
LEMMA KnownSubmitted ==
    ASSUME NEW s, NEW t, NEW order, NEW id \in VenueIds, order.owner = id,
           NEW side, NEW k \in Nat, Side(s, side, k),
           NEW numbered \in [VenueIds -> [n : Nat, size : Nat]],
           Known(s, numbered), FromLike(t, s, order), numbered[id].n = 0
    PROVE  Known(t, [numbered EXCEPT ![id] = [n |-> order.n, size |-> order.qty]])
<1> DEFINE entry == [n |-> order.n, size |-> order.qty]
           after == [numbered EXCEPT ![id] = entry]
<1>1. entry.n = order.n /\ entry.size = order.qty
  OBVIOUS
<1> HIDE DEF entry
<1>2. after[id] = entry /\ \A x \in VenueIds : x # id => after[x] = numbered[x]
  OBVIOUS
<1> HIDE DEF after
<1>3. ASSUME NEW i \in 1..Len(t), t[i].owner \in VenueIds
      PROVE  t[i].n = after[t[i].owner].n /\ t[i].qty = after[t[i].owner].size
  <2>1. CASE Like(t[i], order)
    BY <1>1, <1>2, <2>1, Zenon DEF Like
  <2>2. CASE \E j \in 1..Len(s) : Like(t[i], s[j])
    <3>1. PICK j \in 1..Len(s) : Like(t[i], s[j])
      BY <2>2
    <3>2. s[j].n = numbered[s[j].owner].n /\ s[j].qty = numbered[s[j].owner].size
      BY <1>3, <3>1, Zenon DEF Known, Like
    <3>3. s[j].n # 0
      BY DEF Side
    <3>4. s[j].owner # id
      BY <3>2, <3>3
    <3> QED BY <1>2, <1>3, <3>1, <3>2, <3>4, Zenon DEF Like
  <2> QED BY <2>1, <2>2, Zenon DEF FromLike
<1> QED BY <1>3, Zenon DEF Known, after, entry

LEMMA SubmitKeeps ==
    ASSUME BookInv, VenueInv, NEW id \in VenueIds, NEW side \in {"buy", "sell"},
           NEW price \in Int, NEW qty \in Sizes, Submit(id, side, price, qty)
    PROVE  BookInv' /\ VenueInv'
<1> DEFINE order == Order(placed + 1, id, side, price, qty)
           own == IF side = "buy" THEN bids ELSE asks
<1>1. PICK n \in Depth(side) :
        LET e == Execution(own, Opposite(side), order, n)
            taken == IF e.raised THEN 0 ELSE Volume(e.trades)
        IN  /\ PlaceOrder(order, n)
            /\ venueOrders' = [venueOrders EXCEPT ![id] = [n |-> order.n, size |-> qty]]
            /\ venueOpen' = venueOpen \cup {id}
            /\ venueFilled' = [venueFilled EXCEPT ![id] = @ + taken]
            /\ venuePosition' = IF taken > 0 THEN [side |-> side, size |-> taken]
                                ELSE venuePosition
  BY Zenon DEF Submit
<1> DEFINE e == Execution(own, Opposite(side), order, n)
           taken == IF e.raised THEN 0 ELSE Volume(e.trades)
           k == placed + 1
<1>2. /\ PlaceOrder(order, n)
      /\ venueOrders' = [venueOrders EXCEPT ![id] = [n |-> order.n, size |-> qty]]
      /\ venueOpen' = venueOpen \cup {id}
      /\ venueFilled' = [venueFilled EXCEPT ![id] = @ + taken]
      /\ venuePosition' = IF taken > 0 THEN [side |-> side, size |-> taken] ELSE venuePosition
  BY <1>1, Zenon
<1>3. placed \in 4..MaxOrders /\ placed \in Nat /\ placed < MaxOrders /\ lastPrice \in Int
      /\ Taped(tape, placed) /\ Sides(bids, asks, "buy", placed, tape)
      /\ (~injected => Ordered(bids, asks)) /\ venueOrders[id].n = 0
  BY BookAssumption DEF BookInv, Submit
<1>4. qty \in Nat \ {0} /\ n \in Nat /\ id \in Owners
  BY DepthsAre, BookAssumption DEF Owners
<1>5. Accepts(order, placed)
  BY <1>3, <1>4, NewOrderIs
<1>6. order.n = k /\ order.owner = id /\ order.side = side /\ order.qty = qty
  BY DEF Order
<1> HIDE DEF order
<1>7. PlacedWell(bids, asks, order)
  BY <1>2, <1>3, <1>4, <1>5, PlacingKeeps DEF PlaceOrder
<1>8. /\ placed' = k /\ lastPrice' \in Int
      /\ Taped(tape', k) /\ tape \subseteq tape'
      /\ Sides(bids', asks', "buy", k, tape')
      /\ Ordered(bids, asks) => Ordered(bids', asks')
      /\ FromLike(bids', bids, order) /\ FromLike(asks', asks, order)
      /\ injected' = injected
  BY <1>7 DEF PlacedWell
<1>9. BookInv'
  <2>1. placed' \in 4..MaxOrders
    BY <1>3, <1>8, BookAssumption
  <2> HIDE DEF k
  <2> QED BY <1>3, <1>8, <2>1 DEF BookInv
<1>10. ExecutedWell(e, own, Opposite(side), order, placed, tape)
  <2>1. Sides(own, Opposite(side), order.side, placed, tape)
    <3>1. CASE side = "buy"
      BY <1>3, <1>6, <3>1 DEF Opposite
    <3>2. CASE side = "sell"
      BY <1>3, <1>6, <3>2, SidesFlip DEF Opposite
    <3> QED BY <3>1, <3>2
  <2> HIDE DEF own
  <2> QED BY <1>3, <1>4, <1>5, <2>1, ExecutionKeeps DEF Taped
<1>11. e.trades \in SUBSET NewTrades(placed) /\ IsFiniteSet(e.trades)
  BY <1>10 DEF ExecutedWell
<1>12. tape' = tape \cup e.trades
  <2>1. PlaceOrderIn(bids, asks, order, n)
    BY <1>2 DEF PlaceOrder
  <2>2. CASE side = "buy"
    BY <1>6, <2>1, <2>2, PlacedBuy DEF Opposite
  <2>3. CASE side = "sell"
    BY <1>6, <2>1, <2>3, PlacedSell DEF Opposite
  <2> QED BY <2>2, <2>3
<1> HIDE DEF e
<1>13. Vol(k, tape') = Volume(e.trades)
  BY <1>3, <1>11, <1>12, TapeGrows
<1>14. \A x \in tape' : x.qty \in Nat
  BY <1>3, <1>8, TapedMore
<1>15. Vol(k, tape') \in Nat /\ \A m : Vol(m, tape) \in Nat /\ Vol(m, tape') \in Nat
                                        /\ Vol(m, tape) <= Vol(m, tape')
  BY <1>8, <1>14, VolGrows DEF Taped
<1>16. taken \in Nat /\ taken <= Vol(k, tape')
  BY <1>13, <1>15
<1> HIDE DEF taken
<1>17. /\ venueOrders \in [VenueIds -> [n : Nat, size : Nat]] /\ venueFilled \in [VenueIds -> Nat]
       /\ \A x \in VenueIds : venueFilled[x] <= Vol(venueOrders[x].n, tape)
       /\ venueOpen \subseteq VenueIds
       /\ Known(bids, venueOrders) /\ Known(asks, venueOrders)
       /\ venuePosition = None \/ venuePosition.size \in Nat \ {0}
  BY DEF VenueInv
<1>18. venueFilled[id] = 0
  <2>1. Vol(0, tape) = 0
    BY <1>3, TapedMore
  <2>2. venueFilled[id] \in Nat /\ venueFilled[id] <= 0
    BY <1>3, <1>17, <2>1
  <2> QED BY <2>2
<1>19. /\ venueFilled' \in [VenueIds -> Nat] /\ venueFilled'[id] = taken
       /\ \A x \in VenueIds : x # id => venueFilled'[x] = venueFilled[x]
  BY <1>2, <1>16, <1>17, <1>18
<1>20. /\ venueOrders' \in [VenueIds -> [n : Nat, size : Nat]] /\ venueOrders'[id].n = k
       /\ \A x \in VenueIds : x # id => venueOrders'[x] = venueOrders[x]
  BY <1>2, <1>3, <1>4, <1>6, <1>17
<1>21. \A x \in VenueIds : venueFilled'[x] <= Vol(venueOrders'[x].n, tape')
  <2>1. ASSUME NEW x \in VenueIds, x # id
        PROVE  venueFilled'[x] <= Vol(venueOrders'[x].n, tape')
    <3> DEFINE m == venueOrders[x].n
               old == Vol(m, tape)
               new == Vol(m, tape')
    <3>1. venueFilled'[x] = venueFilled[x] /\ venueOrders'[x].n = m
      BY <1>19, <1>20, <2>1
    <3>2. venueFilled[x] \in Nat /\ venueFilled[x] <= old /\ old \in Nat /\ new \in Nat /\ old <= new
      BY <1>15, <1>17
    <3> HIDE DEF old, new, m
    <3>3. venueFilled[x] <= new
      BY <3>2
    <3> QED BY <3>1, <3>3 DEF new
  <2> QED BY <1>16, <1>19, <1>20, <2>1
<1>22. Known(bids', venueOrders') /\ Known(asks', venueOrders')
  <2>1. Side(bids, "buy", placed) /\ Side(asks, "sell", placed)
    BY <1>3 DEF Sides
  <2>2. venueOrders' = [venueOrders EXCEPT ![id] = [n |-> order.n, size |-> order.qty]]
    BY <1>2, <1>6
  <2>3. Known(bids', venueOrders')
    BY <1>3, <1>6, <1>8, <1>17, <2>1, <2>2, KnownSubmitted
  <2>4. Known(asks', venueOrders')
    BY <1>3, <1>6, <1>8, <1>17, <2>1, <2>2, KnownSubmitted
  <2> QED BY <2>3, <2>4
<1>23. venueOpen' \subseteq VenueIds /\ (venuePosition' = None \/ venuePosition'.size \in Nat \ {0})
  BY <1>2, <1>16, <1>17
<1>24. VenueInv'
  BY <1>19, <1>20, <1>21, <1>22, <1>23 DEF VenueInv
<1> QED BY <1>9, <1>24

LEMMA TwoOrders ==
    ASSUME NEW x \in Orders, NEW y \in Orders, NEW side, x.side = side, y.side = side,
           x.filled = 0, y.filled = 0, x.qty > 0, y.qty > 0,
           NEW k \in Nat, x.n \in 1..k, y.n \in 1..k, x.n # y.n, Ahead(x, y)
    PROVE  LET s == <<x, y>> IN
              /\ Side(s, side, k) /\ Backed(s, {}) /\ Prioritised(s)
              /\ \A i \in 1..Len(s) : s[i] \in {x, y}
<1> DEFINE s == <<x, y>>
<1>1. s \in Seq(Orders) /\ Len(s) = 2 /\ s[1] = x /\ s[2] = y
  OBVIOUS
<1> HIDE DEF s
<1>2. \A i \in 1..Len(s) : (i = 1 /\ s[i] = x) \/ (i = 2 /\ s[i] = y)
  BY <1>1
<1>3. Side(s, side, k)
  BY <1>1, <1>2 DEF Side, Orders
<1>4. Vol(x.n, {}) = 0 /\ Vol(y.n, {}) = 0
  BY VolOfNone
<1>5. Backed(s, {})
  BY <1>2, <1>4, Zenon DEF Backed
<1>6. Prioritised(s)
  BY <1>2 DEF Prioritised
<1> QED BY <1>2, <1>3, <1>5, <1>6 DEF s

LEMMA BookBegins ==
    ASSUME BookInit
    PROVE  BookInv /\ VenueInv
<1> DEFINE b1 == Order(1, "init", "buy", Mid - 1, 1)
           b2 == Order(2, "init", "buy", Mid - 2, 2)
           a1 == Order(3, "init", "sell", Mid + 1, 1)
           a2 == Order(4, "init", "sell", Mid + 2, 2)
<1>1. /\ bids = <<b1, b2>> /\ asks = <<a1, a2>> /\ lastPrice = Mid /\ placed = 4 /\ tape = {}
      /\ venueOrders = [id \in VenueIds |-> [n |-> 0, size |-> 0]] /\ venueOpen = {}
      /\ venueFilled = [id \in VenueIds |-> 0] /\ venuePosition = None
  BY DEF BookInit
<1>2. Mid \in Int /\ 4 \in 4..MaxOrders /\ "init" \in Agents /\ "init" \in Owners
  BY BookAssumption DEF Agents, Owners
<1>3. /\ b1 \in Orders /\ b2 \in Orders /\ a1 \in Orders /\ a2 \in Orders
      /\ b1.n = 1 /\ b2.n = 2 /\ a1.n = 3 /\ a2.n = 4
      /\ \A o \in {b1, b2, a1, a2} : o.owner = "init" /\ o.filled = 0 /\ o.qty > 0
      /\ b1.side = "buy" /\ b2.side = "buy" /\ a1.side = "sell" /\ a2.side = "sell"
      /\ b1.price = Mid - 1 /\ b2.price = Mid - 2 /\ a1.price = Mid + 1 /\ a2.price = Mid + 2
  BY <1>2 DEF Order, Orders
<1> HIDE DEF b1, b2, a1, a2
<1>4. Ahead(b1, b2) /\ Ahead(a1, a2)
  BY <1>2, <1>3 DEF Ahead
<1>5. /\ Side(bids, "buy", 4) /\ Backed(bids, {}) /\ Prioritised(bids)
      /\ \A i \in 1..Len(bids) : bids[i] \in {b1, b2}
  BY <1>1, <1>3, <1>4, TwoOrders
<1>6. /\ Side(asks, "sell", 4) /\ Backed(asks, {}) /\ Prioritised(asks)
      /\ \A i \in 1..Len(asks) : asks[i] \in {a1, a2}
  BY <1>1, <1>3, <1>4, TwoOrders
<1>7. \A b \in {b1, b2}, a \in {a1, a2} : b.n # a.n /\ ~Crosses(b, a)
  BY <1>2, <1>3 DEF Crosses
<1>8. Apart(bids, asks) /\ Ordered(bids, asks)
  BY <1>5, <1>6, <1>7, Zenon DEF Apart, Ordered
<1>9. Sides(bids, asks, "buy", 4, {})
  BY <1>5, <1>6, <1>8 DEF Sides
<1>10. Taped({}, 4)
  BY FS_EmptySet DEF Taped
<1>11. BookInv
  BY <1>1, <1>2, <1>8, <1>9, <1>10 DEF BookInv
<1>12. "init" \notin VenueIds
  BY <1>2, AgentsDiffer
<1>13. \A o \in {b1, b2, a1, a2} : o.owner \notin VenueIds
  BY <1>3, <1>12
<1>14. Known(bids, venueOrders) /\ Known(asks, venueOrders)
  BY <1>5, <1>6, <1>13, Zenon DEF Known
<1>15. \A id \in VenueIds : venueFilled[id] <= Vol(venueOrders[id].n, tape)
  <2>1. Vol(0, {}) = 0
    BY VolOfNone
  <2> QED BY <1>1, <2>1
<1>16. VenueInv
  BY <1>1, <1>14, <1>15 DEF VenueInv
<1> QED BY <1>11, <1>16

LEMMA BookContinues ==
    ASSUME BookInv, VenueInv, [BookNext]_<<bookVars, venueVars>>
    PROVE  BookInv' /\ VenueInv'
<1>1. ASSUME NEW p \in Proposals, NEW qty \in Sizes, RunAgent(p[1], p[2], p[3], qty)
      PROVE  BookInv' /\ VenueInv'
  <2>1. UNCHANGED venueVars
    BY <1>1 DEF RunAgent
  <2>2. Steady
    BY <1>1, AgentSteady
  <2> QED BY <2>1, <2>2, SteadyKeeps DEF venueVars, Steady
<1>2. ASSUME NEW qty \in Sizes, Spoof(qty)
      PROVE  BookInv' /\ VenueInv'
  <2>1. UNCHANGED venueVars
    BY <1>2 DEF Spoof
  <2>2. Steady
    BY <1>2, SpoofSteady
  <2> QED BY <2>1, <2>2, SteadyKeeps DEF venueVars, Steady
<1>3. CASE FlashCrash \/ LiquidityVacuum \/ GapOpen \/ SpoofStage1 \/ SpoofStage3 \/ SpoofStage4
  <2>1. UNCHANGED venueVars
    BY <1>3 DEF FlashCrash, LiquidityVacuum, GapOpen, SpoofStage1, SpoofStage3, SpoofStage4
  <2>2. Steady
    BY <1>3, CrashSteady, VacuumSteady, PriceSteady, SpooferSteady, WithdrawSteady
  <2> QED BY <2>1, <2>2, SteadyKeeps DEF venueVars, Steady
<1>4. ASSUME NEW id \in VenueIds, NEW side \in {"buy", "sell"}, NEW price \in Mid - 1 .. Mid + 1,
             NEW qty \in Sizes, Submit(id, side, price, qty)
      PROVE  BookInv' /\ VenueInv'
  <2>1. price \in Int
    BY BookAssumption
  <2> QED BY <1>4, <2>1, SubmitKeeps
<1>5. CASE SubmitExit
  <2>1. venueOrders' = venueOrders /\ venueFilled' = venueFilled /\ venueOpen' = venueOpen
        /\ venuePosition' = None
    BY <1>5 DEF SubmitExit
  <2>2. Steady
    BY <1>5, ExitSteady
  <2> QED BY <2>1, <2>2, SteadyKeeps DEF Steady
<1>6. ASSUME NEW id \in VenueIds, Cancel(id)
      PROVE  BookInv' /\ VenueInv'
  <2>1. venueOrders' = venueOrders /\ venueFilled' = venueFilled /\ venueOpen' \subseteq venueOpen
        /\ venuePosition' = venuePosition
    BY <1>6 DEF Cancel
  <2>2. Steady
    BY <1>6, CancelSteady
  <2> QED BY <2>1, <2>2, SteadyKeeps DEF Steady
<1>7. CASE UNCHANGED <<bookVars, venueVars>>
  BY <1>7 DEF bookVars, venueVars, BookInv, VenueInv
<1> QED BY <1>1, <1>2, <1>3, <1>4, <1>5, <1>6, <1>7, Zenon DEF BookNext

LEMMA BookHolds == BookSpec => [](BookInv /\ VenueInv)
<1>1. BookInit => BookInv /\ VenueInv
  BY BookBegins
<1>2. BookInv /\ VenueInv /\ [BookNext]_<<bookVars, venueVars>> => (BookInv /\ VenueInv)'
  BY BookContinues
<1> QED BY <1>1, <1>2, PTL DEF BookSpec

(* The book holds open orders of its own sides only, and the venue reports   *)
(* quantities (lob.py:84-123, venue.py:60-68).                               *)
THEOREM BookTypeCorrect == BookSpec => []BookTypeOK
<1>1. BookInv /\ VenueInv => BookTypeOK
  <2> SUFFICES ASSUME BookInv, VenueInv PROVE BookTypeOK
    OBVIOUS
  <2>1. Side(bids, "buy", placed) /\ Side(asks, "sell", placed)
    BY InvSides
  <2>2. \A o \in Orders : o.filled < o.qty => Unfilled(o) > 0
    BY DEF Orders, Unfilled
  <2>3. \A i \in 1..Len(bids) : bids[i].side = "buy" /\ Unfilled(bids[i]) > 0
    BY <2>1, <2>2, ElementOfSeq DEF Side
  <2>4. \A i \in 1..Len(asks) : asks[i].side = "sell" /\ Unfilled(asks[i]) > 0
    BY <2>1, <2>2, ElementOfSeq DEF Side
  <2> QED BY <2>3, <2>4 DEF BookTypeOK, BookInv, VenueInv
<1> QED BY <1>1, BookHolds, PTL

(* Until the injector writes into it, the book is never crossed and is in     *)
(* price-time priority, whatever slips in a sweep, rests or is cancelled      *)
(* (lob.py:84-219).                                                          *)
THEOREM BookStaysInOrder == BookSpec => []BookInOrder
<1>1. BookInv => BookInOrder
  <2> SUFFICES ASSUME BookInv, ~injected PROVE BookInOrder
    BY DEF BookInOrder
  <2>1. Ordered(bids, asks) /\ Side(bids, "buy", placed) /\ Side(asks, "sell", placed)
    BY InvSides DEF BookInv
  <2>2. bids \in Seq(Orders) /\ asks \in Seq(Orders) /\ Len(bids) \in Nat /\ Len(asks) \in Nat
    BY <2>1, BestAre DEF Side
  <2>3. ASSUME bids # <<>>, asks # <<>> PROVE bids[1].price < asks[1].price
    <3>1. 1 \in 1..Len(bids) /\ 1 \in 1..Len(asks) /\ bids[1] \in Orders /\ asks[1] \in Orders
      BY <2>2, <2>3, BestLeaves
    <3>2. ~Crosses(bids[1], asks[1]) /\ bids[1].side = "buy"
      BY <2>1, <3>1 DEF Ordered, Side
    <3>3. \A x \in Orders : x.price \in Int
      BY DEF Orders
    <3>4. bids[1].price \in Int /\ asks[1].price \in Int
      BY <3>1, <3>3
    <3> QED BY <3>2, <3>4 DEF Crosses
  <2>4. \A i \in 1..Len(bids) - 1 : Ahead(bids[i], bids[i + 1])
    BY <2>1, <2>2 DEF Ordered, Prioritised
  <2>5. \A i \in 1..Len(asks) - 1 : Ahead(asks[i], asks[i + 1])
    BY <2>1, <2>2 DEF Ordered, Prioritised
  <2> QED BY <2>3, <2>4, <2>5 DEF BookInOrder
<1> QED BY <1>1, BookHolds, PTL

(* What a resting order has filled is what was traded of it; the venue never  *)
(* reports more of an order than was traded, and an order it reports as       *)
(* filled is not in the book (lob.py:124-214, venue.py:60-161).               *)
THEOREM BookFillsAreTraded == BookSpec => []FillsAreTraded
<1>1. BookInv /\ VenueInv => FillsAreTraded
  <2> SUFFICES ASSUME BookInv, VenueInv PROVE FillsAreTraded
    OBVIOUS
  <2>1. /\ Side(bids, "buy", placed) /\ Side(asks, "sell", placed)
        /\ Backed(bids, tape) /\ Backed(asks, tape)
        /\ Known(bids, venueOrders) /\ Known(asks, venueOrders)
    BY DEF BookInv, Sides, VenueInv
  <2>2. \A n : Traded(n) = Vol(n, tape)
    BY DEF Traded, Vol
  <2> DEFINE Fair(o) == /\ o \in Orders /\ o.filled < o.qty /\ o.filled = Vol(o.n, tape)
                        /\ o.owner \in VenueIds => /\ o.n = venueOrders[o.owner].n
                                                   /\ o.qty = venueOrders[o.owner].size
  <2>3. ASSUME NEW o \in ToSet(bids) \cup ToSet(asks) PROVE Fair(o)
    <3>1. CASE o \in ToSet(bids)
      <4>1. PICK i \in 1..Len(bids) : o = bids[i]
        BY <3>1 DEF ToSet
      <4> QED BY <2>1, <4>1, ElementOfSeq DEF Side, Backed, Known
    <3>2. CASE o \in ToSet(asks)
      <4>1. PICK i \in 1..Len(asks) : o = asks[i]
        BY <3>2 DEF ToSet
      <4> QED BY <2>1, <4>1, ElementOfSeq DEF Side, Backed, Known
    <3> QED BY <3>1, <3>2
  <2>4. \A id \in VenueIds : venueFilled[id] <= Vol(venueOrders[id].n, tape)
    BY DEF VenueInv
  <2>5. ASSUME NEW id \in VenueIds, FetchOrder(id) = "filled",
               NEW o \in ToSet(bids) \cup ToSet(asks), o.owner = id
        PROVE  FALSE
    <3> DEFINE filled == venueFilled[id]
               size == venueOrders[id].size
    <3>1. filled # 0 /\ filled \notin 1 .. size - 1
      BY <2>5 DEF FetchOrder
    <3>2. o.filled < o.qty /\ o.filled \in Nat /\ o.qty = size /\ filled <= o.filled /\ filled \in Nat
          /\ size \in Nat
      BY <2>3, <2>4, <2>5 DEF Orders, VenueInv
    <3> HIDE DEF filled, size
    <3> QED BY <3>1, <3>2
  <2> QED BY <2>2, <2>3, <2>4, <2>5, Zenon DEF FillsAreTraded
<1> QED BY <1>1, BookHolds, PTL

=============================================================================
