---------------------------- MODULE LiveAdapter ----------------------------
(***************************************************************************)
(* CcxtLiveAdapter (src/src/trading/execution/live_adapter.py): one venue  *)
(* call with a hard time limit and retries of network errors, below        *)
(* create_order, create_exit, cancel_order and fetch_order, against a      *)
(* venue that may lose a request, lose an answer, or carry out a request   *)
(* the adapter has given up.                                               *)
(*                                                                         *)
(* A submission is named by its client order id.  What the venue does with *)
(* a second request of the same id is not in src: it may refuse an id it   *)
(* has seen, and it may take it for a further order.                       *)
(***************************************************************************)
EXTENDS Integers, FiniteSets

CONSTANTS
    Ids,            \* client order ids
    Exits,          \* those of create_exit, the others are of create_order
    MaxRetries,     \* _MAX_RETRIES
    Approved,       \* the approved size, in units of the finest grid
    Grids,          \* the step sizes the venue may publish, in those units
    MinSize,        \* the size whose notional is the venue's minimum
    DryRun,         \* the adapter's dry_run
    MaxLosses       \* bound: requests or answers that get lost

ASSUME AdapterAssumption ==
    /\ Exits \subseteq Ids
    /\ MaxRetries \in Nat /\ MaxLosses \in Nat
    /\ DryRun \in BOOLEAN
    /\ Approved \in Nat /\ MinSize \in Nat
    /\ Grids \subseteq Nat \ {0}

VARIABLES
    call,       \* of each id: what its caller awaits, and its last outcome
    cached,     \* _instrument_cache: the step size, 0 before load_markets
    grid,       \* the venue's step size now
    killed,     \* account_state.kill_switch
    resting,    \* of each id: the venue's open orders under it
    made,       \* of each id: orders the venue has accepted under it
    late,       \* of each id and operation: requests given up and still under way
    givenUp,    \* history, of each id: attempts of a creation that were given up
    losses

adapterVars == <<call, cached, grid, killed, resting, made, late, givenUp, losses>>

Outcomes == {"none", "answered", "absent", "REJECTED", "EXPIRED", "UNKNOWN",
             "killed", "dry_run", "too_small"}
Ops == {"create", "cancel", "fetch"}

AdapterTypeOK ==
    /\ call \in [Ids -> [pc : {"idle", "load", "send"}, op : Ops,
                         attempt : 0..MaxRetries, outcome : Outcomes]]
    /\ cached \in Grids \cup {0} /\ grid \in Grids /\ killed \in BOOLEAN
    /\ resting \in [Ids -> Nat] /\ made \in [Ids -> Nat] /\ givenUp \in [Ids -> Nat]
    /\ late \in [Ids \X Ops -> Nat] /\ losses \in 0..MaxLosses

AdapterInit ==
    /\ call = [i \in Ids |-> [pc |-> "idle", op |-> "create", attempt |-> 0, outcome |-> "none"]]
    /\ cached = 0 /\ grid \in Grids /\ killed = FALSE
    /\ resting = [i \in Ids |-> 0] /\ made = [i \in Ids |-> 0]
    /\ late = [request \in Ids \X Ops |-> 0] /\ givenUp = [i \in Ids |-> 0] /\ losses = 0

----------------------------------------------------------------------------
(* The call's end, and its bookkeeping.                                    *)

Raise(i, outcome) == call' = [call EXCEPT ![i].pc = "idle", ![i].outcome = outcome]
Await(i, pc, op) ==
    call' = [call EXCEPT ![i] = [pc |-> pc, op |-> op, attempt |-> 0, outcome |-> "none"]]

(* quantize_to_step: down onto the grid, never up.                         *)
Quantized(size, step) == (size \div step) * step

(* An order whose quantized notional is below the minimum is refused before*)
(* it is sent (check_min_notional); an exit carries no size.               *)
BigEnough(i, step) == IF i \in Exits THEN TRUE ELSE Quantized(Approved, step) >= MinSize

----------------------------------------------------------------------------
(* The operations up to their first await.                                 *)

(* create_order and create_exit look at the kill switch here and never     *)
(* again; an order then needs the instrument, an exit does not.            *)
Submission(i) ==
    /\ call[i].pc = "idle" /\ call[i].outcome = "none"
    /\ \/ killed /\ Raise(i, "killed")
       \/ ~killed /\ DryRun /\ Raise(i, "dry_run")
       \/ ~killed /\ ~DryRun /\ i \notin Exits /\ cached = 0 /\ Await(i, "load", "create")
       \/ /\ ~killed /\ ~DryRun
          /\ i \in Exits \/ cached # 0
          /\ \/ BigEnough(i, cached) /\ Await(i, "send", "create")
             \/ ~BigEnough(i, cached) /\ Raise(i, "too_small")
    /\ UNCHANGED <<cached, grid, killed, resting, made, late, givenUp, losses>>

(* cancel_order and fetch_order ask the venue whatever the kill switch     *)
(* says; a dry run answers by itself.                                      *)
CancelOrFetch(i, op) ==
    /\ call[i].pc = "idle" /\ call[i].outcome \in {"answered", "UNKNOWN", "dry_run"}
    /\ IF DryRun THEN Raise(i, "dry_run") ELSE Await(i, "send", op)
    /\ UNCHANGED <<cached, grid, killed, resting, made, late, givenUp, losses>>

----------------------------------------------------------------------------
(* The venue.                                                              *)

Size(i) == IF i \in Exits THEN Approved ELSE Quantized(Approved, cached)

OnGrid(i) == IF i \in Exits THEN TRUE ELSE Quantized(Approved, cached) % grid = 0

(* What the request may be answered with when it is carried out now.       *)
Replies(i, op) ==
    CASE op = "create" /\ OnGrid(i)  -> IF made[i] = 0 THEN {"answered"} ELSE {"answered", "REJECTED"}
      [] op = "create" /\ ~OnGrid(i) -> {"REJECTED"}
      [] op = "cancel" -> {IF resting[i] = 0 THEN "EXPIRED" ELSE "answered"}
      [] op = "fetch"  -> {IF made[i] = 0 THEN "absent" ELSE "answered"}

(* Its effect.  The client id travels with every request of the call.      *)
Effect(i, op, reply) ==
    LET created  == IF op = "create" /\ reply = "answered" THEN 1 ELSE 0
        canceled == IF op = "cancel" /\ reply = "answered" THEN 1 ELSE 0
    IN  /\ reply \in Replies(i, op)
        /\ made' = [made EXCEPT ![i] = @ + created]
        /\ resting' = [resting EXCEPT ![i] = @ + created - canceled]

Nothing == UNCHANGED <<resting, made>>

----------------------------------------------------------------------------
(* _call: up to 1 + _MAX_RETRIES attempts.                                 *)

(* load_markets, awaited through _call as well.                            *)
LoadMarkets(i) ==
    /\ call[i].pc = "load"
    /\ cached' = grid
    /\ \/ BigEnough(i, grid) /\ Await(i, "send", "create")
       \/ ~BigEnough(i, grid) /\ Raise(i, "too_small")
    /\ UNCHANGED <<grid, killed, resting, made, late, givenUp, losses>>

Answered(i) ==
    /\ call[i].pc = "send"
    /\ \E reply \in Replies(i, call[i].op) : Effect(i, call[i].op, reply) /\ Raise(i, reply)
    /\ UNCHANGED <<cached, grid, killed, late, givenUp, losses>>

(* RateLimitExceeded is a NetworkError, is caught first, and ends the call.*)
RateLimited(i) ==
    /\ call[i].pc # "idle" /\ losses < MaxLosses
    /\ losses' = losses + 1
    /\ Raise(i, "UNKNOWN") /\ Nothing
    /\ UNCHANGED <<cached, grid, killed, late, givenUp>>

(* A bug: the loop makes one attempt too many.                             *)
RetryOnceMore(i) ==
    \/ /\ call[i].attempt <= MaxRetries
       /\ call' = [call EXCEPT ![i].attempt = @ + 1]
    \/ call[i].attempt > MaxRetries /\ Raise(i, "UNKNOWN")

(* Any other network error, or the time limit: the request was lost, was   *)
(* carried out and its answer lost, or is still under way.  The next       *)
(* attempt sends it again; the last attempt's error is raised.             *)
Retry(i) ==
    \/ /\ call[i].attempt < MaxRetries
       /\ call' = [call EXCEPT ![i].attempt = @ + 1]
    \/ call[i].attempt = MaxRetries /\ Raise(i, "UNKNOWN")

NetworkError(i) ==
    /\ call[i].pc # "idle" /\ losses < MaxLosses
    /\ losses' = losses + 1
    /\ Retry(i)
    /\ \/ Nothing /\ late' = late
       \/ /\ call[i].pc = "send" /\ late' = late
          /\ \E reply \in Replies(i, call[i].op) : Effect(i, call[i].op, reply)
       \/ call[i].pc = "send" /\ Nothing /\ late' = [late EXCEPT ![<<i, call[i].op>>] = @ + 1]
    /\ givenUp' = IF call[i].pc = "send" /\ call[i].op = "create"
                  THEN [givenUp EXCEPT ![i] = @ + 1] ELSE givenUp
    /\ UNCHANGED <<cached, grid, killed>>

----------------------------------------------------------------------------
(* The venue and the operator by themselves.                               *)

LateRequest(i, op) ==
    /\ late[i, op] > 0
    /\ late' = [late EXCEPT ![<<i, op>>] = @ - 1]
    /\ \E reply \in Replies(i, op) : Effect(i, op, reply)
    /\ UNCHANGED <<call, cached, grid, killed, givenUp, losses>>

VenueFills(i) ==
    /\ resting[i] > 0
    /\ resting' = [resting EXCEPT ![i] = @ - 1]
    /\ UNCHANGED <<call, cached, grid, killed, made, late, givenUp, losses>>

VenueChangesGrid(g) ==
    /\ g # grid /\ grid' = g
    /\ UNCHANGED <<call, cached, killed, resting, made, late, givenUp, losses>>

TripKillSwitch ==
    /\ ~killed /\ killed' = TRUE
    /\ UNCHANGED <<call, cached, grid, resting, made, late, givenUp, losses>>

AdapterNext ==
    \/ \E i \in Ids :
         \/ Submission(i) \/ LoadMarkets(i) \/ Answered(i) \/ RateLimited(i)
         \/ NetworkError(i) \/ VenueFills(i)
         \/ \E op \in {"cancel", "fetch"} : CancelOrFetch(i, op)
         \/ \E op \in Ops : LateRequest(i, op)
    \/ \E g \in Grids : VenueChangesGrid(g)
    \/ TripKillSwitch

AdapterSpec == AdapterInit /\ [][AdapterNext]_adapterVars

----------------------------------------------------------------------------
(* Every order is an attempt: the orders under a client id and the requests*)
(* that may still become one are at most the attempts that were given up   *)
(* and the one that was answered, never more than the retry loop allows,   *)
(* and a REJECTED leaves none but those given up, however requests and     *)
(* answers are lost or late (live_adapter.py:241-268).  No order is larger *)
(* than the risk engine approved (:270-280).                               *)
OrdersAreAttempts ==
    \A i \in Ids :
        LET orders == made[i] + late[i, "create"]
        IN  /\ orders <= givenUp[i] + 1
            /\ orders <= MaxRetries + 1
            /\ call[i].outcome = "REJECTED" => orders <= givenUp[i]
            /\ made[i] > 0 => Size(i) <= Approved

(* One submission, one order: the client order id is sent so that a retry  *)
(* is told from a new order.  Only the venue can tell: one that takes an id*)
(* again, as after a fill, has two orders of one submission.               *)
RetriesNeverDouble == \A i \in Ids : made[i] <= 1

(* live_adapter.py:80-81: rejections the exchange declares imply a terminal*)
(* state.  A retry of a request that was carried out is declared a         *)
(* duplicate: the order is open and its caller told REJECTED.              *)
RejectedMeansNoOrder ==
    \A i \in Ids : call[i].outcome = "REJECTED" => resting[i] = 0

(* live_adapter.py:12: "a tripped kill-switch blocks submission".  It is   *)
(* read before the instrument is loaded and before the retries.            *)
NothingSentWhenKilled ==
    [][killed => \A i \in Ids : (call[i].pc = "send" /\ call[i].op = "create") => made'[i] = made[i]]_adapterVars
=============================================================================
