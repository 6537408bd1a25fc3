------------------------------- MODULE HALock -------------------------------
(***************************************************************************)
(* The active-passive lock of infrastructure/ha_lock.py with its Redis     *)
(* backend: nodes that run acquire_lock, send_heartbeat and release_lock   *)
(* in any order, as the separate Redis commands these methods send (SET NX *)
(* PX, GET, PEXPIRE, the compare-and-delete script), while keys expire,    *)
(* commands fail and nodes crash and restart.                              *)
(*                                                                         *)
(* Tokens are random, so all that matters of the stored value is whose     *)
(* current token it equals: a node's, or nobody's any more (Orphan: a SET  *)
(* whose answer was lost, or a token its node has forgotten).              *)
(***************************************************************************)
EXTENDS Naturals

CONSTANTS
  Node,
  TTL,            \* life of the key, in ticks
  CommandsMayFail,\* Redis commands may raise, before or after their effect
  MaxFence        \* bound on the fencing tokens drawn

ASSUME HALockAssumption ==
  /\ TTL \in Nat \ {0}
  /\ CommandsMayFail \in BOOLEAN
  /\ MaxFence \in Nat

NoOne  == "no one"
Orphan == "orphan"

ASSUME NodeAssumption == NoOne \notin Node /\ Orphan \notin Node

VARIABLES
  key,      \* whose token the lock key holds
  ttl,      \* ticks until the key expires
  fence,    \* the counter <lock_name>:fence
  up,       \* the process runs
  held,     \* RedisLockBackend.is_active
  primary,  \* ActivePassiveManager.is_active
  call,     \* between two steps of a method: the SET took effect, or
            \* waiting to GET or PEXPIRE
  stopping, \* GracefulShutdownHandler.shutdown_initiated
  lease,    \* ticks since the SET or PEXPIRE behind the last answer True,
            \* counted down from TTL
  slipped   \* history: that PEXPIRE found the key no longer the node's own

redis == <<key, ttl, fence>>
local == <<held, primary, call, stopping, lease, slipped>>
vars  == <<redis, up, local>>

Refreshing == {"refresh in acquire", "refresh in heartbeat"}

TypeOK ==
  /\ key \in Node \cup {NoOne, Orphan}
  /\ ttl \in 0..TTL
  /\ fence \in 0..MaxFence
  /\ up \subseteq Node
  /\ held \subseteq Node
  /\ primary \subseteq Node
  /\ call \in [Node -> {"none", "set", "acquire"} \cup Refreshing]
  /\ stopping \subseteq Node
  /\ lease \in [Node -> 0..TTL]
  /\ slipped \subseteq Node

Init ==
  /\ key = NoOne
  /\ ttl = 0
  /\ fence = 0
  /\ up = Node
  /\ held = {}
  /\ primary = {}
  /\ call = [n \in Node |-> "none"]
  /\ lease = [n \in Node |-> 0]
  /\ slipped = {}
  /\ stopping = {}

Idle(n) == n \in up /\ n \notin stopping /\ call[n] = "none"

\* The node answers its caller "not held".
Demote(n) ==
  /\ primary' = primary \ {n}
  /\ lease' = [lease EXCEPT ![n] = 0]
  /\ slipped' = slipped \ {n}

\* A SET or PEXPIRE that answers True took effect, on the node's own key or not.
Lease(n, own) ==
  /\ lease' = [lease EXCEPT ![n] = TTL]
  /\ slipped' = IF own THEN slipped \ {n} ELSE slipped \cup {n}

-----------------------------------------------------------------------------
(* acquire_lock                                                            *)

\* A SET that creates the key as token of node n, for so many ticks.
SetKey(n, ticks) ==
  /\ Idle(n)
  /\ key' = n
  /\ ttl' = ticks
  /\ call' = [call EXCEPT ![n] = "set"]
  /\ Lease(n, TRUE)
  /\ UNCHANGED <<fence, up, held, primary, stopping>>

\* Mutant: the key is created without an expiry.
AcquireSetForever(n) == key = NoOne /\ SetKey(n, 0)

\* Mutant: SET without NX.
AcquireSetOver(n) == SetKey(n, TTL)

\* SET NX PX creates the key.
AcquireSet(n) == key = NoOne /\ SetKey(n, TTL)

\* Its answer: the token and the two flags are written.
AcquireAnswered(n) ==
  /\ call[n] = "set"
  /\ call' = [call EXCEPT ![n] = "none"]
  /\ held' = held \cup {n}
  /\ primary' = primary \cup {n}
  /\ UNCHANGED <<redis, up, lease, slipped, stopping>>

\* The key exists: look whether it holds our own token.
AcquireContended(n) ==
  /\ Idle(n)
  /\ key # NoOne
  /\ call' = [call EXCEPT ![n] = "acquire"]
  /\ UNCHANGED <<redis, up, held, primary, lease, slipped, stopping>>

\* SET raises: not held, though the key may have been created.
AcquireSetFails(n) ==
  /\ CommandsMayFail
  /\ Idle(n)
  /\ \/ UNCHANGED <<key, ttl>>
     \/ key = NoOne /\ key' = Orphan /\ ttl' = TTL
  /\ Demote(n)
  /\ UNCHANGED <<fence, up, held, call, stopping>>

\* GET: our own token means a re-entrant refresh; anything else, a failure
\* included, means not held.
AcquireGetOwn(n) ==
  /\ call[n] = "acquire"
  /\ key = n
  /\ call' = [call EXCEPT ![n] = "refresh in acquire"]
  /\ UNCHANGED <<redis, up, held, primary, lease, slipped, stopping>>

AcquireGetOther(n) ==
  /\ call[n] = "acquire"
  /\ key # n \/ CommandsMayFail
  /\ call' = [call EXCEPT ![n] = "none"]
  /\ held' = held \ {n}
  /\ Demote(n)
  /\ UNCHANGED <<redis, up, stopping>>
-----------------------------------------------------------------------------
(* send_heartbeat; without a token it answers False and changes nothing    *)

HeartbeatGetOwn(n) ==
  /\ Idle(n)
  /\ n \in held
  /\ key = n
  /\ call' = [call EXCEPT ![n] = "refresh in heartbeat"]
  /\ UNCHANGED <<redis, up, held, primary, lease, slipped, stopping>>

\* The key is gone or another node's: the token is forgotten.
HeartbeatGetOther(n) ==
  /\ Idle(n)
  /\ n \in held
  /\ key # n
  /\ held' = held \ {n}
  /\ Demote(n)
  /\ UNCHANGED <<redis, up, call, stopping>>

\* GET raises: the manager steps down, the backend keeps its token.
HeartbeatGetFails(n) ==
  /\ CommandsMayFail
  /\ Idle(n)
  /\ n \in held
  /\ Demote(n)
  /\ UNCHANGED <<redis, up, held, call, stopping>>

\* PEXPIRE, unconditional: it extends the key whoever owns it by now.
Refresh(n) ==
  /\ call[n] \in Refreshing
  /\ call' = [call EXCEPT ![n] = "none"]
  /\ ttl' = IF key = NoOne THEN ttl ELSE TTL
  /\ IF call[n] = "refresh in acquire"
     THEN /\ held' = held \cup {n}
          /\ primary' = primary \cup {n}
     ELSE UNCHANGED <<held, primary>>
  /\ Lease(n, key = n)
  /\ UNCHANGED <<key, fence, up, stopping>>

\* PEXPIRE raises out of the method: every flag stays as it was.
RefreshFails(n) ==
  /\ CommandsMayFail
  /\ call[n] \in Refreshing
  /\ call' = [call EXCEPT ![n] = "none"]
  /\ \/ UNCHANGED ttl
     \/ key # NoOne /\ ttl' = TTL
  /\ UNCHANGED <<key, fence, up, held, primary, lease, slipped, stopping>>
-----------------------------------------------------------------------------
(* release_lock                                                            *)

\* Mutant: delete without compare.
DeleteLock(n) ==
  /\ n \in held
  /\ key' = NoOne
  /\ ttl' = 0
  /\ held' = held \ {n}
  /\ Demote(n)
  /\ UNCHANGED <<fence, up, call>>

\* The key holds the token the node has stored.
Matches(n) == key = n /\ call[n] # "set"

\* Compare-and-delete, by script or by WATCH; if neither reaches Redis, the
\* token is forgotten all the same and the key expires by itself.
ReleaseLock(n) ==
  /\ \/ /\ n \in held
        /\ IF Matches(n) THEN key' = NoOne /\ ttl' = 0
                         ELSE UNCHANGED <<key, ttl>>
     \/ /\ n \in held
        /\ CommandsMayFail
        /\ key' = IF Matches(n) THEN Orphan ELSE key
        /\ UNCHANGED ttl
     \/ /\ n \notin held
        /\ UNCHANGED <<key, ttl>>
  /\ held' = held \ {n}
  /\ Demote(n)
  /\ UNCHANGED <<fence, up, call>>

Release(n) ==
  /\ Idle(n)
  /\ n \in held
  /\ ReleaseLock(n)
  /\ UNCHANGED stopping

\* handle_signal runs between any two instructions of the main thread, and
\* the interrupted method goes on after it; no new one is called.
Signal(n) ==
  /\ n \in up
  /\ n \notin stopping
  /\ ReleaseLock(n)
  /\ stopping' = stopping \cup {n}

\* fencing_token: INCR, for whoever thinks it is primary.
DrawToken(n) ==
  /\ Idle(n)
  /\ n \in primary
  /\ fence < MaxFence
  /\ fence' = fence + 1
  /\ UNCHANGED <<key, ttl, up, held, primary, call, stopping, lease, slipped>>
-----------------------------------------------------------------------------
(* Time, crashes                                                           *)

Tick ==
  /\ ttl > 0 \/ \E n \in Node : lease[n] > 0
  /\ ttl' = IF ttl > 0 THEN ttl - 1 ELSE 0
  /\ key' = IF ttl = 1 THEN NoOne ELSE key
  /\ lease' = [n \in Node |-> IF lease[n] > 0 THEN lease[n] - 1 ELSE 0]
  /\ slipped' = {n \in slipped : lease[n] > 1}
  /\ UNCHANGED <<fence, up, held, primary, call, stopping>>

Crash(n) ==
  /\ n \in up
  /\ up' = up \ {n}
  /\ key' = IF key = n THEN Orphan ELSE key
  /\ held' = held \ {n}
  /\ Demote(n)
  /\ call' = [call EXCEPT ![n] = "none"]
  /\ stopping' = stopping \ {n}
  /\ UNCHANGED <<ttl, fence>>

Restart(n) ==
  /\ n \notin up
  /\ up' = up \cup {n}
  /\ UNCHANGED <<redis, local>>
-----------------------------------------------------------------------------
Acquire(n) ==
  \/ AcquireSet(n) \/ AcquireAnswered(n)
  \/ AcquireContended(n) \/ AcquireSetFails(n)
  \/ AcquireGetOwn(n) \/ AcquireGetOther(n)

Heartbeat(n) ==
  \/ HeartbeatGetOwn(n) \/ HeartbeatGetOther(n) \/ HeartbeatGetFails(n)
  \/ Refresh(n) \/ RefreshFails(n)

Next ==
  \/ Tick
  \/ \E n \in Node :
       \/ Acquire(n) \/ Heartbeat(n)
       \/ Release(n) \/ Signal(n) \/ DrawToken(n)
       \/ Crash(n) \/ Restart(n)

Spec == Init /\ [][Next]_vars

\* Time passes, a crashed process is restarted by its supervisor, and a
\* running one keeps calling acquire_lock until it is primary.
FairSpec ==
  /\ Spec
  /\ WF_vars(Tick)
  /\ \A n \in Node :
       /\ WF_vars(Restart(n))
       /\ WF_vars(AcquireSet(n))
       /\ WF_vars(AcquireAnswered(n))
       /\ WF_vars(AcquireGetOwn(n) \/ AcquireGetOther(n))
       /\ WF_vars(Refresh(n))
-----------------------------------------------------------------------------
(* Properties                                                              *)

\* What makes failover safe: a node whose last answer True is less than a TTL
\* old and that is not shutting down owns the key, ...
LeaseHolderOwnsKey ==
  \A n \in Node \ stopping : lease[n] > 0 => key = n

\* ... or has extended a key that was not its own any more: nothing else than
\* an expiry between a GET and its PEXPIRE makes the answer wrong.
LeaseOwnedOrSlipped ==
  \A n \in Node \ stopping : lease[n] > 0 => key = n \/ n \in slipped

\* At most one node is primary by an answer less than a TTL old, ...
AtMostOneLeased ==
  \A m, n \in Node \ stopping : lease[m] > 0 /\ lease[n] > 0 => m = n

\* ... and when two are, one of them has slipped.
SecondLeaseSlipped ==
  \A m, n \in Node \ stopping :
    lease[m] > 0 /\ lease[n] > 0 /\ m # n => {m, n} \cap slipped # {}

\* Mutual exclusion of the flag callers read, is_active.
AtMostOnePrimary ==
  \A m, n \in Node : m \in primary /\ n \in primary => m = n

\* A node never drops a lock another node owns by now: an owner loses the key
\* by expiry, by its own release or by its crash.
OnlyOwnerReleases ==
  [][\A n \in Node :
       key = n /\ key' # n => (ttl = 1 /\ ttl' = 0) \/ n \notin held']_vars

\* Fencing tokens order the holders of the lock: only the owner of the key
\* draws one, so a later owner's tokens are larger than all earlier ones.
OnlyOwnerDrawsTokens ==
  [][\A n \in Node : DrawToken(n) => key = n]_vars

\* A node that has handled SIGTERM does not believe it is primary.
StoppedNotPrimary ==
  \A n \in Node : n \in stopping => n \notin primary

\* Failover: while some node stays up and no SET fails any more, the lock is
\* owned by a live node again and again, whoever dies, is stopped or loses an
\* answer holding it.
TakesOver ==
  \A n \in Node :
    /\ <>[](n \in up /\ n \notin stopping)
    /\ <>[][\A m \in Node : ~AcquireSetFails(m)]_vars
    => []<>(key \in Node)
=============================================================================
