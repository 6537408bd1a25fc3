------------------------- MODULE Operations_proofs -------------------------
(***************************************************************************)
(* Theorems about what runs beside the trading, unit by unit.              *)
(*   HALock: who holds the lease, for any nodes, TTL, crashes and failing  *)
(*     commands.                                                           *)
(*   AuditLedger: the breaks of the stored chain are explained.            *)
(*   Alerting: no daemon forgets what another one paged for.               *)
(*   ApiSessions: what a restart loads is what the process has.            *)
(*   Staleness: what counts as fresh.                                      *)
(*   Recovery: what a reconciliation finds.                                *)
(***************************************************************************)
EXTENDS HALock, AuditLedger, Alerting, ApiSessions, Staleness, Recovery,
        FiniteSetTheorems, SequenceTheorems, TLAPS

----------------------------------------------------------------------------
(* HALock                                                                  *)


\* Every variable of the lock keeps its type.
THEOREM TypeCorrect == Spec => []TypeOK
<1> USE HALockAssumption DEF TypeOK
<1>1. Init => TypeOK
  BY DEF Init
<1>2. TypeOK /\ [Next]_vars => TypeOK'
  <2> SUFFICES ASSUME TypeOK, [Next]_vars
               PROVE  TypeOK'
    OBVIOUS
  <2>1. CASE UNCHANGED vars
    BY <2>1 DEF vars, redis, local
  <2>2. CASE Tick
    BY <2>2 DEF Tick
  <2>3. ASSUME NEW n \in Node, Acquire(n)
        PROVE  TypeOK'
    <3>1. CASE AcquireSet(n)
      BY <3>1 DEF AcquireSet, SetKey, Lease
    <3>6. CASE AcquireAnswered(n)
      BY <3>6 DEF AcquireAnswered, redis
    <3>2. CASE AcquireContended(n)
      BY <3>2 DEF AcquireContended, redis
    <3>3. CASE AcquireSetFails(n)
      BY <3>3 DEF AcquireSetFails, Demote
    <3>4. CASE AcquireGetOwn(n)
      BY <3>4 DEF AcquireGetOwn, redis, Refreshing
    <3>5. CASE AcquireGetOther(n)
      BY <3>5 DEF AcquireGetOther, redis, Demote
    <3> QED
      BY <2>3, <3>1, <3>2, <3>3, <3>4, <3>5, <3>6 DEF Acquire
  <2>4. ASSUME NEW n \in Node, Heartbeat(n)
        PROVE  TypeOK'
    <3>1. CASE HeartbeatGetOwn(n)
      BY <3>1 DEF HeartbeatGetOwn, redis, Refreshing
    <3>2. CASE HeartbeatGetOther(n)
      BY <3>2 DEF HeartbeatGetOther, redis, Demote
    <3>3. CASE HeartbeatGetFails(n)
      BY <3>3 DEF HeartbeatGetFails, redis, Demote
    <3>4. CASE Refresh(n)
      <4>1. held' \subseteq Node /\ primary' \subseteq Node
        BY <3>4 DEF Refresh
      <4>2. /\ call' = [call EXCEPT ![n] = "none"]
            /\ lease' = [lease EXCEPT ![n] = TTL]
            /\ slipped' \in {slipped \ {n}, slipped \cup {n}}
            /\ ttl' \in {ttl, TTL}
            /\ UNCHANGED <<key, fence, up, stopping>>
        BY <3>4 DEF Refresh, Lease
      <4> QED
        BY <4>1, <4>2
    <3>5. CASE RefreshFails(n)
      BY <3>5 DEF RefreshFails
    <3> QED
      BY <2>4, <3>1, <3>2, <3>3, <3>4, <3>5 DEF Heartbeat
  <2>5. ASSUME NEW n \in Node, ReleaseLock(n),
               stopping' \subseteq Node
        PROVE  TypeOK'
    BY <2>5 DEF ReleaseLock, Matches, Demote
  <2>6. ASSUME NEW n \in Node, Release(n) \/ Signal(n)
        PROVE  TypeOK'
    BY <2>5, <2>6 DEF Release, Signal
  <2>7. ASSUME NEW n \in Node, DrawToken(n)
        PROVE  TypeOK'
    BY <2>7 DEF DrawToken
  <2>8. ASSUME NEW n \in Node, Crash(n)
        PROVE  TypeOK'
    BY <2>8 DEF Crash, Demote
  <2>9. ASSUME NEW n \in Node, Restart(n)
        PROVE  TypeOK'
    BY <2>9 DEF Restart, redis, local
  <2> QED
    BY <2>1, <2>2, <2>3, <2>4, <2>6, <2>7, <2>8, <2>9 DEF Next
<1> QED
  BY <1>1, <1>2, PTL DEF Spec
-----------------------------------------------------------------------------
(* A lease is ownership                                                    *)

\* LeaseOwnedOrSlipped is not inductive: the key must also outlive the lease.
LeaseCovered ==
  \A n \in Node \ (stopping \cup slipped) :
    lease[n] > 0 => key = n /\ ttl >= lease[n]

\* Steps that change neither the key nor its life and give nobody a lease.
LEMMA QuietStep ==
  ASSUME TypeOK, LeaseCovered, UNCHANGED <<key, ttl>>,
         \A n \in Node : \/ lease'[n] = 0
                         \/ lease'[n] = lease[n] /\ (n \in slipped => n \in slipped'),
         stopping' = stopping
  PROVE  LeaseCovered'
BY DEF LeaseCovered, TypeOK

LEMMA QuietActions ==
  ASSUME TypeOK, NEW n \in Node,
         \/ AcquireAnswered(n) \/ AcquireContended(n) \/ AcquireGetOwn(n)
         \/ AcquireGetOther(n) \/ HeartbeatGetOwn(n) \/ HeartbeatGetOther(n)
         \/ HeartbeatGetFails(n) \/ DrawToken(n) \/ Restart(n)
  PROVE  /\ UNCHANGED <<key, ttl>>
         /\ \A m \in Node : \/ lease'[m] = 0
                            \/ lease'[m] = lease[m] /\ (m \in slipped => m \in slipped')
         /\ stopping' = stopping
BY DEF AcquireAnswered, AcquireContended, AcquireGetOwn, AcquireGetOther,
       HeartbeatGetOwn, HeartbeatGetOther, HeartbeatGetFails, DrawToken,
       Restart, Demote, redis, local, TypeOK

LEMMA AcquireLease ==
  ASSUME TypeOK, LeaseCovered, NEW n \in Node,
         AcquireSet(n) \/ AcquireSetFails(n)
  PROVE  LeaseCovered'
<1> USE HALockAssumption, NodeAssumption DEF TypeOK, LeaseCovered
<1>1. CASE AcquireSet(n)
  BY <1>1 DEF AcquireSet, SetKey, Lease
<1>2. CASE AcquireSetFails(n)
  BY <1>2 DEF AcquireSetFails, Demote
<1> QED
  BY <1>1, <1>2

\* PEXPIRE never shortens the life of the key, and what it answers on a key
\* of another node, or on none, is a slip.
LEMMA RefreshLease ==
  ASSUME TypeOK, LeaseCovered, NEW n \in Node,
         Refresh(n) \/ RefreshFails(n)
  PROVE  LeaseCovered'
<1>0. /\ ttl \in 0..TTL /\ TTL \in Nat
      /\ key \in Node \cup {NoOne, Orphan} /\ lease \in [Node -> 0..TTL]
      /\ slipped \subseteq Node
  BY HALockAssumption, NodeAssumption DEF TypeOK
<1>1. UNCHANGED <<key, stopping>> /\ ttl' \in {ttl, TTL}
  BY DEF Refresh, RefreshFails
<1>2. ttl' >= ttl /\ ttl' \in Nat
  BY <1>0, <1>1
<1>3. \/ Lease(n, key = n) /\ (key = n => ttl' = TTL)
      \/ UNCHANGED <<lease, slipped>>
  <2>1. Refresh(n) => Lease(n, key = n) /\ (key = n => ttl' = TTL)
    BY NodeAssumption DEF Refresh
  <2> QED
    BY <2>1 DEF RefreshFails
<1>4. \A m \in Node \ {n} : lease'[m] = lease[m] /\ (m \in slipped' <=> m \in slipped)
  BY <1>0, <1>3 DEF Lease
<1>5. \/ lease'[n] = lease[n] /\ slipped' = slipped
      \/ n \in slipped'
      \/ key = n /\ ttl' = TTL /\ lease'[n] = TTL
  BY <1>0, <1>3 DEF Lease
<1> SUFFICES ASSUME NEW m \in Node \ (stopping' \cup slipped'), lease'[m] > 0
             PROVE  key' = m /\ ttl' >= lease'[m]
  BY DEF LeaseCovered
<1>6. m \in Node \ stopping /\ lease[m] \in Nat
  BY <1>0, <1>1
<1>7. CASE m # n \/ (lease'[n] = lease[n] /\ slipped' = slipped)
  <2>1. lease'[m] = lease[m] /\ m \notin slipped
    BY <1>4, <1>6, <1>7
  <2>2. key = m /\ ttl >= lease[m]
    BY <1>6, <2>1 DEF LeaseCovered
  <2> QED
    BY <1>0, <1>1, <1>2, <1>6, <2>1, <2>2
<1>8. CASE m = n /\ ~(lease'[n] = lease[n] /\ slipped' = slipped)
  <2>1. key = n /\ ttl' = TTL /\ lease'[n] = TTL
    BY <1>5, <1>8
  <2> QED
    BY <1>0, <1>1, <1>8, <2>1
<1> QED
  BY <1>7, <1>8

\* A node that loses the lock, stops or dies takes no other node's key.
LEMMA LossLease ==
  ASSUME TypeOK, LeaseCovered, NEW n \in Node,
         Release(n) \/ Signal(n) \/ Crash(n)
  PROVE  LeaseCovered'
<1>1. lease' = [lease EXCEPT ![n] = 0] /\ slipped' = slipped \ {n}
  BY DEF Release, Signal, ReleaseLock, Crash, Demote
<1>2. \A m \in Node \ {n} :
        /\ key = m => key' = m /\ ttl' = ttl
        /\ m \in stopping' <=> m \in stopping
  BY DEF Release, Signal, ReleaseLock, Matches, Crash, TypeOK
<1> QED
  BY <1>1, <1>2, HALockAssumption DEF LeaseCovered, TypeOK

LEMMA TickLease ==
  ASSUME TypeOK, LeaseCovered, Tick
  PROVE  LeaseCovered'
<1> SUFFICES ASSUME NEW n \in Node \ (stopping' \cup slipped'), lease'[n] > 0
             PROVE  key' = n /\ ttl' >= lease'[n]
  BY DEF LeaseCovered
<1>1. lease[n] \in Nat /\ ttl \in Nat /\ n \in Node \ stopping
  BY HALockAssumption DEF TypeOK, Tick
<1>2. lease[n] > 1 /\ lease'[n] = lease[n] - 1
  BY <1>1 DEF Tick
<1>3. n \notin slipped
  BY <1>2 DEF Tick
<1>4. key = n /\ ttl >= lease[n]
  BY <1>1, <1>2, <1>3 DEF LeaseCovered
<1> QED
  BY <1>1, <1>2, <1>4 DEF Tick

\* A node whose last answer True is less than a TTL old and that is not
\* shutting down owns the key or has slipped, over any delays between the
\* commands, expiries, crashes, restarts, signals and lost answers.
THEOREM LeaseIsOwnership == Spec => []LeaseOwnedOrSlipped
<1>1. Init => LeaseCovered
  BY DEF Init, LeaseCovered
<1>2. TypeOK /\ LeaseCovered /\ [Next]_vars => LeaseCovered'
  <2> SUFFICES ASSUME TypeOK, LeaseCovered, [Next]_vars
               PROVE  LeaseCovered'
    OBVIOUS
  <2>1. CASE UNCHANGED vars
    BY <2>1 DEF vars, redis, local, LeaseCovered
  <2>2. CASE Tick
    BY <2>2, TickLease
  <2>3. ASSUME NEW n \in Node, Acquire(n)
        PROVE  LeaseCovered'
    BY <2>3, AcquireLease, QuietActions, QuietStep DEF Acquire
  <2>4. ASSUME NEW n \in Node, Heartbeat(n)
        PROVE  LeaseCovered'
    BY <2>4, RefreshLease, QuietActions, QuietStep DEF Heartbeat
  <2>5. ASSUME NEW n \in Node, Release(n) \/ Signal(n) \/ Crash(n)
        PROVE  LeaseCovered'
    BY <2>5, LossLease
  <2>6. ASSUME NEW n \in Node, DrawToken(n) \/ Restart(n)
        PROVE  LeaseCovered'
    BY <2>6, QuietActions, QuietStep
  <2> QED
    BY <2>1, <2>2, <2>3, <2>4, <2>5, <2>6 DEF Next
<1>3. LeaseCovered => LeaseOwnedOrSlipped
  BY DEF LeaseCovered, LeaseOwnedOrSlipped
<1> QED
  BY <1>1, <1>2, <1>3, TypeCorrect, PTL DEF Spec

\* Two fresh leases at a time take a slip.
THEOREM LeasesAreExclusive == Spec => []SecondLeaseSlipped
<1>1. LeaseOwnedOrSlipped => SecondLeaseSlipped
  BY DEF LeaseOwnedOrSlipped, SecondLeaseSlipped
<1> QED
  BY <1>1, LeaseIsOwnership, PTL
-----------------------------------------------------------------------------
(* Release                                                                 *)

\* However slow a node is and whatever interrupts it, it never drops a lock
\* that another node owns.
THEOREM ReleasesOnlyItsOwn == Spec => OnlyOwnerReleases
<1> DEFINE Kept == \A n \in Node :
             key = n /\ key' # n => (ttl = 1 /\ ttl' = 0) \/ n \notin held'
<1>1. TypeOK /\ [Next]_vars => [Kept]_vars
  <2> SUFFICES ASSUME TypeOK, Next
               PROVE  Kept
    OBVIOUS
  <2>1. CASE Tick
    BY <2>1, HALockAssumption DEF Tick, TypeOK
  <2>2. ASSUME NEW n \in Node, Acquire(n) \/ Heartbeat(n) \/ DrawToken(n)
                               \/ Restart(n)
        PROVE  Kept
    BY <2>2, NodeAssumption
    DEF Acquire, AcquireSet, SetKey, AcquireAnswered, AcquireContended,
        AcquireSetFails,
        AcquireGetOwn, AcquireGetOther, Heartbeat, HeartbeatGetOwn,
        HeartbeatGetOther, HeartbeatGetFails, Refresh, RefreshFails,
        DrawToken, Restart, redis
  <2>3. ASSUME NEW n \in Node, Release(n) \/ Signal(n)
        PROVE  Kept
    BY <2>3 DEF Release, Signal, ReleaseLock, Matches, TypeOK
  <2>4. ASSUME NEW n \in Node, Crash(n)
        PROVE  Kept
    BY <2>4 DEF Crash, TypeOK
  <2> QED
    BY <2>1, <2>2, <2>3, <2>4 DEF Next
<1> QED
  BY <1>1, TypeCorrect, PTL DEF Spec, OnlyOwnerReleases

-----------------------------------------------------------------------------
(* AuditLedger                                                             *)

Hashes  == Seq(Events)
Records == [event : Events, prev : Hashes, hash : Hashes]

LedgerTypes ==
  /\ chain \in Seq(Records)
  /\ rows \in Seq(Records)
  /\ lost \in Nat
  /\ starts \in Nat

\* A record's hash is never that of the empty chain.
Hashed(records) ==
  \A i \in 1..Len(records) :
    records[i].hash = ComputeHash(records[i].prev, records[i].event)

\* The next record of the process continues the last one stored.
InStep ==
  chain # <<>> => rows # <<>> /\ Last(rows).hash = Last(chain).hash

\* What inserts that failed and restarts explain.
Explained == lost + (IF starts = 0 THEN 0 ELSE starts - 1)

\* A process that is out of step with the table is explained already, before
\* its next record makes the break.
LedgerInv ==
  /\ LedgerTypes
  /\ VerifyChainIntegrity(chain)
  /\ Hashed(rows)
  /\ chain # <<>> \/ rows # <<>> => starts > 0
  /\ Cardinality(Breaks(rows)) + (IF InStep THEN 0 ELSE 1) <= Explained

LEMMA LastRecord ==
  ASSUME NEW records \in Seq(Records), records # <<>>
  PROVE  /\ Len(records) \in Nat \ {0}
         /\ Last(records) = records[Len(records)]
         /\ Last(records) \in Records
BY EmptySeq, ElementOfSeq DEF Last

LEMMA NewRecordType ==
  ASSUME LedgerTypes, NEW event \in Events
  PROVE  /\ NewRecord(event) \in Records
         /\ NewRecord(event).prev = IF chain = <<>> THEN Genesis ELSE Last(chain).hash
         /\ NewRecord(event).hash = ComputeHash(NewRecord(event).prev, event)
         /\ NewRecord(event).event = event
<1> DEFINE prev == IF chain = <<>> THEN Genesis ELSE Last(chain).hash
<1>1. prev \in Hashes
  <2>1. CASE chain = <<>>
    BY <2>1 DEF Hashes, Genesis
  <2>2. CASE chain # <<>>
    <3>1. Last(chain) \in Records
      BY <2>2, LastRecord DEF LedgerTypes
    <3> QED
      BY <2>2, <3>1 DEF Records
  <2> QED
    BY <2>1, <2>2
<1>2. ComputeHash(prev, event) \in Hashes
  BY <1>1 DEF ComputeHash, Hashes
<1> QED
  BY <1>1, <1>2 DEF NewRecord, Records

LEMMA BreaksAreCounted ==
  ASSUME NEW records \in Seq(Records)
  PROVE  IsFiniteSet(Breaks(records)) /\ Cardinality(Breaks(records)) \in Nat
<1>1. Len(records) \in Nat
  BY LenProperties
<1>2. IsFiniteSet(1..Len(records)) /\ Breaks(records) \in SUBSET (1..Len(records))
  BY <1>1, FS_Interval DEF Breaks
<1>3. IsFiniteSet(Breaks(records))
  BY <1>2, FS_Subset
<1> QED
  BY <1>3, FS_CardinalityType

\* One more record is at most one more break, and none where it continues the
\* last one.
LEMMA BreaksOfAppend ==
  ASSUME NEW records \in Seq(Records), NEW r \in Records
  PROVE  /\ Cardinality(Breaks(records)) \in Nat
         /\ Cardinality(Breaks(Append(records, r)))
              = Cardinality(Breaks(records))
                + (IF r.prev = (IF records = <<>> THEN Genesis ELSE Last(records).hash)
                   THEN 0 ELSE 1)
<1> DEFINE n == Len(records)
           more == Append(records, r)
           head == IF records = <<>> THEN Genesis ELSE Last(records).hash
<1>1. /\ n \in Nat /\ Len(more) = n + 1 /\ more[n + 1] = r
      /\ \A i \in 1..n : more[i] = records[i]
  BY AppendProperties, LenProperties
<1>2. IsFiniteSet(Breaks(records)) /\ Cardinality(Breaks(records)) \in Nat
  BY BreaksAreCounted
<1>3. head = IF n + 1 = 1 THEN Genesis ELSE more[n].hash
  BY <1>1, LastRecord, EmptySeq
<1>4. \A i \in 1..n : i \in Breaks(more) <=> i \in Breaks(records)
  BY <1>1 DEF Breaks
<1>5. n + 1 \in Breaks(more) <=> r.prev # head
  BY <1>1, <1>3 DEF Breaks
<1>6. Breaks(more) \subseteq 1..n + 1 /\ Breaks(records) \subseteq 1..n
  BY <1>1 DEF Breaks
<1>7. CASE r.prev = head
  <2>1. Breaks(more) \subseteq 1..n
    BY <1>1, <1>5, <1>6, <1>7
  <2>2. Breaks(more) = Breaks(records)
    BY <1>4, <1>6, <2>1
  <2> QED
    BY <1>2, <1>7, <2>2
<1>8. CASE r.prev # head
  <2>1. Breaks(more) = Breaks(records) \cup {n + 1}
    BY <1>1, <1>4, <1>5, <1>6, <1>8
  <2>2. n + 1 \notin Breaks(records)
    BY <1>1, <1>6
  <2> QED
    BY <1>2, <1>8, <2>1, <2>2, FS_AddElement
<1> QED
  BY <1>2, <1>7, <1>8

LEMMA LedgerStarts == LedgerInit => LedgerInv
<1> SUFFICES ASSUME LedgerInit PROVE LedgerInv
  OBVIOUS
<1>1. Breaks(rows) = {}
  BY DEF LedgerInit, Breaks
<1>2. Cardinality(Breaks(rows)) = 0
  BY <1>1, FS_EmptySet
<1>3. /\ LedgerTypes /\ VerifyChainIntegrity(chain) /\ Hashed(rows) /\ InStep
      /\ Explained = 0 /\ chain = <<>> /\ rows = <<>>
  BY DEF LedgerInit, LedgerTypes, VerifyChainIntegrity, Hashed, InStep, Explained
<1> QED
  BY <1>2, <1>3 DEF LedgerInv

\* What an appended event keeps of the two sequences.
LEMMA AppendKeepsLinks ==
  ASSUME LedgerInv, NEW event \in Events, AppendEvent(event)
  PROVE  /\ LedgerTypes' /\ VerifyChainIntegrity(chain)' /\ Hashed(rows)'
         /\ chain' # <<>> /\ Last(chain') = NewRecord(event)
<1> DEFINE r == NewRecord(event)
<1>1. r \in Records /\ r.hash = ComputeHash(r.prev, r.event)
      /\ r.prev = IF chain = <<>> THEN Genesis ELSE Last(chain).hash
  BY NewRecordType DEF LedgerInv
<1> HIDE DEF r
<1>2. chain' = Append(chain, r) /\ rows' \in {rows, Append(rows, r)}
  BY DEF AppendEvent, r
<1>3. /\ Len(chain') = Len(chain) + 1 /\ chain' \in Seq(Records) /\ chain' # <<>>
      /\ chain'[Len(chain) + 1] = r /\ Len(chain) \in Nat
      /\ \A i \in 1..Len(chain) : chain'[i] = chain[i]
  BY <1>1, <1>2, AppendProperties, LenProperties DEF LedgerInv, LedgerTypes
<1>4. VerifyChainIntegrity(chain)'
  <2>1. Len(chain) # 0 => r.prev = chain[Len(chain)].hash
    BY <1>1, LastRecord, EmptySeq DEF LedgerInv, LedgerTypes
  <2>2. Len(chain) = 0 => r.prev = Genesis
    BY <1>1, EmptySeq DEF LedgerInv, LedgerTypes
  <2> DEFINE Follows(c, i) ==
               /\ c[i].prev = IF i = 1 THEN Genesis ELSE c[i - 1].hash
               /\ c[i].hash = ComputeHash(c[i].prev, c[i].event)
  <2>3. \A i \in 1..Len(chain) : Follows(chain, i)
    BY DEF LedgerInv, VerifyChainIntegrity
  <2>4. ASSUME NEW i \in 1..Len(chain) PROVE Follows(chain', i)
    <3>1. chain'[i] = chain[i] /\ (i # 1 => chain'[i - 1] = chain[i - 1])
      BY <1>3
    <3>2. Follows(chain, i)
      BY <2>3
    <3> QED
      BY <3>1, <3>2
  <2>5. Follows(chain', Len(chain) + 1)
    <3>1. Len(chain) # 0 => chain'[Len(chain)] = chain[Len(chain)]
      BY <1>3
    <3>2. CASE Len(chain) = 0
      BY <1>1, <1>3, <2>2, <3>2
    <3>3. CASE Len(chain) # 0
      <4>1. Len(chain) + 1 # 1 /\ (Len(chain) + 1) - 1 = Len(chain)
        BY <1>3, <3>3
      <4> QED
        BY <1>1, <1>3, <2>1, <3>1, <3>3, <4>1
    <3> QED
      BY <3>2, <3>3
  <2>6. \A i \in 1..Len(chain') : Follows(chain', i)
    <3>1. \A i \in 1..Len(chain') : i \in 1..Len(chain) \/ i = Len(chain) + 1
      BY <1>3
    <3> HIDE DEF Follows
    <3> QED
      BY <2>4, <2>5, <3>1
  <2> QED
    BY <2>6 DEF VerifyChainIntegrity
<1>5. rows' \in Seq(Records) /\ Hashed(rows)'
  <2>1. CASE rows' = rows
    BY <2>1 DEF LedgerInv, LedgerTypes, Hashed
  <2>2. CASE rows' = Append(rows, r)
    <3>1. /\ Len(rows') = Len(rows) + 1 /\ rows' \in Seq(Records)
          /\ rows'[Len(rows) + 1] = r /\ Len(rows) \in Nat
          /\ \A i \in 1..Len(rows) : rows'[i] = rows[i]
      BY <1>1, <2>2, AppendProperties, LenProperties DEF LedgerInv, LedgerTypes
    <3> QED
      BY <1>1, <3>1 DEF LedgerInv, Hashed
  <2> QED
    BY <1>2, <2>1, <2>2
<1>6. Last(chain') = r
  BY <1>3 DEF Last
<1>7. lost' \in Nat /\ starts' \in Nat
  BY DEF AppendEvent, LedgerInv, LedgerTypes
<1> QED
  BY <1>3, <1>4, <1>5, <1>6, <1>7 DEF LedgerTypes, r

LEMMA AppendKeepsLedger ==
  ASSUME LedgerInv, NEW event \in Events, AppendEvent(event)
  PROVE  LedgerInv'
<1> DEFINE r == NewRecord(event)
           broken(records) == Cardinality(Breaks(records))
<1>1. r \in Records /\ r.prev = IF chain = <<>> THEN Genesis ELSE Last(chain).hash
  BY NewRecordType DEF LedgerInv
<1>2. /\ LedgerTypes' /\ VerifyChainIntegrity(chain)' /\ Hashed(rows)'
      /\ chain' # <<>> /\ Last(chain') = r
  BY AppendKeepsLinks
<1>3. broken(rows) \in Nat
      /\ broken(Append(rows, r))
           = broken(rows) + (IF r.prev = (IF rows = <<>> THEN Genesis ELSE Last(rows).hash)
                             THEN 0 ELSE 1)
  BY <1>1, BreaksOfAppend DEF LedgerInv, LedgerTypes
<1>4. /\ lost \in Nat /\ starts \in Nat
      /\ broken(rows) + (IF InStep THEN 0 ELSE 1) <= Explained
      /\ chain # <<>> \/ rows # <<>> => starts > 0
  BY DEF LedgerInv, LedgerTypes
<1>5. starts' = (IF chain = <<>> THEN starts + 1 ELSE starts) /\ starts' > 0
  BY <1>4 DEF AppendEvent
<1> HIDE DEF r, broken
<1>6. broken(rows') + (IF InStep' THEN 0 ELSE 1) <= Explained'
  <2>1. CASE rows' = Append(rows, r) /\ lost' = lost
    <3>1. InStep'
      <4>1. rows \in Seq(Records)
        BY DEF LedgerInv, LedgerTypes
      <4>2. rows' # <<>> /\ Last(rows') = r
        BY <1>1, <2>1, <4>1, AppendProperties, LenProperties DEF Last
      <4> QED
        BY <1>2, <4>2 DEF InStep
    <3>2. CASE chain # <<>> /\ InStep
      <4>1. r.prev = IF rows = <<>> THEN Genesis ELSE Last(rows).hash
        BY <1>1, <3>2 DEF InStep
      <4> QED
        BY <1>3, <1>4, <1>5, <2>1, <3>1, <3>2, <4>1 DEF Explained
    <3>3. CASE chain # <<>> /\ ~InStep
      BY <1>3, <1>4, <1>5, <2>1, <3>1, <3>3 DEF Explained
    <3>4. CASE chain = <<>> /\ rows = <<>>
      BY <1>1, <1>3, <1>4, <1>5, <2>1, <3>1, <3>4 DEF Explained, InStep
    <3>5. CASE chain = <<>> /\ rows # <<>>
      BY <1>3, <1>4, <1>5, <2>1, <3>1, <3>5 DEF Explained, InStep
    <3> QED
      BY <3>2, <3>3, <3>4, <3>5
  <2>2. CASE rows' = rows /\ lost' = lost + 1
    BY <1>3, <1>4, <1>5, <2>2 DEF Explained
  <2> QED
    BY <2>1, <2>2 DEF AppendEvent, r
<1> QED
  BY <1>2, <1>5, <1>6 DEF LedgerInv, broken

LEMMA LedgerStep == LedgerInv /\ [LedgerNext]_ledgerVars => LedgerInv'
<1> SUFFICES ASSUME LedgerInv, [LedgerNext]_ledgerVars PROVE LedgerInv'
  OBVIOUS
<1>1. CASE UNCHANGED ledgerVars
  BY <1>1 DEF ledgerVars, LedgerInv, LedgerTypes, VerifyChainIntegrity, Hashed,
              Breaks, InStep, Explained
<1>2. CASE LedgerRestart
  <2>1. chain' = <<>> /\ UNCHANGED <<rows, lost, starts>>
    BY <1>2 DEF LedgerRestart
  <2>2. LedgerTypes' /\ VerifyChainIntegrity(chain)' /\ Hashed(rows)'
        /\ InStep' /\ Explained' = Explained /\ Breaks(rows)' = Breaks(rows)
    BY <2>1 DEF LedgerInv, LedgerTypes, VerifyChainIntegrity, Hashed, Breaks,
                InStep, Explained
  <2>3. Cardinality(Breaks(rows)) \in Nat /\ Explained \in Nat
    <3>1. rows \in Seq(Records) /\ lost \in Nat /\ starts \in Nat
      BY DEF LedgerInv, LedgerTypes
    <3> QED
      BY <3>1, BreaksAreCounted DEF Explained
  <2>4. Cardinality(Breaks(rows)) + (IF InStep THEN 0 ELSE 1) <= Explained
    BY DEF LedgerInv
  <2>5. Cardinality(Breaks(rows)') + (IF InStep' THEN 0 ELSE 1) <= Explained'
    BY <2>2, <2>3, <2>4
  <2>6. chain' # <<>> \/ rows' # <<>> => starts' > 0
    BY <2>1 DEF LedgerInv
  <2> QED
    BY <2>2, <2>5, <2>6 DEF LedgerInv
<1> QED
  BY <1>1, <1>2, AppendKeepsLedger DEF LedgerNext

\* However inserts fail and processes restart, the stored chain is broken in
\* no more places than they explain, and the chain in memory verifies
\* (append_event, verify_chain_integrity).
THEOREM EveryBreakIsExplained == LedgerSpec => []BreaksAreExplained
<1>1. LedgerInv => BreaksAreExplained
  <2> SUFFICES ASSUME LedgerInv PROVE BreaksAreExplained
    OBVIOUS
  <2>1. Cardinality(Breaks(rows)) \in Nat /\ Explained \in Nat
    BY BreaksAreCounted DEF LedgerInv, LedgerTypes, Explained
  <2> QED
    BY <2>1 DEF LedgerInv, BreaksAreExplained, Explained
<1> QED
  BY <1>1, LedgerStarts, LedgerStep, PTL DEF LedgerSpec
-----------------------------------------------------------------------------
(* Alerting                                                                *)

Ages   == [Rules -> 0..Cooldown]
Counts == [Rules -> 0..5]
Memory == [up : BOOLEAN, age : Ages, count : Counts]

AlertTypes ==
  /\ backend \in {"file", "redis"}
  /\ daemon \in [Daemons -> Memory]
  /\ stored \in [age : Ages, count : Counts]
  /\ DOMAIN page = Daemons
  /\ lastAge \in Ages
  /\ hits \in Counts
  /\ storeFaults \in Nat

\* A file is one daemon's.
Alone ==
  backend = "file" =>
    \A d, e \in Daemons : daemon[d].up /\ daemon[e].up => d = e

\* While the store works it knows every accepted alert, and a daemon of the
\* file knows what the store does.  An emergency takes no window.
Remembers ==
  storeFaults = 0 =>
    /\ stored.count = hits
    /\ \A r \in Rules : BaseSeverity[r] = "EMERGENCY" \/ stored.age[r] = lastAge[r]
    /\ backend = "file" =>
         \A d \in Daemons : daemon[d].up =>
           daemon[d].age = stored.age /\ daemon[d].count = stored.count

AlertInv == AlertTypes /\ Alone /\ Remembers

LEMMA CountedType ==
  ASSUME NEW count \in Counts, NEW r \in Rules
  PROVE  Counted(count, r) \in Counts
<1>1. CountCap(r) \in {0, 3, 5}
  BY DEF CountCap
<1> QED
  BY <1>1 DEF Counted, Counts

LEMMA AgedType ==
  ASSUME NEW age \in Ages
  PROVE  Aged(age) \in Ages
BY CooldownAssumption DEF Aged, Ages

LEMMA ForgottenType == Forgotten.age \in Ages /\ Forgotten.count \in Counts
BY CooldownAssumption DEF Forgotten, Ages, Counts

\* The two states of a process, for the provers, which take TRUE and FALSE in
\* a record badly.
LEMMA UpAndDown ==
  ASSUME NEW on \in BOOLEAN, NEW down \in BOOLEAN,
         NEW age \in Ages, NEW count \in Counts
  PROVE  /\ [up |-> on, age |-> age, count |-> count] \in Memory
         /\ [[up |-> on, age |-> age, count |-> count] EXCEPT !.up = down]
              = [up |-> down, age |-> age, count |-> count]
         /\ [up |-> on, age |-> age, count |-> count].up = on
BY DEF Memory

LEMMA RememberedType ==
  ASSUME NEW seen, seen.age \in Ages, seen.count \in Counts
  PROVE  /\ Remembered(seen) \in Memory /\ Remembered(seen).up
         /\ Remembered(seen).age = seen.age /\ Remembered(seen).count = seen.count
         /\ [Remembered(seen) EXCEPT !.up = FALSE] \in Memory
         /\ ~[Remembered(seen) EXCEPT !.up = FALSE].up
<1>1. PICK on \in BOOLEAN, down \in BOOLEAN : on = TRUE /\ down = FALSE
  BY Zenon
<1>2. Remembered(seen) = [up |-> on, age |-> seen.age, count |-> seen.count]
  BY <1>1, Zenon DEF Remembered
<1>3. [Remembered(seen) EXCEPT !.up = FALSE] = [Remembered(seen) EXCEPT !.up = down]
  BY <1>1, Zenon
<1> QED
  <2>1. /\ Remembered(seen) \in Memory /\ Remembered(seen).up = on
        /\ Remembered(seen).age = seen.age /\ Remembered(seen).count = seen.count
    BY <1>2, UpAndDown
  <2>2. [Remembered(seen) EXCEPT !.up = down]
          = [up |-> down, age |-> seen.age, count |-> seen.count]
    BY <1>2, UpAndDown
  <2>3. [Remembered(seen) EXCEPT !.up = down] \in Memory
        /\ [Remembered(seen) EXCEPT !.up = down].up = down
    BY <2>2, UpAndDown
  <2> QED
    BY <1>1, <1>3, <2>1, <2>3, Zenon

LEMMA AlertStarts == AlertInit => AlertInv
<1> SUFFICES ASSUME AlertInit PROVE AlertInv
  OBVIOUS
<1>1. daemon \in [Daemons -> Memory] /\ \A d \in Daemons : ~daemon[d].up
  <2> DEFINE off == [Remembered(Forgotten) EXCEPT !.up = FALSE]
  <2>1. off \in Memory /\ ~off.up
    BY ForgottenType, RememberedType
  <2>2. daemon = [d \in Daemons |-> off]
    BY Zenon DEF AlertInit
  <2> HIDE DEF off
  <2> QED
    BY <2>1, <2>2
<1>2. stored = Forgotten /\ stored \in [age : Ages, count : Counts]
  BY ForgottenType DEF AlertInit, Forgotten
<1>3. lastAge \in Ages /\ hits \in Counts /\ lastAge = Forgotten.age
      /\ hits = Forgotten.count
  BY ForgottenType DEF AlertInit, Forgotten
<1>4. DOMAIN page = Daemons /\ storeFaults = 0 /\ backend \in {"file", "redis"}
  BY DEF AlertInit
<1>5. AlertTypes
  BY <1>1, <1>2, <1>3, <1>4 DEF AlertTypes
<1>6. Alone /\ Remembers
  BY <1>1, <1>2, <1>3 DEF Alone, Remembers
<1> QED
  BY <1>5, <1>6 DEF AlertInv

\* A daemon that starts with some memory: only it changes.
LEMMA BootStep ==
  ASSUME AlertInv, NEW d \in Daemons, Boot(d)
  PROVE  AlertInv'
<1>1. PICK seen \in {stored, Forgotten} :
        /\ daemon' = [daemon EXCEPT ![d] = Remembered(seen)]
        /\ backend = "file" /\ storeFaults' = 0 => seen = stored
        /\ storeFaults' \in {storeFaults, storeFaults + 1}
        /\ storeFaults' = storeFaults
             => seen = IF backend = "file" THEN stored ELSE Forgotten
  BY DEF Boot, StoreFails, AlertInv, AlertTypes
<1>2. seen.age \in Ages /\ seen.count \in Counts
  BY ForgottenType DEF AlertInv, AlertTypes
<1>3. /\ daemon'[d].up /\ daemon'[d].age = seen.age /\ daemon'[d].count = seen.count
      /\ \A e \in Daemons \ {d} : daemon'[e] = daemon[e]
      /\ daemon' \in [Daemons -> Memory]
  BY <1>1, <1>2, RememberedType DEF AlertInv, AlertTypes
<1>4. UNCHANGED <<backend, stored, page, lastAge, hits>> /\ storeFaults' \in Nat
      /\ (storeFaults' = 0 => storeFaults = 0)
      /\ (backend = "file" => \A e \in Daemons : ~daemon[e].up)
  BY <1>1 DEF Boot, AlertInv, AlertTypes
<1>5. AlertTypes'
  <2>1. /\ backend \in {"file", "redis"} /\ stored \in [age : Ages, count : Counts]
        /\ DOMAIN page = Daemons /\ lastAge \in Ages /\ hits \in Counts
    BY DEF AlertInv, AlertTypes
  <2>2. /\ backend' \in {"file", "redis"} /\ stored' \in [age : Ages, count : Counts]
        /\ DOMAIN page' = Daemons /\ lastAge' \in Ages /\ hits' \in Counts
    BY <1>4, <2>1
  <2> QED
    BY <1>3, <1>4, <2>2, Zenon DEF AlertTypes
<1>6. Alone'
  BY <1>3, <1>4 DEF Alone
<1>7. Remembers'
  BY <1>1, <1>3, <1>4 DEF AlertInv, Remembers
<1> QED
  BY <1>5, <1>6, <1>7 DEF AlertInv

\* What acceptance with the file does when the store works: daemon, file and
\* history count the same alert.
LEMMA AcceptedWithFile ==
  ASSUME AlertInv, NEW d \in Daemons, NEW r \in Rules,
         daemon[d].up, AcceptWithFile(d, r),
         lastAge' = [lastAge EXCEPT ![r] = 0], UNCHANGED backend
  PROVE  AlertInv'
<1> DEFINE new == Snapshot(d, r)
<1>1. /\ new.age = [daemon[d].age EXCEPT ![r] = 0]
      /\ new.count = Counted(daemon[d].count, r)
  BY DEF Snapshot
<1>2. daemon[d].age \in Ages /\ daemon[d].count \in Counts
  BY DEF AlertInv, AlertTypes, Memory
<1>3. new.age \in Ages /\ new.count \in Counts /\ new \in [age : Ages, count : Counts]
  <2>1. new.age \in Ages
    BY <1>1, <1>2, CooldownAssumption DEF Ages
  <2>2. new.count \in Counts
    BY <1>1, <1>2, CountedType
  <2> QED
    BY <2>1, <2>2 DEF Snapshot
<1>4. lastAge' \in Ages /\ hits' \in Counts /\ hits' = Counted(hits, r)
  BY CountedType, CooldownAssumption DEF AcceptWithFile, AlertInv, AlertTypes, Ages
<1>5. /\ backend = "file"
      /\ daemon' = [daemon EXCEPT ![d] = Remembered(new)]
      /\ \/ stored' = new /\ storeFaults' = storeFaults
         \/ stored' = stored /\ storeFaults' = storeFaults + 1
      /\ DOMAIN page' = Daemons
  BY DEF AcceptWithFile, StoreFails, PageFor, AlertInv, AlertTypes
<1> HIDE DEF new
<1>6. /\ daemon'[d].up /\ daemon'[d].age = new.age /\ daemon'[d].count = new.count
      /\ \A e \in Daemons \ {d} : daemon'[e] = daemon[e]
      /\ daemon' \in [Daemons -> Memory]
  BY <1>3, <1>5, RememberedType DEF AlertInv, AlertTypes
<1>7. AlertTypes'
  <2>1. /\ backend' \in {"file", "redis"} /\ stored' \in [age : Ages, count : Counts]
        /\ DOMAIN page' = Daemons /\ storeFaults' \in Nat
    BY <1>3, <1>5 DEF AlertInv, AlertTypes
  <2> QED
    BY <1>4, <1>6, <2>1, Zenon DEF AlertTypes
<1>8. Alone' /\ \A e \in Daemons \ {d} : ~daemon'[e].up
  BY <1>5, <1>6 DEF AlertInv, Alone
<1>9. Remembers'
  <2> SUFFICES ASSUME storeFaults' = 0 PROVE Remembers'
    BY DEF Remembers
  <2>1. storeFaults = 0 /\ stored' = new
    BY <1>5 DEF AlertInv, AlertTypes
  <2>2. daemon[d].count = hits /\ daemon[d].age = stored.age
    BY <1>5, <2>1 DEF AlertInv, Remembers
  <2>3. new.count = hits'
    BY <1>1, <1>4, <2>2
  <2>4. \A q \in Rules : BaseSeverity[q] = "EMERGENCY" \/ new.age[q] = lastAge'[q]
    <3>1. \A q \in Rules : new.age[q] = IF q = r THEN 0 ELSE stored.age[q]
      BY <1>1, <1>2, <2>2 DEF Ages
    <3>2. \A q \in Rules : lastAge'[q] = IF q = r THEN 0 ELSE lastAge[q]
      BY DEF AlertInv, AlertTypes, Ages
    <3> QED
      BY <2>1, <3>1, <3>2 DEF AlertInv, Remembers
  <2> QED
    BY <1>6, <1>8, <2>1, <2>3, <2>4 DEF Remembers
<1> QED
  BY <1>7, <1>8, <1>9 DEF AlertInv

\* With Redis the daemons' own memory does not count.
LEMMA WindowTaken ==
  ASSUME AlertInv, NEW d \in Daemons, NEW r \in Rules, TakeWindow(d, r),
         lastAge' = [lastAge EXCEPT ![r] = 0], UNCHANGED backend
  PROVE  AlertInv'
<1>1. /\ stored.age \in Ages /\ stored \in [age : Ages, count : Counts] /\ backend = "redis"
      /\ lastAge \in Ages /\ hits \in Counts /\ storeFaults \in Nat
  BY DEF AlertInv, AlertTypes, TakeWindow
<1> DEFINE taken == [stored.age EXCEPT ![r] = IF BaseSeverity[r] = "EMERGENCY" THEN @ ELSE 0]
<1>2. /\ \/ stored' = [stored EXCEPT !.age = taken] /\ storeFaults' = storeFaults
         \/ stored' = stored /\ storeFaults' = storeFaults + 1
      /\ UNCHANGED <<daemon, hits>>
      /\ DOMAIN page' = DOMAIN page
  BY DEF TakeWindow, StoreFails
<1>3. taken \in Ages /\ lastAge' \in Ages
  BY <1>1, CooldownAssumption DEF Ages
<1>4. \A q \in Rules : BaseSeverity[q] = "EMERGENCY" \/ taken[q] = IF q = r THEN 0 ELSE stored.age[q]
  BY <1>1 DEF Ages
<1> HIDE DEF taken
<1>5. stored' \in [age : Ages, count : Counts] /\ storeFaults' \in Nat
      /\ (storeFaults' = 0 => storeFaults = 0 /\ stored'.age = taken /\ stored'.count = stored.count)
  BY <1>1, <1>2, <1>3
<1>6. AlertTypes'
  BY <1>1, <1>2, <1>3, <1>5 DEF AlertInv, AlertTypes
<1>7. Alone'
  BY <1>1 DEF Alone
<1>8. Remembers'
  <2> SUFFICES ASSUME storeFaults' = 0 PROVE Remembers'
    BY DEF Remembers
  <2>1. stored'.count = hits'
    BY <1>2, <1>5 DEF AlertInv, Remembers
  <2>2. \A q \in Rules : BaseSeverity[q] = "EMERGENCY" \/ stored'.age[q] = lastAge'[q]
    <3>1. \A q \in Rules : lastAge'[q] = IF q = r THEN 0 ELSE lastAge[q]
      BY <1>1 DEF Ages
    <3>2. \A q \in Rules : BaseSeverity[q] = "EMERGENCY" \/ stored.age[q] = lastAge[q]
      BY <1>5 DEF AlertInv, Remembers
    <3> QED
      BY <1>4, <1>5, <3>1, <3>2
  <2> QED
    BY <1>1, <2>1, <2>2 DEF Remembers
<1> QED
  BY <1>6, <1>7, <1>8 DEF AlertInv

\* Redis and the history count the same alert; a page is counted in Redis only.
LEMMA AlertCounted ==
  ASSUME AlertInv, NEW d \in Daemons, NEW r \in Rules, CountAlert(d, r)
  PROVE  AlertInv'
<1>1. /\ stored \in [age : Ages, count : Counts] /\ hits \in Counts /\ storeFaults \in Nat
      /\ backend = "redis" /\ UNCHANGED <<backend, daemon, lastAge>> /\ hits' = Counted(hits, r)
  BY DEF AlertInv, AlertTypes, CountAlert
<1>2. /\ \/ stored' = [stored EXCEPT !.count = Counted(stored.count, r)] /\ storeFaults' = storeFaults
         \/ stored' = stored /\ storeFaults' = storeFaults + 1
      /\ DOMAIN page' = DOMAIN page
  BY DEF CountAlert, StoreFails, PageFor
<1>3. Counted(stored.count, r) \in Counts /\ hits' \in Counts
  BY <1>1, CountedType
<1>4. stored' \in [age : Ages, count : Counts] /\ storeFaults' \in Nat
      /\ (storeFaults' = 0 => storeFaults = 0 /\ stored'.age = stored.age
                              /\ stored'.count = Counted(stored.count, r))
  BY <1>1, <1>2, <1>3
<1>5. AlertTypes'
  BY <1>1, <1>2, <1>3, <1>4 DEF AlertInv, AlertTypes
<1>6. Alone'
  BY <1>1 DEF AlertInv, Alone
<1>7. Remembers'
  BY <1>1, <1>4 DEF AlertInv, Remembers
<1> QED
  BY <1>5, <1>6, <1>7 DEF AlertInv

\* The clock moves all ages alike.
LEMMA AlertTickStep ==
  ASSUME AlertInv, AlertTick
  PROVE  AlertInv'
<1>1. /\ daemon' = [d \in Daemons |-> [daemon[d] EXCEPT !.age = Aged(@)]]
      /\ stored' = [stored EXCEPT !.age = Aged(@)]
      /\ lastAge' = Aged(lastAge)
      /\ UNCHANGED <<backend, page, hits, storeFaults>>
  BY DEF AlertTick
<1>2. stored.age \in Ages /\ lastAge \in Ages
      /\ \A d \in Daemons : daemon[d] \in Memory /\ daemon[d].age \in Ages
  BY DEF AlertInv, AlertTypes, Memory
<1>3. \A d \in Daemons : /\ daemon'[d] \in Memory
                         /\ daemon'[d].up = daemon[d].up
                         /\ daemon'[d].age = Aged(daemon[d].age)
                         /\ daemon'[d].count = daemon[d].count
  BY <1>1, <1>2, AgedType DEF Memory
<1>4. /\ stored' \in [age : Ages, count : Counts]
      /\ stored'.age = Aged(stored.age) /\ stored'.count = stored.count
  BY <1>1, <1>2, AgedType DEF AlertInv, AlertTypes
<1>5. AlertTypes'
  <2>1. daemon' \in [Daemons -> Memory]
    BY <1>1, <1>3
  <2>2. lastAge' \in Ages
    BY <1>1, <1>2, AgedType
  <2> QED
    BY <1>1, <1>4, <2>1, <2>2 DEF AlertInv, AlertTypes
<1>6. Alone'
  BY <1>1, <1>3 DEF AlertInv, Alone
<1>7. Remembers'
  <2>1. \A r \in Rules : stored.age[r] = lastAge[r] => stored'.age[r] = lastAge'[r]
    BY <1>1, <1>4 DEF Aged
  <2> QED
    BY <1>1, <1>3, <1>4, <2>1 DEF AlertInv, Remembers
<1> QED
  BY <1>5, <1>6, <1>7 DEF AlertInv

LEMMA DaemonCrashStep ==
  ASSUME AlertInv, NEW d \in Daemons, DaemonCrash(d)
  PROVE  AlertInv'
<1> DEFINE off == [Remembered(Forgotten) EXCEPT !.up = FALSE]
<1>1. daemon' = [daemon EXCEPT ![d] = off]
  BY Zenon DEF DaemonCrash
<1>2. off \in Memory /\ ~off.up
  BY ForgottenType, RememberedType
<1> HIDE DEF off
<1>3. /\ daemon' \in [Daemons -> Memory] /\ ~daemon'[d].up
      /\ \A e \in Daemons \ {d} : daemon'[e] = daemon[e]
  BY <1>1, <1>2 DEF AlertInv, AlertTypes
<1>4. UNCHANGED <<backend, stored, lastAge, hits, storeFaults>>
      /\ DOMAIN page' = DOMAIN page
  BY DEF DaemonCrash
<1>5. AlertTypes' /\ Alone' /\ Remembers'
  BY <1>3, <1>4 DEF AlertInv, AlertTypes, Alone, Remembers
<1> QED
  BY <1>5 DEF AlertInv

LEMMA AlertStep == AlertInv /\ [AlertNext]_alertVars => AlertInv'
<1> SUFFICES ASSUME AlertInv, [AlertNext]_alertVars PROVE AlertInv'
  OBVIOUS
<1>1. CASE UNCHANGED alertVars
  BY <1>1 DEF alertVars, AlertInv, AlertTypes, Alone, Remembers
<1>2. ASSUME NEW d \in Daemons, NEW r \in Rules, EvaluateMetric(d, r)
      PROVE  AlertInv'
  BY <1>2, AcceptedWithFile, WindowTaken DEF EvaluateMetric
<1>3. ASSUME NEW d \in Daemons, PostFails(d) \/ \E r \in Rules : Posted(d, r)
      PROVE  AlertInv'
  <2>1. UNCHANGED <<backend, daemon, stored, lastAge, hits, storeFaults>>
        /\ DOMAIN page' = DOMAIN page
    BY <1>3 DEF PostFails, Posted
  <2> QED
    BY <2>1 DEF AlertInv, AlertTypes, Alone, Remembers
<1> QED
  BY <1>1, <1>2, <1>3, BootStep, AlertCounted, AlertTickStep, DaemonCrashStep DEF AlertNext

\* A page begins when an alert is accepted, and is posted from when it is counted.
LEMMA PagesAreAccepted ==
  ASSUME AlertInv, AlertNext, NEW d \in Daemons, page'[d] # page[d], page'[d] # NoPage,
         ~Posting(d)
  PROVE  \E r \in Rules : EvaluateMetric(d, r) \/ CountAlert(d, r)
<1>1. page' # page
  OBVIOUS
<1>2. PICK e \in Daemons :
        \/ PostFails(e) \/ DaemonCrash(e)
        \/ \E r \in Rules : EvaluateMetric(e, r) \/ CountAlert(e, r) \/ Posted(e, r)
  BY <1>1 DEF AlertNext, AlertTick, Boot
<1>3. DOMAIN page = Daemons
  BY DEF AlertInv, AlertTypes
<1>4. e = d
  <2>1. \E p : page' = [page EXCEPT ![e] = p]
    BY <1>2 DEF PostFails, DaemonCrash, EvaluateMetric, CountAlert, Posted, AcceptWithFile,
                TakeWindow, PageFor
  <2> QED
    BY <1>3, <2>1
<1>5. ~PostFails(d) /\ \A r \in Rules : ~Posted(d, r)
  BY DEF PostFails, Posted
<1>6. ~DaemonCrash(d)
  BY <1>3 DEF DaemonCrash
<1> QED
  BY <1>2, <1>4, <1>5, <1>6

LEMMA AcceptedRespectsMemory ==
  ASSUME AlertInv, NEW d \in Daemons, NEW r \in Rules, EvaluateMetric(d, r),
         storeFaults' = 0
  PROVE  /\ page'[d].rule = r
         /\ BaseSeverity[r] = "EMERGENCY" \/ lastAge[r] = Cooldown
         /\ Posting(d)' => page'[d].severity = Escalated(BaseSeverity[r], hits'[r])
<1>1. DOMAIN page = Daemons /\ lastAge[r] \in 0..Cooldown /\ storeFaults \in Nat
  BY DEF AlertInv, AlertTypes, Ages
<1>2. daemon[d].up
  BY DEF EvaluateMetric
<1>3. CASE AcceptWithFile(d, r)
  <2>1. backend = "file" /\ storeFaults = 0 /\ ~WindowOpen(r, daemon[d].age)
        /\ PageFor(d, r, Snapshot(d, r).count[r]) /\ hits' = Counted(hits, r)
    BY <1>1, <1>3 DEF AcceptWithFile, StoreFails
  <2>2. /\ daemon[d].age = stored.age /\ daemon[d].count = hits
        /\ BaseSeverity[r] = "EMERGENCY" \/ stored.age[r] = lastAge[r]
    BY <1>2, <2>1 DEF AlertInv, Remembers
  <2>3. BaseSeverity[r] = "EMERGENCY" \/ lastAge[r] = Cooldown
    BY <1>1, <2>1, <2>2, CooldownAssumption DEF WindowOpen
  <2>4. Snapshot(d, r).count[r] = hits'[r]
    BY <2>1, <2>2 DEF Snapshot
  <2> QED
    BY <1>1, <2>1, <2>3, <2>4 DEF PageFor
<1>4. CASE TakeWindow(d, r)
  <2>1. storeFaults = 0 /\ ~WindowOpen(r, stored.age) /\ page'[d] = Uncounted(r)
    BY <1>1, <1>4 DEF TakeWindow, StoreFails
  <2>2. BaseSeverity[r] = "EMERGENCY" \/ stored.age[r] = lastAge[r]
    BY <2>1 DEF AlertInv, Remembers
  <2>3. BaseSeverity[r] = "EMERGENCY" \/ lastAge[r] = Cooldown
    BY <1>1, <2>1, <2>2, CooldownAssumption DEF WindowOpen
  <2>4. page'[d].rule = r /\ page'[d].severity = "uncounted"
    BY <2>1 DEF Uncounted
  <2> QED
    BY <2>3, <2>4 DEF Posting
<1> QED
  BY <1>3, <1>4 DEF EvaluateMetric

LEMMA CountedInOrder ==
  ASSUME AlertInv, NEW d \in Daemons, NEW r \in Rules, CountAlert(d, r), storeFaults' = 0
  PROVE  /\ page[d] # NoPage /\ page'[d].rule = r
         /\ page'[d].severity = Escalated(BaseSeverity[r], hits'[r])
<1>1. DOMAIN page = Daemons /\ storeFaults \in Nat
  BY DEF AlertInv, AlertTypes
<1>2. /\ storeFaults = 0 /\ PageFor(d, r, Counted(stored.count, r)[r])
      /\ hits' = Counted(hits, r) /\ page[d] # NoPage
  BY <1>1 DEF CountAlert, StoreFails, Counting
<1>3. stored.count = hits
  BY <1>2 DEF AlertInv, Remembers
<1> QED
  BY <1>1, <1>2, <1>3 DEF PageFor

\* As long as the store works, neither a crash nor another daemon makes an
\* alert forget its cooldown or its place in the escalation (evaluate_metric).
THEOREM AlertsRemember == AlertSpec => AlertMemorySurvives
<1>1. AlertInv /\ [AlertNext]_alertVars =>
        [\A d \in Daemons :
          (page'[d] # page[d] /\ page'[d] # NoPage /\ storeFaults' = 0) =>
              LET r == page'[d].rule
              IN  /\ page[d] = NoPage => BaseSeverity[r] = "EMERGENCY" \/ lastAge[r] = Cooldown
                  /\ ~Posting(d) /\ Posting(d)'
                       => page'[d].severity = Escalated(BaseSeverity[r], hits'[r])]_alertVars
  <2> SUFFICES ASSUME AlertInv, AlertNext, NEW d \in Daemons,
                      page'[d] # page[d], page'[d] # NoPage, storeFaults' = 0, ~Posting(d)
               PROVE  LET r == page'[d].rule
                      IN  /\ page[d] = NoPage => BaseSeverity[r] = "EMERGENCY" \/ lastAge[r] = Cooldown
                          /\ Posting(d)' => page'[d].severity = Escalated(BaseSeverity[r], hits'[r])
    BY DEF Posting
  <2>1. PICK r \in Rules : EvaluateMetric(d, r) \/ CountAlert(d, r)
    BY PagesAreAccepted
  <2> QED
    BY <2>1, AcceptedRespectsMemory, CountedInOrder
<1> QED
  BY <1>1, AlertStarts, AlertStep, PTL DEF AlertSpec, AlertMemorySurvives

-----------------------------------------------------------------------------
(* ApiSessions                                                             *)

Configs == [Fields -> Values \cup {Unset}]
Files   == [whole : BOOLEAN, content : Configs]

ApiTypes ==
  /\ ApiTypeOK
  /\ tokens \in Seq(Nat) /\ Len(tokens) <= MaxTokens

\* As long as updates have not overlapped, at most one is under way, it writes
\* what is in memory, and what it has written is what is in memory.
Settled ==
  serving /\ ~mixed =>
    /\ \A w, v \in Threads : Writing(w) /\ Writing(v) => w = v
    /\ \A w \in Threads : request[w].at # "overwritten"
    /\ \A w \in Threads : request[w].at \in {"dumped", "writing"} => request[w].content = config
    /\ ~(\E w \in Threads : Writing(w)) => config = Loaded

Stopped == ~serving => \A w \in Threads : request[w] = NoRequest

ApiInv == ApiTypes /\ Settled /\ Stopped

\* The requests that a step makes of a request.
LEMMA IdleRequest == NoRequest \in Requests /\ NoRequest.at = "idle"
BY DEF Requests, NoRequest

LEMMA LoginRequest ==
  ASSUME NEW r \in Requests, r.at \in {"looking", "popping", "passed"}
  PROVE  /\ r.client \in Clients /\ r.age \in 0..MaxPause
         /\ r = [at |-> r.at, client |-> r.client, age |-> r.age]
BY DEF Requests, NoRequest

LEMMA MakeLogin ==
  ASSUME NEW at \in {"looking", "popping", "passed"}, NEW c \in Clients, NEW age \in 0..MaxPause
  PROVE  [at |-> at, client |-> c, age |-> age] \in Requests
BY DEF Requests

LEMMA UpdateRequest ==
  ASSUME NEW r \in Requests, r.at \in {"authorised", "updated"}
  PROVE  /\ r.field \in Fields /\ r.value \in Values
         /\ r = [at |-> r.at, field |-> r.field, value |-> r.value]
BY DEF Requests, NoRequest

LEMMA MakeUpdate ==
  ASSUME NEW at \in {"authorised", "updated"}, NEW f \in Fields, NEW v \in Values
  PROVE  [at |-> at, field |-> f, value |-> v] \in Requests
BY DEF Requests

LEMMA DumpRequest ==
  ASSUME NEW r \in Requests, r.at \in {"dumped", "writing", "overwritten"}
  PROVE  /\ r.content \in Configs
         /\ r = [at |-> r.at, content |-> r.content]
BY DEF Requests, NoRequest, Configs

LEMMA MakeDump ==
  ASSUME NEW at \in {"dumped", "writing", "overwritten"}, NEW content \in Configs
  PROVE  [at |-> at, content |-> content] \in Requests
BY DEF Requests, Configs

LEMMA ApiStarts == ApiInit => ApiInv
<1> SUFFICES ASSUME ApiInit PROVE ApiInv
  OBVIOUS
<1>1. Empty \in Configs
  BY DEF Empty, Configs
<1>2. file \in Files /\ file.content = Empty /\ file.whole
  BY <1>1 DEF ApiInit, Files
<1>3. request \in [Threads -> Requests] /\ \A w \in Threads : request[w].at = "idle"
  BY IdleRequest DEF ApiInit
<1>4. ApiTypeOK
  BY <1>1, <1>2, <1>3, ApiAssumption DEF ApiInit, ApiTypeOK, Files, Configs
<1>5. ApiTypes
  BY <1>4, ApiAssumption DEF ApiInit, ApiTypes
<1>6. config = Loaded
  BY <1>2 DEF ApiInit, Loaded
<1>7. Settled /\ Stopped
  BY <1>3, <1>6 DEF Settled, Stopped, Writing, ApiInit
<1> QED
  BY <1>5, <1>7 DEF ApiInv

\* A request that does not write, before and after: the configuration does not
\* notice.
LEMMA QuietRequest ==
  ASSUME ApiInv, NEW w \in Threads, NEW r \in Requests, serving,
         request' = [request EXCEPT ![w] = r],
         ~Writing(w), r.at \notin {"updated", "dumped", "writing", "overwritten"},
         UNCHANGED <<serving, configVars>>
  PROVE  request' \in [Threads -> Requests] /\ Settled' /\ Stopped'
<1>1. request \in [Threads -> Requests]
  BY DEF ApiInv, ApiTypes, ApiTypeOK
<1>2. /\ request'[w] = r
      /\ \A v \in Threads \ {w} : request'[v] = request[v]
      /\ request' \in [Threads -> Requests]
  BY <1>1
<1>3. UNCHANGED <<config, file, mixed, serving>>
  BY DEF configVars
<1>4. \A v \in Threads : /\ Writing(v)' <=> Writing(v)
                         /\ Writing(v) => request'[v] = request[v]
                         /\ request'[v].at \in {"dumped", "writing", "overwritten"} => Writing(v)
  <2> SUFFICES ASSUME NEW v \in Threads
               PROVE  /\ Writing(v)' <=> Writing(v)
                      /\ Writing(v) => request'[v] = request[v]
                      /\ request'[v].at \in {"dumped", "writing", "overwritten"} => Writing(v)
    OBVIOUS
  <2>1. CASE v = w
    BY <1>2, <2>1 DEF Writing
  <2>2. CASE v # w
    BY <1>2, <2>2 DEF Writing
  <2> QED
    BY <2>1, <2>2
<1>5. Settled'
  <2> SUFFICES ASSUME serving, ~mixed PROVE Settled'
    BY <1>3 DEF Settled
  <2>1. Loaded' = Loaded
    BY <1>3 DEF Loaded
  <2> QED
    BY <1>3, <1>4, <2>1 DEF Settled, ApiInv
<1> QED
  BY <1>2, <1>3, <1>5 DEF Stopped

\* The steps of a login.
LEMMA LoginStep ==
  ASSUME ApiInv, NEW w \in Threads,
         \/ \E c \in Clients : LoginStarts(w, c)
         \/ LoginFindsOld(w) \/ LoginPops(w) \/ LoginLimited(w) \/ LoginPasses(w)
         \/ LoginRefused(w)
  PROVE  ApiInv'
<1>1. request \in [Threads -> Requests]
  BY DEF ApiInv, ApiTypes, ApiTypeOK
<1>2. PICK r \in Requests : /\ request' = [request EXCEPT ![w] = r]
                            /\ r.at \notin {"updated", "dumped", "writing", "overwritten"}
  <2>1. CASE \E c \in Clients : LoginStarts(w, c)
    <3>1. PICK c \in Clients : LoginStarts(w, c)
      BY <2>1
    <3>2. [at |-> "looking", client |-> c, age |-> 0] \in Requests
      BY MakeLogin, ApiAssumption
    <3> QED
      BY <3>1, <3>2 DEF LoginStarts
  <2>2. ASSUME request[w].at \in {"looking", "popping", "passed"},
               NEW to \in {"looking", "popping", "passed"},
               request' = [request EXCEPT ![w].at = to]
        PROVE  \E r \in Requests : /\ request' = [request EXCEPT ![w] = r]
                                   /\ r.at \notin {"updated", "dumped", "writing", "overwritten"}
    <3> DEFINE r == [at |-> to, client |-> request[w].client, age |-> request[w].age]
    <3>1. r \in Requests /\ r.at = to
      BY <1>1, <2>2, LoginRequest, MakeLogin
    <3>2. request[w] = [at |-> request[w].at, client |-> request[w].client, age |-> request[w].age]
      BY <1>1, <2>2, LoginRequest
    <3>3. [request[w] EXCEPT !.at = to] = r
      BY <3>2
    <3>4. request' = [request EXCEPT ![w] = r]
      BY <2>2, <3>3
    <3> HIDE DEF r
    <3> QED
      BY <3>1, <3>4
  <2>3. CASE LoginFindsOld(w)
    BY <2>2, <2>3 DEF LoginFindsOld
  <2>4. CASE LoginPasses(w)
    BY <2>2, <2>4 DEF LoginPasses
  <2>5. CASE LoginPops(w)
    <3>1. CASE request' = [request EXCEPT ![w] = NoRequest]
      BY <3>1, IdleRequest
    <3>2. CASE request' = [request EXCEPT ![w].at = "looking"]
      BY <2>2, <2>5, <3>2 DEF LoginPops
    <3> QED
      BY <2>5, <3>1, <3>2 DEF LoginPops
  <2>6. CASE LoginLimited(w) \/ LoginRefused(w)
    BY <2>6, IdleRequest DEF LoginLimited, LoginRefused, Recorded
  <2> QED
    BY <2>1, <2>3, <2>4, <2>5, <2>6
<1>3. ~Writing(w) /\ serving
  BY IdleRequest DEF LoginStarts, LoginFindsOld, LoginPops, LoginLimited, LoginPasses, LoginRefused,
         Recorded, Writing, ApiInv, Stopped
<1>4. UNCHANGED <<serving, tokens, jar, revoked, configVars>>
  BY DEF LoginStarts, LoginFindsOld, LoginPops, LoginLimited, LoginPasses, LoginRefused
<1>5. request' \in [Threads -> Requests] /\ Settled' /\ Stopped'
  BY <1>2, <1>3, <1>4, QuietRequest
<1>6. ApiTypes'
  BY <1>4, <1>5 DEF ApiInv, ApiTypes, ApiTypeOK, configVars
<1> QED
  BY <1>5, <1>6 DEF ApiInv

LEMMA AcceptedStep ==
  ASSUME ApiInv, NEW w \in Threads, LoginAccepted(w)
  PROVE  ApiInv'
<1>1. request[w] \in Requests /\ request[w].at = "passed" /\ request' = [request EXCEPT ![w] = NoRequest]
  BY DEF LoginAccepted, Recorded, ApiInv, ApiTypes, ApiTypeOK
<1>2. request[w].client \in Clients
  BY <1>1, LoginRequest
<1>3. /\ UNCHANGED <<serving, revoked, configVars>> /\ Len(tokens) < MaxTokens
      /\ tokens' = Append(tokens, 0)
      /\ jar' = [jar EXCEPT ![request[w].client] = Len(tokens) + 1]
  BY DEF LoginAccepted
<1>4. serving /\ ~Writing(w)
  BY <1>1, IdleRequest DEF ApiInv, Stopped, Writing
<1>5. request' \in [Threads -> Requests] /\ Settled' /\ Stopped'
  BY <1>1, <1>3, <1>4, IdleRequest, QuietRequest
<1>6. tokens' \in Seq(Nat) /\ Len(tokens') = Len(tokens) + 1 /\ Len(tokens) \in Nat
  BY <1>3, AppendProperties, LenProperties DEF ApiInv, ApiTypes
<1>7. Len(tokens') <= MaxTokens /\ Len(tokens) + 1 \in 0..MaxTokens
  BY <1>3, <1>6, ApiAssumption
<1>8. jar' \in [Clients -> 0..MaxTokens]
  BY <1>2, <1>3, <1>7 DEF ApiInv, ApiTypes, ApiTypeOK
<1>9. ApiTypeOK'
  BY <1>3, <1>5, <1>8 DEF ApiInv, ApiTypes, ApiTypeOK, configVars
<1> QED
  BY <1>5, <1>6, <1>7, <1>9 DEF ApiInv, ApiTypes

\* The steps of an update of the configuration.
LEMMA AuthorisedStep ==
  ASSUME ApiInv, NEW w \in Threads, NEW c \in Clients, NEW f \in Fields, NEW v \in Values,
         PutAuthorised(w, c, f, v)
  PROVE  ApiInv'
<1> DEFINE r == [at |-> "authorised", field |-> f, value |-> v]
<1>1. r \in Requests /\ r.at = "authorised"
  BY MakeUpdate
<1>2. /\ request' = [request EXCEPT ![w] = r] /\ serving /\ request[w] = NoRequest
      /\ UNCHANGED <<serving, tokens, jar, revoked, configVars>>
  BY DEF PutAuthorised
<1>3. ~Writing(w)
  BY <1>2, IdleRequest DEF Writing
<1> HIDE DEF r
<1>4. request' \in [Threads -> Requests] /\ Settled' /\ Stopped'
  BY <1>1, <1>2, <1>3, QuietRequest
<1>5. ApiTypes'
  BY <1>2, <1>4 DEF ApiInv, ApiTypes, ApiTypeOK, configVars
<1> QED
  BY <1>4, <1>5 DEF ApiInv

\* A thread at work: the process serves, and the other threads stay as they are.
LEMMA OneThread ==
  ASSUME ApiInv, NEW w \in Threads, NEW r \in Requests, request[w].at # "idle",
         request' = [request EXCEPT ![w] = r], UNCHANGED serving
  PROVE  /\ request' \in [Threads -> Requests] /\ serving /\ Stopped'
         /\ request'[w] = r
         /\ \A v \in Threads \ {w} : request'[v] = request[v]
BY IdleRequest DEF ApiInv, ApiTypes, ApiTypeOK, Stopped

LEMMA UpdatesStep ==
  ASSUME ApiInv, NEW w \in Threads, PutUpdates(w)
  PROVE  ApiInv'
<1>1. /\ request[w] \in Requests /\ request[w].at = "authorised"
      /\ config' = [config EXCEPT ![request[w].field] = request[w].value]
      /\ request' = [request EXCEPT ![w].at = "updated"]
      /\ mixed' = \E v \in Threads : Writing(v)
      /\ UNCHANGED <<serving, tokens, jar, revoked, file>>
  BY DEF PutUpdates, ApiInv, ApiTypes, ApiTypeOK
<1> DEFINE r == [at |-> "updated", field |-> request[w].field, value |-> request[w].value]
<1>2. /\ request[w].field \in Fields /\ request[w].value \in Values
      /\ request[w] = [at |-> request[w].at, field |-> request[w].field, value |-> request[w].value]
  BY <1>1, UpdateRequest
<1>3. r \in Requests /\ r.at = "updated"
  BY <1>2, MakeUpdate
<1>4. request' = [request EXCEPT ![w] = r]
  <2>1. [request[w] EXCEPT !.at = "updated"] = r
    BY <1>2
  <2> QED
    BY <1>1, <2>1
<1> HIDE DEF r
<1>5. /\ request' \in [Threads -> Requests] /\ serving /\ Stopped' /\ request'[w] = r
      /\ \A v \in Threads \ {w} : request'[v] = request[v]
  BY <1>1, <1>3, <1>4, OneThread
<1>6. config' \in Configs
  BY <1>1, <1>2 DEF ApiInv, ApiTypes, ApiTypeOK, Configs
<1>7. ApiTypes'
  BY <1>1, <1>5, <1>6 DEF ApiInv, ApiTypes, ApiTypeOK, Configs
<1>8. Settled'
  <2> SUFFICES ASSUME ~mixed' PROVE Settled'
    BY DEF Settled
  <2>1. \A v \in Threads : ~Writing(v)
    BY <1>1
  <2>2. Writing(w)' /\ \A v \in Threads \ {w} : ~Writing(v)'
    BY <1>3, <1>5, <2>1 DEF Writing
  <2>3. \A v \in Threads : request'[v].at \notin {"dumped", "writing", "overwritten"}
    BY <1>3, <1>5, <2>2 DEF Writing
  <2> QED
    BY <2>2, <2>3 DEF Settled
<1> QED
  BY <1>5, <1>7, <1>8 DEF ApiInv

LEMMA DumpsStep ==
  ASSUME ApiInv, NEW w \in Threads, PutDumps(w) \/ PutOpens(w)
  PROVE  ApiInv'
<1>1. /\ request \in [Threads -> Requests] /\ config \in Configs /\ file \in Files
      /\ Writing(w) /\ request[w].at \in {"updated", "dumped"}
      /\ UNCHANGED <<serving, tokens, jar, revoked, config, mixed>>
  BY DEF PutDumps, PutOpens, Writing, configVars, ApiInv, ApiTypes, ApiTypeOK, Configs, Files
<1>2. PICK to \in {"dumped", "writing"}, content \in Configs :
        /\ request' = [request EXCEPT ![w] = [at |-> to, content |-> content]]
        /\ serving /\ ~mixed => content = config
  <2>1. CASE PutDumps(w)
    BY <1>1, <2>1 DEF PutDumps, Dumping
  <2>2. CASE PutOpens(w)
    <3>1. request[w].at = "dumped" /\ request' = [request EXCEPT ![w].at = "writing"]
      BY <2>2 DEF PutOpens
    <3>2. /\ request[w].content \in Configs
          /\ request[w] = [at |-> request[w].at, content |-> request[w].content]
      BY <1>1, <3>1, DumpRequest
    <3>3. [request[w] EXCEPT !.at = "writing"] = [at |-> "writing", content |-> request[w].content]
      BY <3>2
    <3>4. serving /\ ~mixed => request[w].content = config
      BY <3>1 DEF ApiInv, Settled
    <3> QED
      BY <3>1, <3>2, <3>3, <3>4
  <2> QED
    BY <2>1, <2>2
<1> DEFINE r == [at |-> to, content |-> content]
<1>3. r \in Requests /\ r.at = to /\ r.content = content
  BY MakeDump
<1>4. request' = [request EXCEPT ![w] = r] /\ request[w].at # "idle"
  BY <1>1, <1>2
<1> HIDE DEF r
<1>5. /\ request' \in [Threads -> Requests] /\ serving /\ Stopped' /\ request'[w] = r
      /\ \A v \in Threads \ {w} : request'[v] = request[v]
  BY <1>1, <1>3, <1>4, OneThread
<1>6. file' \in Files
  <2>1. PICK b \in BOOLEAN : b = FALSE
    BY Zenon
  <2>2. file' = file \/ file' = [file EXCEPT !.whole = b]
    BY <2>1, Zenon DEF PutDumps, PutOpens, configVars
  <2> QED
    BY <1>1, <2>2 DEF Files
<1>7. ApiTypes'
  BY <1>1, <1>5, <1>6 DEF ApiInv, ApiTypes, ApiTypeOK, Configs, Files
<1>8. Settled'
  <2> SUFFICES ASSUME ~mixed PROVE Settled'
    BY <1>1 DEF Settled
  <2>1. \A v \in Threads \ {w} : ~Writing(v) /\ ~Writing(v)'
    BY <1>1, <1>5 DEF ApiInv, Settled, Writing
  <2>2. Writing(w)'
    BY <1>3, <1>5 DEF Writing
  <2>3. \A v \in Threads : request'[v].at # "overwritten"
    BY <1>3, <1>5, <2>1 DEF Writing
  <2>4. \A v \in Threads : request'[v].at \in {"dumped", "writing"} => request'[v].content = config'
    BY <1>1, <1>2, <1>3, <1>5, <2>1 DEF Writing
  <2> QED
    BY <2>1, <2>2, <2>3, <2>4 DEF Settled
<1> QED
  BY <1>5, <1>7, <1>8 DEF ApiInv

LEMMA WritesStep ==
  ASSUME ApiInv, NEW w \in Threads, PutWrites(w)
  PROVE  ApiInv'
<1>1. /\ request \in [Threads -> Requests]
      /\ request[w].at \in {"writing", "overwritten"} /\ Writing(w)
      /\ UNCHANGED <<serving, tokens, jar, revoked, config, mixed>>
  BY DEF PutWrites, Writing, ApiInv, ApiTypes, ApiTypeOK
<1>2. PICK whole \in {TRUE, request[w].at = "writing"} :
        file' = [whole |-> whole, content |-> request[w].content]
  BY DEF PutWrites
<1>3. request[w].content \in Configs
  BY <1>1, DumpRequest
<1>4. file' \in Files /\ file'.content = request[w].content
      /\ (request[w].at = "writing" => file'.whole)
  BY <1>2, <1>3 DEF Files
<1>5. /\ DOMAIN request' = Threads /\ request'[w] = NoRequest
      /\ \A v \in Threads \ {w} :
           \/ request'[v] = request[v]
           \/ request[v].at = "writing" /\ request'[v] = [request[v] EXCEPT !.at = "overwritten"]
  BY DEF PutWrites
<1>6. \A v \in Threads \ {w} :
        /\ request'[v] \in Requests
        /\ Writing(v)' <=> Writing(v)
        /\ ~Writing(v) => request'[v] = request[v]
  <2> SUFFICES ASSUME NEW v \in Threads \ {w}
               PROVE  /\ request'[v] \in Requests
                      /\ Writing(v)' <=> Writing(v)
                      /\ ~Writing(v) => request'[v] = request[v]
    OBVIOUS
  <2>1. CASE request'[v] = request[v]
    BY <1>1, <2>1 DEF Writing
  <2>2. CASE request[v].at = "writing" /\ request'[v] = [request[v] EXCEPT !.at = "overwritten"]
    <3>1. /\ request[v].content \in Configs
          /\ request[v] = [at |-> request[v].at, content |-> request[v].content]
      BY <1>1, <2>2, DumpRequest
    <3>2. request'[v] = [at |-> "overwritten", content |-> request[v].content]
      BY <2>2, <3>1
    <3>3. request'[v] \in Requests /\ request'[v].at = "overwritten"
      BY <3>1, <3>2, MakeDump
    <3> QED
      BY <2>2, <3>3 DEF Writing
  <2> QED
    BY <1>5, <2>1, <2>2
<1>7. request' \in [Threads -> Requests] /\ request'[w].at = "idle"
  BY <1>5, <1>6, IdleRequest DEF PutWrites
<1>8. ApiTypes'
  BY <1>1, <1>4, <1>7 DEF ApiInv, ApiTypes, ApiTypeOK, Configs, Files
<1>9. serving /\ Stopped'
  BY <1>1, IdleRequest DEF ApiInv, Stopped
<1>10. Settled'
  <2> SUFFICES ASSUME ~mixed PROVE Settled'
    BY <1>1 DEF Settled
  <2>1. /\ \A v \in Threads \ {w} : ~Writing(v)
        /\ request[w].at = "writing" /\ request[w].content = config
    BY <1>1, <1>9 DEF ApiInv, Settled
  <2>2. \A v \in Threads : ~Writing(v)'
    BY <1>6, <1>7, <2>1 DEF Writing
  <2>3. Loaded' = config'
    BY <1>1, <1>4, <2>1 DEF Loaded
  <2> QED
    BY <2>2, <2>3 DEF Settled, Writing
<1> QED
  BY <1>8, <1>9, <1>10 DEF ApiInv

LEMMA FailsStep ==
  ASSUME ApiInv, NEW w \in Threads, PutFails(w)
  PROVE  ApiInv'
<1>1. /\ request[w].at # "idle" /\ request' = [request EXCEPT ![w] = NoRequest] /\ mixed'
      /\ UNCHANGED <<serving, tokens, jar, revoked, config, file>>
  BY DEF PutFails
<1>2. request' \in [Threads -> Requests] /\ Stopped'
  BY <1>1, IdleRequest, OneThread
<1>3. ApiTypes'
  BY <1>1, <1>2 DEF ApiInv, ApiTypes, ApiTypeOK
<1> QED
  BY <1>1, <1>2, <1>3 DEF ApiInv, Settled

LEMMA LogoutStep ==
  ASSUME ApiInv, NEW c \in Clients,
         Logout(c) \/ \E token \in 1..Len(tokens) : Reuse(c, token)
  PROVE  ApiInv'
<1>1. UNCHANGED <<serving, tokens, request, config, file, mixed>>
  BY DEF Logout, Reuse, configVars
<1>2. jar \in [Clients -> 0..MaxTokens] /\ revoked \subseteq 1..MaxTokens
      /\ MaxTokens \in Nat /\ Len(tokens) \in Nat /\ Len(tokens) <= MaxTokens
  BY ApiAssumption, LenProperties DEF ApiInv, ApiTypes, ApiTypeOK
<1>3. jar' \in [Clients -> 0..MaxTokens] /\ revoked' \subseteq 1..MaxTokens
  <2>1. CASE Logout(c)
    <3>1. jar[c] \in 1..MaxTokens /\ revoked' = revoked \cup {jar[c]}
          /\ jar' = [jar EXCEPT ![c] = 0]
      BY <1>2, <2>1 DEF Logout, Unsign
    <3>2. jar' \in [Clients -> 0..MaxTokens]
      <4>1. 0 \in 0..MaxTokens
        BY <1>2
      <4> QED
        BY <1>2, <3>1, <4>1, Zenon
    <3>3. revoked' \subseteq 1..MaxTokens
      <4>1. jar[c] \in 1..MaxTokens
        BY <1>2, <3>1
      <4> QED
        BY <1>2, <3>1, <4>1, Zenon
    <3> QED
      BY <3>2, <3>3
  <2>2. ASSUME NEW token \in 1..Len(tokens), Reuse(c, token)
        PROVE  jar' \in [Clients -> 0..MaxTokens] /\ revoked' \subseteq 1..MaxTokens
    <3>1. jar' = [jar EXCEPT ![c] = token] /\ revoked' = revoked /\ token \in 0..MaxTokens
      BY <1>2, <2>2 DEF Reuse
    <3> QED
      BY <1>2, <3>1
  <2> QED
    BY <2>1, <2>2
<1>4. ApiTypes'
  BY <1>1, <1>3 DEF ApiInv, ApiTypes, ApiTypeOK
<1>5. Settled' /\ Stopped'
  BY <1>1 DEF ApiInv, Settled, Stopped, Writing, Loaded
<1> QED
  BY <1>4, <1>5 DEF ApiInv

LEMMA RestartStep ==
  ASSUME ApiInv, Stop \/ Serve
  PROVE  ApiInv'
<1>1. request' \in [Threads -> Requests]
      /\ \A w \in Threads : request'[w] = NoRequest /\ ~Writing(w)'
  <2>1. CASE Stop
    BY <2>1, IdleRequest DEF Stop, Writing
  <2>2. CASE Serve
    BY <2>2, IdleRequest DEF Serve, Writing, ApiInv, ApiTypes, ApiTypeOK, Stopped
  <2> QED
    BY <2>1, <2>2
<1>2. Loaded \in Configs
  <2>1. Empty \in Configs
    BY DEF Empty, Configs
  <2> QED
    BY <2>1 DEF Loaded, ApiInv, ApiTypes, ApiTypeOK, Configs
<1>3. /\ config' \in Configs /\ UNCHANGED <<tokens, jar, file>>
      /\ revoked' \in {revoked, {}}
      /\ serving' => config' = Loaded
  BY <1>2 DEF Stop, Serve, configVars, ApiInv, ApiTypes, ApiTypeOK, Configs
<1>4. ApiTypes'
  BY <1>1, <1>3 DEF ApiInv, ApiTypes, ApiTypeOK, Configs
<1>5. Loaded' = Loaded
  BY <1>3 DEF Loaded
<1>6. Settled' /\ Stopped'
  BY <1>1, <1>3, <1>5, IdleRequest DEF Settled, Stopped, Writing
<1> QED
  BY <1>4, <1>6 DEF ApiInv

LEMMA TickStep ==
  ASSUME ApiInv, ApiTick
  PROVE  ApiInv'
<1>1. /\ \A w \in Threads : LoggingIn(w) => request[w].age < MaxPause
      /\ request' = [w \in Threads |-> IF LoggingIn(w) THEN [request[w] EXCEPT !.age = @ + 1]
                                       ELSE request[w]]
      /\ UNCHANGED <<serving, jar, revoked, config, file, mixed>>
  BY DEF ApiTick, configVars
<1>2. tokens' \in Seq(Nat) /\ Len(tokens') = Len(tokens)
  <2>1. tokens \in Seq(Nat) /\ MaxAge \in Nat
    BY ApiAssumption DEF ApiInv, ApiTypes
  <2>2. tokens' = [i \in 1..Len(tokens) |-> IF tokens[i] > MaxAge THEN tokens[i] ELSE tokens[i] + 1]
    BY <2>1, LenProperties DEF ApiTick
  <2>3. Len(tokens) \in Nat /\ \A i \in 1..Len(tokens) : tokens[i] \in Nat
    BY <2>1, LenProperties, ElementOfSeq
  <2>4. tokens' \in [1..Len(tokens) -> Nat]
    BY <2>1, <2>2, <2>3
  <2> QED
    BY <2>3, <2>4, SeqDef, LenProperties
<1>3. \A w \in Threads : /\ request'[w] \in Requests
                         /\ Writing(w)' <=> Writing(w)
                         /\ ~LoggingIn(w) => request'[w] = request[w]
                         /\ LoggingIn(w) => request'[w].at = request[w].at
  <2> SUFFICES ASSUME NEW w \in Threads
               PROVE  /\ request'[w] \in Requests
                      /\ Writing(w)' <=> Writing(w)
                      /\ ~LoggingIn(w) => request'[w] = request[w]
                      /\ LoggingIn(w) => request'[w].at = request[w].at
    OBVIOUS
  <2>1. request[w] \in Requests
    BY DEF ApiInv, ApiTypes, ApiTypeOK
  <2>2. CASE LoggingIn(w)
    <3>1. /\ request[w].at \in {"looking", "popping", "passed"}
          /\ request[w].client \in Clients /\ request[w].age \in 0..MaxPause
          /\ request[w] = [at |-> request[w].at, client |-> request[w].client, age |-> request[w].age]
      BY <2>1, <2>2, LoginRequest DEF LoggingIn
    <3>2. request'[w] = [at |-> request[w].at, client |-> request[w].client,
                         age |-> request[w].age + 1]
      <4>1. request'[w] = [request[w] EXCEPT !.age = @ + 1]
        BY <1>1, <2>2
      <4> QED
        BY <3>1, <4>1
    <3>3. request[w].age + 1 \in 0..MaxPause
      BY <1>1, <2>2, <3>1, ApiAssumption
    <3>4. request'[w] \in Requests /\ request'[w].at = request[w].at
      BY <3>1, <3>2, <3>3, MakeLogin
    <3> QED
      BY <2>2, <3>4 DEF Writing
  <2>3. CASE ~LoggingIn(w)
    BY <1>1, <2>1, <2>3 DEF Writing
  <2> QED
    BY <2>2, <2>3
<1>4. request' \in [Threads -> Requests]
  BY <1>1, <1>3
<1>5. ApiTypes'
  BY <1>1, <1>2, <1>4 DEF ApiInv, ApiTypes, ApiTypeOK
<1>6. Settled'
  <2> SUFFICES ASSUME serving, ~mixed PROVE Settled'
    BY <1>1 DEF Settled
  <2>1. \A w \in Threads : Writing(w) => request'[w] = request[w]
    BY <1>3 DEF Writing, LoggingIn
  <2>2. \A w \in Threads : request'[w].at \in {"dumped", "writing", "overwritten"} => Writing(w)
    BY <1>3 DEF Writing, LoggingIn
  <2>3. Loaded' = Loaded
    BY <1>1 DEF Loaded
  <2> QED
    BY <1>1, <1>3, <2>1, <2>2, <2>3 DEF ApiInv, Settled
<1>7. Stopped'
  <2> SUFFICES ASSUME ~serving, NEW w \in Threads PROVE request'[w] = NoRequest
    BY <1>1 DEF Stopped
  <2>1. request[w] = NoRequest
    BY DEF ApiInv, Stopped
  <2> QED
    BY <1>3, <2>1, IdleRequest DEF LoggingIn
<1> QED
  BY <1>5, <1>6, <1>7 DEF ApiInv

LEMMA ApiStep == ApiInv /\ [ApiNext]_apiVars => ApiInv'
<1> SUFFICES ASSUME ApiInv, [ApiNext]_apiVars PROVE ApiInv'
  OBVIOUS
<1>1. CASE UNCHANGED apiVars
  BY <1>1 DEF apiVars, ApiInv, ApiTypes, ApiTypeOK, Settled, Stopped, Writing, Loaded
<1>2. CASE ApiTick \/ Stop \/ Serve
  BY <1>2, TickStep, RestartStep
<1>3. CASE \E c \in Clients : Logout(c) \/ \E token \in 1 .. Len(tokens) : Reuse(c, token)
  BY <1>3, LogoutStep
<1>4. ASSUME NEW w \in Threads,
             \/ \E c \in Clients : LoginStarts(w, c)
             \/ LoginFindsOld(w) \/ LoginPops(w) \/ LoginLimited(w) \/ LoginPasses(w)
             \/ LoginRefused(w) \/ LoginAccepted(w)
      PROVE  ApiInv'
  BY <1>4, LoginStep, AcceptedStep
<1>5. ASSUME NEW w \in Threads,
             \/ \E c \in Clients, f \in Fields, v \in Values : PutAuthorised(w, c, f, v)
             \/ PutUpdates(w) \/ PutDumps(w) \/ PutOpens(w) \/ PutWrites(w) \/ PutFails(w)
      PROVE  ApiInv'
  BY <1>5, AuthorisedStep, UpdatesStep, DumpsStep, WritesStep, FailsStep
<1> QED
  BY <1>1, <1>2, <1>3, <1>4, <1>5 DEF ApiNext

LEMMA ApiHolds == ApiSpec => []ApiInv
BY ApiStarts, ApiStep, PTL DEF ApiSpec

\* The API process stays in its types, through overlapping requests, restarts and
\* half-written configuration files.
THEOREM SessionsTypeCorrect == ApiSpec => []ApiTypeOK
<1>1. ApiInv => ApiTypeOK
  BY DEF ApiInv, ApiTypes
<1> QED
  BY <1>1, ApiHolds, PTL

\* Between updates that did not overlap and did not fail, a restart loads what the
\* process has, for any number of threads (put_config, create_app).
THEOREM ConfigSurvivesRestart == ApiSpec => []ConfigIsPersisted
<1>1. ApiInv => ConfigIsPersisted
  BY DEF ApiInv, Settled, ConfigIsPersisted
<1> QED
  BY <1>1, ApiHolds, PTL

----------------------------------------------------------------------------
(* The staleness sentinel.                                                 *)

(* Nothing received is newer than the high-water mark, and receivedAt is   *)
(* when the tick at the mark came, before which everything was older.      *)
MarkIsNews ==
    /\ receivedAt < clock
    /\ \A t \in ticks : t.event <= hwm /\ t.at < clock
    /\ receivedAt = 0 => hwm = 0
    /\ receivedAt # 0 =>
         /\ \E t \in ticks : t.event = hwm /\ t.at = receivedAt
         /\ \A u \in ticks : u.at < receivedAt => u.event < hwm

(* An open gate was opened after the last trip by hand.                    *)
TripIsOlder ==
    /\ resets.tripped < clock /\ resets.reset < clock
    /\ ~tripped => resets.tripped <= receivedAt \/ resets.tripped <= resets.reset

FreshIsRecent ==
    answer = "fresh" => ~tripped /\ receivedAt # 0 /\ clock - receivedAt <= MaxStale

SentinelInv == StalenessTypeOK /\ MarkIsNews /\ TripIsOlder /\ FreshIsRecent

LEMMA SentinelInitially == SentinelInit => SentinelInv
<1> SUFFICES ASSUME SentinelInit PROVE SentinelInv
  OBVIOUS
<1>1. known \in BOOLEAN /\ tripped \in BOOLEAN
  BY Zenon DEF SentinelInit
<1>2. resets \in [tripped : Times, reset : Times] /\ resets.tripped = 0 /\ resets.reset = 0
  BY StalenessAssumption DEF SentinelInit, Times
<1>3. StalenessTypeOK
  BY StalenessAssumption, <1>1, <1>2 DEF SentinelInit, StalenessTypeOK, Times
<1>4. MarkIsNews /\ TripIsOlder /\ FreshIsRecent
  BY <1>2 DEF SentinelInit, MarkIsNews, TripIsOlder, FreshIsRecent
<1> QED BY <1>3, <1>4 DEF SentinelInv

LEMMA SentinelStep == SentinelInv /\ [SentinelNext]_sentinelVars => SentinelInv'
<1> SUFFICES ASSUME SentinelInv, [SentinelNext]_sentinelVars PROVE SentinelInv'
  OBVIOUS
<1> USE StalenessAssumption DEF SentinelInv, Times
<1>1. ASSUME NEW event \in 1..LastTick, RecordTick(event) PROVE SentinelInv'
  <2>0. /\ clock \in 1..LastTick /\ clock + 1 \in 1..LastTick /\ hwm \in 0..LastTick
        /\ receivedAt \in 0..clock /\ clock' = clock + 1
        /\ resets \in [tripped : Times, reset : Times] /\ resets' = resets
        /\ answer' = "unasked" /\ known' = TRUE
    BY <1>1 DEF RecordTick, Later, StalenessTypeOK
  <2> DEFINE new == [event |-> event, at |-> clock]
  <2>1. new \in Received /\ new.event = event /\ new.at = clock /\ ticks' = ticks \cup {new}
    BY <1>1, <2>0 DEF RecordTick, Received
  <2>t. ticks \subseteq Received
    BY DEF StalenessTypeOK
  <2> HIDE DEF new
  <2>2. CASE Newer(event)
    <3>1. event > hwm /\ hwm' = event /\ receivedAt' = clock /\ tripped' = FALSE
      BY <1>1, <2>2 DEF RecordTick, Newer
    <3>2. StalenessTypeOK'
      <4>1. known' \in BOOLEAN /\ tripped' \in BOOLEAN
        BY <2>0, <3>1, Zenon DEF StalenessTypeOK
      <4>2. hwm' \in Times /\ receivedAt' \in 0..clock' /\ clock' \in 1..LastTick
        BY <2>0, <3>1
      <4>3. ticks' \subseteq Received
        BY <2>1, <2>t
      <4> QED BY <2>0, <4>1, <4>2, <4>3 DEF StalenessTypeOK
    <3>3. MarkIsNews'
      BY <2>0, <2>1, <2>t, <3>1 DEF MarkIsNews, Received
    <3>4. TripIsOlder' /\ FreshIsRecent'
      BY <2>0, <3>1 DEF TripIsOlder, FreshIsRecent
    <3> QED BY <3>2, <3>3, <3>4
  <2>3. CASE ~Newer(event)
    <3>1. event <= hwm /\ hwm' = hwm /\ receivedAt' = receivedAt /\ tripped' = tripped
      BY <1>1, <2>0, <2>3 DEF RecordTick, Newer
    <3>2. StalenessTypeOK'
      <4>1. known' \in BOOLEAN /\ tripped' \in BOOLEAN
        BY <2>0, <3>1, Zenon DEF StalenessTypeOK
      <4>2. hwm' \in Times /\ receivedAt' \in 0..clock' /\ clock' \in 1..LastTick
        BY <2>0, <3>1
      <4>3. ticks' \subseteq Received
        BY <2>1, <2>t
      <4> QED BY <2>0, <4>1, <4>2, <4>3 DEF StalenessTypeOK
    <3>3. MarkIsNews'
      BY <2>0, <2>1, <2>t, <3>1 DEF MarkIsNews, Received
    <3>4. TripIsOlder' /\ FreshIsRecent'
      BY <2>0, <3>1 DEF TripIsOlder, FreshIsRecent
    <3> QED BY <3>2, <3>3, <3>4
  <2> QED BY <2>2, <2>3
<1>2. ASSUME IsStale PROVE SentinelInv'
  <2>1. UNCHANGED <<clock, known, hwm, receivedAt, ticks, resets>>
    BY <1>2 DEF IsStale
  <2>2. tripped' \in BOOLEAN /\ (~tripped' => ~tripped)
    BY <1>2, Zenon DEF IsStale, StalenessTypeOK
  <2>3. answer' \in {"fresh", "stale"}
    BY <1>2, Zenon DEF IsStale
  <2>4. answer' = "fresh" => ~tripped' /\ ~(Elapsed > MaxStale)
    BY <1>2, "fresh" # "stale", Zenon DEF IsStale
  <2>5. ~(Elapsed > MaxStale) => receivedAt # 0 /\ clock - receivedAt <= MaxStale
    BY DEF Elapsed, StalenessTypeOK
  <2>6. StalenessTypeOK'
    BY <2>1, <2>2, <2>3 DEF StalenessTypeOK
  <2>7. MarkIsNews' /\ TripIsOlder' /\ FreshIsRecent'
    BY <2>1, <2>2, <2>4, <2>5 DEF MarkIsNews, TripIsOlder, FreshIsRecent
  <2> QED BY <2>6, <2>7
<1>3. ASSUME TripCircuitBreaker \/ ResetCircuitBreaker PROVE SentinelInv'
  <2>1. /\ clock \in 1..LastTick /\ clock + 1 \in 1..LastTick /\ clock' = clock + 1
        /\ UNCHANGED <<hwm, receivedAt, ticks>> /\ answer' = "unasked"
    BY <1>3 DEF TripCircuitBreaker, ResetCircuitBreaker, Later, StalenessTypeOK
  <2>0. known' \in BOOLEAN /\ tripped' \in BOOLEAN
    BY <1>3, Zenon DEF TripCircuitBreaker, ResetCircuitBreaker, StalenessTypeOK
  <2>2. /\ resets' \in [tripped : Times, reset : Times]
        /\ resets'.tripped < clock' /\ resets'.reset < clock'
        /\ ~tripped' => resets'.tripped <= resets'.reset
    BY <1>3, <2>1 DEF TripCircuitBreaker, ResetCircuitBreaker, StalenessTypeOK, TripIsOlder
  <2>3. StalenessTypeOK'
    BY <2>0, <2>1, <2>2 DEF StalenessTypeOK
  <2>4. MarkIsNews'
    BY <2>1 DEF MarkIsNews, StalenessTypeOK, Received
  <2> QED BY <2>1, <2>2, <2>3, <2>4 DEF TripIsOlder, FreshIsRecent
<1>4. ASSUME Silence PROVE SentinelInv'
  <2>1. /\ clock \in 1..LastTick /\ clock + 1 \in 1..LastTick /\ clock' = clock + 1
        /\ UNCHANGED <<known, hwm, receivedAt, tripped, ticks, resets>> /\ answer' = "unasked"
    BY <1>4 DEF Silence, Later, StalenessTypeOK
  <2>2. StalenessTypeOK'
    BY <2>1 DEF StalenessTypeOK
  <2>3. MarkIsNews'
    BY <2>1 DEF MarkIsNews, StalenessTypeOK, Received
  <2>4. TripIsOlder' /\ FreshIsRecent'
    BY <2>1 DEF TripIsOlder, FreshIsRecent, StalenessTypeOK
  <2> QED BY <2>2, <2>3, <2>4
<1>5. ASSUME UNCHANGED sentinelVars PROVE SentinelInv'
  BY <1>5 DEF sentinelVars, StalenessTypeOK, MarkIsNews, TripIsOlder, FreshIsRecent
<1> QED BY <1>1, <1>2, <1>3, <1>4, <1>5, Zenon DEF SentinelNext

LEMMA FreshIsNews == SentinelInv => FreshOnNewsOnly
<1> SUFFICES ASSUME SentinelInv, answer = "fresh"
             PROVE  \E t \in News : /\ clock - t.at <= MaxStale
                                    /\ resets.tripped <= t.at \/ resets.tripped <= resets.reset
  BY DEF FreshOnNewsOnly
<1>1. ~tripped /\ receivedAt # 0 /\ clock - receivedAt <= MaxStale
  BY DEF SentinelInv, FreshIsRecent
<1>2. PICK t \in ticks : t.event = hwm /\ t.at = receivedAt
  BY <1>1 DEF SentinelInv, MarkIsNews
<1>3. t \in News
  BY <1>1, <1>2 DEF SentinelInv, MarkIsNews, News
<1> QED BY <1>1, <1>2, <1>3 DEF SentinelInv, TripIsOlder

(* A symbol is reported fresh only on a tick that was newer than all       *)
(* before it, came within the last MaxStale, and after the breaker's last  *)
(* trip by hand (staleness.py:80-85), for every limit and however late,    *)
(* doubled and reordered the ticks come.                                   *)
THEOREM FreshMeansNews == SentinelSpec => []FreshOnNewsOnly
  BY SentinelInitially, SentinelStep, FreshIsNews, PTL DEF SentinelSpec

THEOREM SentinelTypeCorrect == SentinelSpec => []StalenessTypeOK
<1>1. SentinelInv => StalenessTypeOK
  BY DEF SentinelInv
<1> QED BY SentinelInitially, SentinelStep, <1>1, PTL DEF SentinelSpec

----------------------------------------------------------------------------
(* The position reconciler and the recovery engine.                        *)

(* What a running cycle was passed is still what the local side holds, of  *)
(* every asset that has not moved since.                                   *)
CycleIsCurrent ==
    cycle.running => \A a \in Held \ moved : cycle.local[a] = localQty[a]

RecoveryInv == RecoveryTypeOK /\ CycleIsCurrent

Cycles == [running : BOOLEAN, local : Quantities]
Recoveries == [pc : {"idle", "positions", "orders"}, local : Quantities, venue : Quantities]
Results == [mismatched : SUBSET Held, flatten : BOOLEAN, exits : SUBSET Held]

LEMMA RecoveryTypes ==
    RecoveryTypeOK <=> /\ keyed \in BOOLEAN
                       /\ venueQty \in Quantities /\ localQty \in Quantities
                       /\ unheard \in [Held -> -MaxHeld..MaxHeld] /\ unsent \in 0..MaxLost
                       /\ quarantine \subseteq Items
                       /\ cycle \in Cycles /\ recovery \in Recoveries /\ result \in Results
                       /\ moved \subseteq Held
  BY Zenon DEF RecoveryTypeOK, Cycles, Recoveries, Results

LEMMA RecoveryTypesNext ==
    RecoveryTypeOK' <=> /\ keyed' \in BOOLEAN
                        /\ venueQty' \in Quantities /\ localQty' \in Quantities
                        /\ unheard' \in [Held -> -MaxHeld..MaxHeld] /\ unsent' \in 0..MaxLost
                        /\ quarantine' \subseteq Items
                        /\ cycle' \in Cycles /\ recovery' \in Recoveries /\ result' \in Results
                        /\ moved' \subseteq Held
  BY Zenon DEF RecoveryTypeOK, Cycles, Recoveries, Results, Quantities, Items

LEMMA RecoveryInitially == RecoveryInit => RecoveryInv
<1> SUFFICES ASSUME RecoveryInit PROVE RecoveryInv
  OBVIOUS
<1>1. Zero \in Quantities /\ Zero \in [Held -> -MaxHeld..MaxHeld]
  BY RecoveryAssumption DEF Zero, Quantities
<1>2. PICK b \in BOOLEAN : b = FALSE
  BY Zenon
<1>3. cycle \in Cycles /\ ~cycle.running
  <2>1. cycle = [running |-> b, local |-> Zero]
    BY <1>2, Zenon DEF RecoveryInit
  <2> QED BY <1>1, <1>2, <2>1 DEF Cycles
<1>4. recovery \in Recoveries
  BY <1>1 DEF RecoveryInit, Recoveries
<1>5. result \in Results
  <2>1. result = [mismatched |-> {}, flatten |-> b, exits |-> {}]
    BY <1>2, Zenon DEF RecoveryInit, NoResult
  <2> QED BY <2>1 DEF Results
<1>6. RecoveryTypeOK
  BY <1>1, <1>3, <1>4, <1>5, RecoveryAssumption, RecoveryTypes DEF RecoveryInit
<1>7. CycleIsCurrent
  BY <1>3 DEF CycleIsCurrent
<1> QED BY <1>6, <1>7 DEF RecoveryInv

LEMMA RecoveryStep == RecoveryInv /\ [RecoveryNext]_recoveryVars => RecoveryInv'
<1> SUFFICES ASSUME RecoveryInv, [RecoveryNext]_recoveryVars PROVE RecoveryInv'
  OBVIOUS
<1>0. /\ keyed \in BOOLEAN
      /\ venueQty \in Quantities /\ localQty \in Quantities
      /\ unheard \in [Held -> -MaxHeld..MaxHeld] /\ unsent \in 0..MaxLost
      /\ quarantine \subseteq Items
      /\ cycle \in Cycles /\ recovery \in Recoveries /\ result \in Results
      /\ moved \subseteq Held
  BY RecoveryTypes DEF RecoveryInv
<1>z. Zero \in Quantities /\ ExMap \in Quantities
  BY <1>0, RecoveryAssumption DEF Zero, Quantities, ExMap
<1>1. ASSUME NEW a \in Held, NEW d \in {-1, 1}, VenueExecutes(a, d) PROVE RecoveryInv'
  <2>1. venueQty' \in Quantities
    BY <1>0, <1>1 DEF VenueExecutes, Quantities
  <2>2. unheard' \in [Held -> -MaxHeld..MaxHeld] /\ unsent' \in 0..MaxLost
    BY <1>0, <1>1, RecoveryAssumption DEF VenueExecutes
  <2>3. moved' \subseteq Held /\ UNCHANGED <<keyed, localQty, quarantine, cycle, recovery, result>>
    BY <1>0, <1>1 DEF VenueExecutes
  <2>4. cycle.running => moved \subseteq moved'
    BY <1>1 DEF VenueExecutes
  <2>5. RecoveryTypeOK'
    BY <1>0, <2>1, <2>2, <2>3, RecoveryTypesNext
  <2>6. CycleIsCurrent'
    BY <2>3, <2>4 DEF RecoveryInv, CycleIsCurrent
  <2> QED BY <2>5, <2>6 DEF RecoveryInv
<1>2. ASSUME NEW a \in Held, LocalHears(a) PROVE RecoveryInv'
  <2>1. localQty' \in Quantities
    BY <1>0, <1>2 DEF LocalHears, Quantities
  <2>2. unheard' \in [Held -> -MaxHeld..MaxHeld]
    BY <1>0, <1>2, RecoveryAssumption DEF LocalHears
  <2>3. moved' \subseteq Held /\ UNCHANGED <<keyed, venueQty, unsent, quarantine, cycle, recovery, result>>
    BY <1>0, <1>2 DEF LocalHears
  <2>4. cycle.running => moved' = moved \cup {a}
    BY <1>2 DEF LocalHears
  <2>5. \A b \in Held \ {a} : localQty'[b] = localQty[b]
    BY <1>0, <1>2 DEF LocalHears, Quantities
  <2>6. RecoveryTypeOK'
    BY <1>0, <2>1, <2>2, <2>3, RecoveryTypesNext
  <2>7. CycleIsCurrent'
    BY <2>3, <2>4, <2>5 DEF RecoveryInv, CycleIsCurrent
  <2> QED BY <2>6, <2>7 DEF RecoveryInv
<1>3. ASSUME ReconcileOnce PROVE RecoveryInv'
  <2>1. PICK b \in BOOLEAN : b = TRUE
    BY Zenon
  <2>2. cycle' = [running |-> b, local |-> localQty]
    BY <1>3, <2>1, Zenon DEF ReconcileOnce
  <2>3. cycle' \in Cycles /\ cycle'.local = localQty
    BY <1>0, <2>2 DEF Cycles
  <2>4. moved' = {} /\ UNCHANGED <<keyed, venueQty, localQty, unheard, unsent, quarantine, recovery, result>>
    BY <1>3 DEF ReconcileOnce
  <2>5. RecoveryTypeOK'
    BY <1>0, <2>3, <2>4, RecoveryTypesNext
  <2>6. CycleIsCurrent'
    BY <2>3, <2>4 DEF CycleIsCurrent
  <2> QED BY <2>5, <2>6 DEF RecoveryInv
<1>4. ASSUME Reconciled \/ FetchFails PROVE RecoveryInv'
  <2>1. PICK b \in BOOLEAN : b = FALSE
    BY Zenon
  <2>2. cycle' = [running |-> b, local |-> Zero]
    BY <1>4, <2>1, Zenon DEF Reconciled, FetchFails
  <2>3. cycle' \in Cycles /\ cycle'.running = b
    BY <1>z, <2>2 DEF Cycles
  <2>4. moved' = {} /\ UNCHANGED <<keyed, venueQty, localQty, unheard, unsent, recovery, result>>
    BY <1>4 DEF Reconciled, FetchFails
  <2>5. quarantine' \subseteq Items
    BY <1>0, <1>4 DEF Reconciled, FetchFails, Add, Compared, Items
  <2>6. RecoveryTypeOK'
    BY <1>0, <2>3, <2>4, <2>5, RecoveryTypesNext
  <2>7. CycleIsCurrent'
    BY <2>1, <2>3, Zenon DEF CycleIsCurrent
  <2> QED BY <2>6, <2>7 DEF RecoveryInv
<1>5. ASSUME ClearQuarantine \/ UNCHANGED recoveryVars PROVE RecoveryInv'
  <2>1. /\ quarantine' \subseteq Items
        /\ UNCHANGED <<keyed, venueQty, localQty, unheard, unsent, cycle, recovery, result, moved>>
    BY <1>0, <1>5 DEF ClearQuarantine, recoveryVars
  <2>2. RecoveryTypeOK'
    BY <1>0, <2>1, RecoveryTypesNext
  <2> QED BY <2>1, <2>2 DEF RecoveryInv, CycleIsCurrent
<1>6. ASSUME RecoverState \/ RecoverPositions \/ RecoverOrders PROVE RecoveryInv'
  <2>1. UNCHANGED <<keyed, venueQty, localQty, unheard, unsent, quarantine, cycle, moved>>
    BY <1>6 DEF RecoverState, RecoverPositions, RecoverOrders
  <2>2. recovery' \in Recoveries
    <3>1. CASE RecoverState
      <4>1. recovery' = [pc |-> "positions", local |-> localQty, venue |-> Zero]
        BY <3>1 DEF RecoverState
      <4> QED BY <1>0, <1>z, <4>1 DEF Recoveries
    <3>2. CASE RecoverPositions
      <4>1. recovery' = [recovery EXCEPT !.pc = "orders", !.venue = ExMap]
        BY <3>2 DEF RecoverPositions
      <4> QED BY <1>0, <1>z, <4>1 DEF Recoveries
    <3>3. CASE RecoverOrders
      <4>1. recovery' = [pc |-> "idle", local |-> Zero, venue |-> Zero]
        BY <3>3 DEF RecoverOrders
      <4> QED BY <1>z, <4>1 DEF Recoveries
    <3> QED BY <1>6, <3>1, <3>2, <3>3
  <2>3. result' \in Results
    <3>1. CASE RecoverState \/ RecoverPositions
      BY <1>0, <3>1 DEF RecoverState, RecoverPositions
    <3>2. CASE RecoverOrders
      <4> DEFINE wrong == {a \in Held : Delta(a) > 0}
      <4>1. PICK b \in BOOLEAN : b <=> (wrong # {} /\ Severe)
        BY Zenon
      <4>2. b = (wrong # {} /\ Severe)
        BY <4>1, Zenon
      <4>3. result' = [mismatched |-> wrong, flatten |-> b, exits |-> IF b THEN wrong ELSE {}]
        BY <3>2, <4>2, Zenon DEF RecoverOrders
      <4>4. wrong \subseteq Held
        OBVIOUS
      <4> HIDE DEF wrong
      <4> QED BY <4>3, <4>4 DEF Results
    <3> QED BY <1>6, <3>1, <3>2
  <2>4. RecoveryTypeOK'
    BY <1>0, <2>1, <2>2, <2>3, RecoveryTypesNext
  <2> QED BY <2>1, <2>4 DEF RecoveryInv, CycleIsCurrent
<1> QED BY <1>1, <1>2, <1>3, <1>4, <1>5, <1>6, Zenon DEF RecoveryNext

(* Both comparisons keep their arguments well-formed while executions and  *)
(* fills go on around their awaits.                                        *)
THEOREM RecoveryTypeCorrect == RecoverySpec => []RecoveryTypeOK
<1>1. RecoveryInv => RecoveryTypeOK
  BY DEF RecoveryInv
<1> QED BY RecoveryInitially, RecoveryStep, <1>1, PTL DEF RecoverySpec

LEMMA ComparisonIsRight ==
    ASSUME RecoveryInv, Reconciled, NEW a \in Held \ moved
    PROVE  /\ localQty[a] # 0 /\ venueQty[a] # localQty[a] => a \in quarantine'
           /\ localQty[a] = 0 /\ venueQty[a] = 0 => (a \in quarantine' => a \in quarantine)
<1>1. ExMap[a] = venueQty[a] \/ ExMap[a] = 0
  BY Zenon DEF ExMap, Zero
<1>2. localQty[a] = 0 /\ venueQty[a] = 0 => ExMap[a] = 0
  BY <1>1
<1>3. cycle.local[a] = localQty[a]
  BY DEF Reconciled, RecoveryInv, CycleIsCurrent
<1>4. a \in Compared <=> localQty[a] # ExMap[a]
  BY <1>3 DEF Compared
<1>5. quarantine' = quarantine \cup Compared
  BY DEF Reconciled, Add
<1> QED BY <1>1, <1>2, <1>4, <1>5

(* For either kind of adapter, any assets and quantities: what the local   *)
(* side holds and the venue does not is caught of every asset that stood   *)
(* still while the venue was awaited, and nothing that neither side holds  *)
(* is put in quarantine (reconciler.py:45-83).                             *)
THEOREM ReconciliationIsRight == RecoverySpec => HeldDisagreementIsCaught
<1>1. RecoveryInv /\ [RecoveryNext]_recoveryVars =>
        [Reconciled => \A a \in Held \ moved :
           /\ localQty[a] # 0 /\ venueQty[a] # localQty[a] => a \in quarantine'
           /\ localQty[a] = 0 /\ venueQty[a] = 0 => (a \in quarantine' => a \in quarantine)]_recoveryVars
  BY ComparisonIsRight, Zenon
<1> QED BY RecoveryInitially, RecoveryStep, <1>1, PTL DEF RecoverySpec, HeldDisagreementIsCaught

=============================================================================
