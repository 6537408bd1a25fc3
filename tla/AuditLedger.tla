----------------------------- MODULE AuditLedger -----------------------------
(***************************************************************************)
(* The hash-chained audit log of security/audit_ledger.py: a chain in the   *)
(* memory of the process, and a copy in the database of every record whose  *)
(* insert did not fail.  The hash covers the previous hash and the event,   *)
(* so it is modelled, without collisions, by the events it stands for.      *)
(***************************************************************************)
EXTENDS Naturals, Sequences, FiniteSets, SequencesExt

CONSTANTS
    Events,         \* events: type and payload
    MaxEvents,      \* bound: events appended
    HasDatabase     \* is there a db_execute

VARIABLES
    chain,      \* self.chain
    rows,       \* the table audit_events, in the order of insertion
    lost,       \* history: inserts that failed
    starts      \* history: restarts after which an event was stored

ledgerVars == <<chain, rows, lost, starts>>

Genesis == <<>>
ComputeHash(prev, event) == Append(prev, event)

LedgerInit ==
    /\ chain = <<>>
    /\ rows = <<>>
    /\ lost = 0
    /\ starts = 0

\* Mutant: the previous hash is that of the last row stored.
NewRecordOnRows(event) ==
    LET prev == IF rows = <<>> THEN Genesis ELSE Last(rows).hash
    IN  [event |-> event, prev |-> prev, hash |-> ComputeHash(prev, event)]

NewRecord(event) ==
    LET prev == IF chain = <<>> THEN Genesis ELSE Last(chain).hash
    IN  [event |-> event, prev |-> prev, hash |-> ComputeHash(prev, event)]

\* A failed insert is logged, and the record stays in the chain.
AppendEvent(event) ==
    /\ Len(rows) + lost < MaxEvents
    /\ chain' = Append(chain, NewRecord(event))
    /\ starts' = IF chain = <<>> THEN starts + 1 ELSE starts
    /\ \/ /\ HasDatabase
          /\ rows' = Append(rows, NewRecord(event))
          /\ UNCHANGED lost
       \/ /\ lost' = lost + 1
          /\ UNCHANGED rows

\* The chain begins again; nothing reads the table back.
LedgerRestart ==
    /\ chain # <<>>
    /\ chain' = <<>>
    /\ UNCHANGED <<rows, lost, starts>>

LedgerNext == LedgerRestart \/ \E event \in Events : AppendEvent(event)

LedgerSpec == LedgerInit /\ [][LedgerNext]_ledgerVars

VerifyChainIntegrity(records) ==
    \A i \in 1 .. Len(records) :
        /\ records[i].prev = (IF i = 1 THEN Genesis ELSE records[i - 1].hash)
        /\ records[i].hash = ComputeHash(records[i].prev, records[i].event)

-----------------------------------------------------------------------------
Breaks(records) ==
    {i \in 1 .. Len(records) :
        records[i].prev # (IF i = 1 THEN Genesis ELSE records[i - 1].hash)}

\* The chain in memory verifies, and the stored one, which nothing verifies, is
\* broken in no more places than inserts failed and processes restarted: a break
\* that is not explained by one of them is a record that was altered.
BreaksAreExplained ==
    /\ VerifyChainIntegrity(chain)
    /\ Cardinality(Breaks(rows)) <= lost + (IF starts = 0 THEN 0 ELSE starts - 1)
=============================================================================
