---------------------------- MODULE LearningGraph ----------------------------
(***************************************************************************)
(* The trade log of learning/graph.py: a JSON-Lines file shared by several  *)
(* writers, each of which holds a graph in memory, appends what is new,     *)
(* loads and repairs the file when it starts, rotates it when it is large   *)
(* and compacts it.  Appends, rotations and replacements happen under the   *)
(* flock of the sidecar file; reading the file does not.                    *)
(* A line is the record of one trade: its verdict and the context it is     *)
(* deduplicated by (strategy and verdict, so the verdict stands for both).  *)
(***************************************************************************)
EXTENDS Naturals, Sequences, FiniteSets, SequencesExt

CONSTANTS
    Writers,        \* processes that hold a LearningGraph on the file
    Trades,         \* trade ids
    Endings,       \* how a trade ended
    MaxTrades,     \* bound: add_trade calls of one process
    MaxCrashes,     \* bound: crashes
    MaxCompactions, \* bound: compactions
    RotateAt,       \* rotate_bytes, in lines
    Absent, Torn, Unknown  \* model values: no file, a malformed line, no history

Free == "free"
NoCtx == "no context"

Record == [trade : Trades, verdict : Endings, ctx : Endings \cup {NoCtx}]

ASSUME GraphAssumption ==
    /\ IsFiniteSet(Trades)
    /\ Free \notin Writers /\ NoCtx \notin Endings
    /\ Torn \notin Record /\ Absent \notin Seq(Record \cup {Torn})
    /\ \A keys \in SUBSET (Trades \X Endings) : keys # Unknown

VARIABLES
    live,       \* the live file: Absent, or a sequence of records and Torn lines
    ragged,     \* the live file ends without a newline
    archived,   \* the lines of the .gz archives
    lock,       \* who holds the flock, or Free
    graph,      \* per writer and trade: its node's verdict and its last edge's context
    flushed,    \* per writer: _flushed_keys
    pc,         \* per writer: where it is
    serialised,     \* per writer: lines serialised before the lock is taken
    acked,      \* history: records whose to_jsonl returned
    torn,       \* history: an append was cut within a line, or read like that
    records, crashes, compactions  \* counters of the bounds

graphVars == <<live, ragged, archived, lock, graph, flushed, pc, serialised,
               acked, torn, records, crashes, compactions>>

Key(r) == <<r.trade, r.verdict>>
Lines(file) == IF file = Absent THEN {} ELSE ToSet(file) \ {Torn}

NewNode == [verdict |-> NoCtx, ctx |-> NoCtx]
\* _edge_key reads the nodes, not the edge: one key per recorded trade.
EdgeKeys(g) == {<<t, g[t].verdict>> : t \in {u \in Trades : g[u].verdict # NoCtx}}

GraphInit ==
    /\ live = Absent
    /\ ragged = FALSE
    /\ archived = {}
    /\ lock = Free
    /\ graph = [w \in Writers |-> [t \in Trades |-> NewNode]]
    /\ flushed = [w \in Writers |-> Unknown]
    /\ pc = [w \in Writers |-> "down"]
    /\ serialised = [w \in Writers |-> <<>>]
    /\ acked = {}
    /\ torn = FALSE
    /\ records = [w \in Writers |-> 0]
    /\ crashes = 0
    /\ compactions = 0

Goto(w, place) == pc' = [pc EXCEPT ![w] = place]

(* _load: per (trade, context) the last line wins, and the keys are taken in *)
(* the order of their first lines, so the node of a trade ends up with the   *)
(* verdict of the key that appeared last.                                    *)
LinesOf(t, file) == {i \in 1 .. Len(file) : file[i] # Torn /\ file[i].trade = t}
WithContext(c, t, file) == {i \in LinesOf(t, file) : file[i].ctx = c}
FirstLines(t, file) ==
    {i \in LinesOf(t, file) : \A j \in WithContext(file[i].ctx, t, file) : i <= j}

Loaded(file) ==
    [t \in Trades |->
        LET c == file[Max(FirstLines(t, file))].ctx
        IN  IF LinesOf(t, file) = {} THEN NewNode
            ELSE [verdict |-> file[Max(WithContext(c, t, file))].verdict, ctx |-> c]]

\* The well-formed lines of a file, in their order.
Intact(file) ==
    LET at == {i \in 1 .. Len(file) : file[i] # Torn}
        nth(k) == CHOOSE i \in at : Cardinality(at \cap 1 .. i) = k
    IN  [k \in 1 .. Cardinality(at) |-> file[nth(k)]]

File == IF live = Absent THEN <<>> ELSE live

\* A line appended to a file without a last newline runs into its last line.
Appended(lines) ==
    IF ragged THEN Append(Front(File), Torn) \o SubSeq(lines, 2, Len(lines))
    ELSE File \o lines

\* What an append has written when it has come as far as the middle of a line.
Halves(lines) == {Appended(Append(SubSeq(lines, 1, n), Torn)) : n \in 0 .. Len(lines) - 1}

NeedsRotation == live # Absent /\ Len(live) >= RotateAt

(* The file is read without the lock, so an append under way may be seen    *)
(* half written.  What is read as damaged is to be put in its place without *)
(* the malformed lines, as it was read: a last line without a newline stays *)
(* without.                                                                 *)
Readings == {File} \cup UNION {Halves(serialised[v]) :
                                  v \in {u \in Writers : pc[u] = "append" /\ ~NeedsRotation}}

OpenGraph(w) ==
    /\ pc[w] = "down"
    /\ \E file \in Readings :
         /\ graph' = [graph EXCEPT ![w] = Loaded(file)]
         /\ torn' = (torn \/ file # File)
         /\ \/ /\ Torn \notin ToSet(file)
               /\ flushed' = [flushed EXCEPT ![w] =
                                 IF live = Absent THEN Unknown ELSE EdgeKeys(Loaded(file))]
               /\ Goto(w, "idle")
               /\ UNCHANGED serialised
            \/ /\ Torn \in ToSet(file)
               /\ serialised' = [serialised EXCEPT ![w] = Intact(file)]
               /\ Goto(w, IF ragged /\ Last(file) # Torn THEN "purge bare" ELSE "purge")
               /\ UNCHANGED flushed
    /\ UNCHANGED <<live, ragged, archived, lock, acked, records, crashes, compactions>>

\* The end of _load: the lines read before are put in place of the file.
Purge(w) ==
    /\ pc[w] \in {"purge", "purge bare"}
    /\ lock = Free
    /\ live' = serialised[w]
    /\ ragged' = (pc[w] = "purge bare")
    /\ serialised' = [serialised EXCEPT ![w] = <<>>]
    /\ flushed' = [flushed EXCEPT ![w] = EdgeKeys(graph[w])]
    /\ Goto(w, "idle")
    /\ UNCHANGED <<archived, lock, graph, acked, torn, records, crashes, compactions>>

\* Or LockAcquireTimeout comes out of the constructor, and there is no graph.
PurgeTimesOut(w) ==
    /\ pc[w] \in {"purge", "purge bare"}
    /\ lock # Free
    /\ graph' = [graph EXCEPT ![w] = [t \in Trades |-> NewNode]]
    /\ serialised' = [serialised EXCEPT ![w] = <<>>]
    /\ Goto(w, "down")
    /\ UNCHANGED <<live, ragged, archived, lock, flushed, acked, torn, records, crashes,
                   compactions>>

AddTrade(w, t, v) ==
    /\ pc[w] = "idle"
    /\ records[w] < MaxTrades
    /\ graph' = [graph EXCEPT ![w][t] = [verdict |-> v, ctx |-> NoCtx]]
    /\ records' = [records EXCEPT ![w] = @ + 1]
    /\ UNCHANGED <<live, ragged, archived, lock, flushed, pc, serialised, acked, torn,
                   crashes, compactions>>

(* to_jsonl: the new lines are serialised before the lock is taken.          *)
Pending(w) ==
    {[trade |-> k[1], verdict |-> k[2], ctx |-> k[2]] :
       k \in EdgeKeys(graph[w]) \ (IF flushed[w] = Unknown THEN {} ELSE flushed[w])}

ToJsonl(w) ==
    /\ pc[w] = "idle"
    /\ Pending(w) # {}
    /\ serialised' = [serialised EXCEPT ![w] = SetToSeq(Pending(w))]
    /\ Goto(w, "flush")
    /\ UNCHANGED <<live, ragged, archived, lock, graph, flushed, acked, torn, records,
                   crashes, compactions>>

Acquire(w) ==
    /\ pc[w] \in {"flush", "compact"}
    /\ lock = Free
    /\ lock' = w
    /\ Goto(w, IF pc[w] = "flush" THEN "append" ELSE "archive")
    /\ UNCHANGED <<live, ragged, archived, graph, flushed, serialised, acked, torn, records,
                   crashes, compactions>>

\* LockAcquireTimeout: somebody else kept the lock, nothing is written.
LockTimeout(w) ==
    /\ pc[w] \in {"flush", "compact"}
    /\ lock # Free
    /\ serialised' = [serialised EXCEPT ![w] = <<>>]
    /\ Goto(w, "idle")
    /\ UNCHANGED <<live, ragged, archived, lock, graph, flushed, acked, torn, records,
                   crashes, compactions>>

\* Mutant: the file is unlinked, not archived.
Unlink ==
    /\ archived' = archived
    /\ live' = Absent
    /\ ragged' = FALSE

\* _rotate_locked: the file is copied to an archive and unlinked.
Archive ==
    /\ archived' = archived \cup Lines(live)
    /\ live' = Absent
    /\ ragged' = FALSE

Rotate(w) ==
    /\ pc[w] = "append"
    /\ NeedsRotation
    /\ Archive
    /\ UNCHANGED <<lock, graph, flushed, pc, serialised, acked, torn, records, crashes, compactions>>

AppendLines(w) ==
    /\ pc[w] = "append"
    /\ ~NeedsRotation
    /\ live' = Appended(serialised[w])
    /\ ragged' = FALSE
    /\ lock' = Free
    /\ flushed' = [flushed EXCEPT ![w] =
                     EdgeKeys(graph[w]) \cup (IF @ = Unknown THEN {} ELSE @)]
    /\ acked' = acked \cup {Key(r) : r \in ToSet(serialised[w])}
    /\ serialised' = [serialised EXCEPT ![w] = <<>>]
    /\ Goto(w, "idle")
    /\ UNCHANGED <<archived, graph, torn, records, crashes, compactions>>

(* compact: the graph is deduplicated to one edge per trade, the last, and   *)
(* its lines take the edge's own context, which a fresh edge does not have.  *)
Deduped(w) ==
    {[trade |-> k[1], verdict |-> k[2], ctx |-> graph[w][k[1]].ctx] : k \in EdgeKeys(graph[w])}

Compact(w) ==
    /\ pc[w] = "idle"
    /\ compactions < MaxCompactions
    /\ serialised' = [serialised EXCEPT ![w] = SetToSeq(Deduped(w))]
    /\ compactions' = compactions + 1
    /\ Goto(w, "compact")
    /\ UNCHANGED <<live, ragged, archived, lock, graph, flushed, acked, torn, records, crashes>>

CompactArchive(w) ==
    /\ pc[w] = "archive"
    /\ Archive
    /\ Goto(w, "replace")
    /\ UNCHANGED <<lock, graph, flushed, serialised, acked, torn, records, crashes, compactions>>

CompactReplace(w) ==
    /\ pc[w] = "replace"
    /\ live' = serialised[w]
    /\ lock' = Free
    /\ flushed' = [flushed EXCEPT ![w] = EdgeKeys(graph[w])]
    /\ serialised' = [serialised EXCEPT ![w] = <<>>]
    /\ Goto(w, "idle")
    /\ UNCHANGED <<ragged, archived, graph, acked, torn, records, crashes, compactions>>

(* A crash at any point drops the lock and the memory.  An append is cut   *)
(* within a line, or after a line, which may lack its newline.             *)
Crash(w) ==
    /\ pc[w] # "down"
    /\ crashes < MaxCrashes
    /\ crashes' = crashes + 1
    /\ Goto(w, "down")
    /\ lock' = IF lock = w THEN Free ELSE lock
    /\ graph' = [graph EXCEPT ![w] = [t \in Trades |-> NewNode]]
    /\ flushed' = [flushed EXCEPT ![w] = Unknown]
    /\ serialised' = [serialised EXCEPT ![w] = <<>>]
    /\ \/ UNCHANGED <<live, ragged>>
       \/ /\ pc[w] = "append" /\ ~NeedsRotation
          /\ live' \in Halves(serialised[w]) /\ ragged' = TRUE
       \/ /\ pc[w] = "append" /\ ~NeedsRotation
          /\ \E n \in 1 .. Len(serialised[w]) : live' = Appended(SubSeq(serialised[w], 1, n))
          /\ ragged' \in BOOLEAN
    /\ torn' = (torn \/ ragged')
    /\ UNCHANGED <<archived, acked, records, compactions>>

GraphNext ==
    \E w \in Writers :
        \/ OpenGraph(w) \/ Purge(w) \/ PurgeTimesOut(w)
        \/ ToJsonl(w) \/ Acquire(w) \/ LockTimeout(w)
        \/ Rotate(w) \/ AppendLines(w)
        \/ Compact(w) \/ CompactArchive(w) \/ CompactReplace(w) \/ Crash(w)
        \/ \E t \in Trades, v \in Endings : AddTrade(w, t, v)

GraphSpec == GraphInit /\ [][GraphNext]_graphVars

-----------------------------------------------------------------------------
GraphTypeOK ==
    /\ live = Absent \/ live \in Seq(Record \cup {Torn})
    /\ ragged \in BOOLEAN
    /\ archived \subseteq Record
    /\ lock \in Writers \cup {Free}
    /\ graph \in [Writers -> [Trades -> [verdict : Endings \cup {NoCtx},
                                         ctx : Endings \cup {NoCtx}]]]
    /\ flushed \in [Writers -> {Unknown} \cup SUBSET (Trades \X Endings)]
    /\ pc \in [Writers -> {"down", "purge", "purge bare", "idle", "flush", "append", "compact",
                           "archive", "replace"}]
    /\ serialised \in [Writers -> Seq(Record)]
    /\ acked \subseteq Trades \X Endings
    /\ torn \in BOOLEAN

OnDisk == {Key(r) : r \in Lines(live) \cup archived}

\* What to_jsonl has returned for, and what a writer will not append again
\* because it takes it to be written, is in the live file or in an archive,
\* whoever rotates, compacts, crashes or repairs (docstring of graph.py:10-24).
\* Not once an append was torn: a repair replaces the file with what it read
\* before the others appended, and a line without a newline takes the next one
\* with it.
FlushedIsKept ==
    /\ acked \subseteq OnDisk
    /\ \A w \in Writers : flushed[w] # Unknown => flushed[w] \subseteq OnDisk

\* Short of that nothing is lost: neither rotations and compactions by writers
\* that serialised their lines before, nor crashes between the steps of either
\* or between the lines of an append, lose a record (graph.py:251-321, :498).
LossNeedsTear == ~torn => FlushedIsKept

\* The stronger promise, that the next load finds it, which a compaction by one
\* writer does not keep for the records of another (see the README).
FlushedIsLoaded == \A k \in acked : k[1] \in {r.trade : r \in Lines(live)}
=============================================================================
