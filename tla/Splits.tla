------------------------------- MODULE Splits -------------------------------
(***************************************************************************)
(* How history is divided for validation: the causal purged splits of      *)
(* generate_cpcv_splits (src/src/trading/stats/cross_validation.py), and   *)
(* the folds of run_walk_forward (src/src/trading/walkforward/validator.py)*)
(* over assets whose candles have holes.                                   *)
(*                                                                         *)
(* A sample is a position in a list of times, the earliest first.  A       *)
(* backtest's numbers are an outcome of its fold.                          *)
(***************************************************************************)
EXTENDS Integers, Sequences, FiniteSets, SequencesExt

CONSTANTS
    Histories,      \* the lists of times, in bars
    Day,            \* bars in a day
    CpcvConfigs,    \* [folds, purge, embargo, minTrain, minTest], purge the sum of all windows
    WalkConfigs,    \* [train, validate, step], in days
    SplitAssets          \* the assets of the walk-forward

ASSUME SplitsAssumption ==
    /\ Day \in Nat \ {0} /\ SplitAssets # {}
    /\ \A h \in Histories : /\ h \in Seq(Int)
                            /\ \A i, j \in 1..Len(h) : i <= j => h[i] <= h[j]
    /\ \A c \in CpcvConfigs : /\ c.folds \in Nat \ {0, 1}
                              /\ c.minTest \in Nat \ {0} /\ c.purge \in Nat /\ c.embargo \in Nat
    /\ \A w \in WalkConfigs : w.step \in Nat \ {0} /\ w.train \in Nat /\ w.validate \in Nat

VARIABLES
    bars,           \* of each asset: its times
    cpcv,           \* the configuration and what generate_cpcv_splits returned
    walk            \* the configuration, the folds left and the results so far

splitsVars == <<bars, cpcv, walk>>

(* The asset whose length is everybody's, and whose splits are made.       *)
First == CHOOSE a \in SplitAssets : TRUE

Verdicts == {"SKIP", "PASS", "FAIL"}

SplitsTypeOK ==
    /\ bars \in [SplitAssets -> Histories]
    /\ cpcv.config \in CpcvConfigs /\ cpcv.outcome \in {"pending", "ValueError", "splits"}
    /\ walk.config \in WalkConfigs
    /\ \A r \in ToSet(walk.results) : r.verdict \in Verdicts

SplitsInit ==
    /\ bars \in [SplitAssets -> Histories]
    /\ \E c \in CpcvConfigs : cpcv = [config |-> c, outcome |-> "pending", splits |-> {}]
    /\ \E w \in WalkConfigs : walk = [config |-> w, results |-> <<>>]

----------------------------------------------------------------------------
(* generate_cpcv_splits                                                    *)

(* The samples of test block k, the embargo taken off its front when the   *)
(* block is longer than its minimum.                                       *)
TestBlock(n, c, k) ==
    LET size  == n \div c.folds
        start == k * size
        end   == IF k = c.folds - 1 THEN n ELSE start + size
    IN  IF c.embargo > 0 /\ end - start > c.minTest
        THEN (start + c.embargo + 1)..end ELSE (start + 1)..end

(* A bug: the purge counts samples instead of time.                        *)
TrainBySample(times, c, k) ==
    {i \in 1..(k * (Len(times) \div c.folds)) : i <= k * (Len(times) \div c.folds) - c.purge}

(* Everything before the block that is older than its first time less the  *)
(* purge.                                                                  *)
Train(times, c, k) ==
    LET start == k * (Len(times) \div c.folds)
    IN  {i \in 1..start : times[i] < times[start + 1] - c.purge * Day}

Split(times, c, k) == [train |-> Train(times, c, k), test |-> TestBlock(Len(times), c, k)]

GenerateCpcvSplits ==
    /\ cpcv.outcome = "pending"
    /\ LET c     == cpcv.config
           times == bars[First]
           all   == {Split(times, c, k) : k \in 1..c.folds - 1}
           good  == {s \in all : Cardinality(s.test) >= c.minTest /\ Cardinality(s.train) >= c.minTrain}
       IN  cpcv' = IF Len(times) < c.minTrain + c.minTest \/ good = {}
                   THEN [cpcv EXCEPT !.outcome = "ValueError"]
                   ELSE [cpcv EXCEPT !.outcome = "splits", !.splits = good]
    /\ UNCHANGED <<bars, walk>>

----------------------------------------------------------------------------
(* run_walk_forward                                                        *)

(* total_days_hint: the span over the first cadence, which counts bars.    *)
DaysHint(times) ==
    IF Len(times) < 2 THEN Len(times)
    ELSE LET span    == times[Len(times)] - times[1]
             cadence == times[2] - times[1]
             days    == (2 * span + cadence) \div (2 * cadence) + 1
         IN  IF cadence <= 0 THEN Len(times) ELSE IF days < 1 THEN 1 ELSE days

(* generate_folds: fold i, while its validation fits.                      *)
FoldAt(w, i) == [train |-> <<i * w.step, i * w.step + w.train>>,
                 valid |-> <<i * w.step + w.train, i * w.step + w.train + w.validate>>]
Fits(w, i, total) == i * w.step + w.train + w.validate <= total

(* _slice_candles_by_days: from the day's share of the list.               *)
SliceByDays(times, range) ==
    LET n      == Len(times)
        days   == IF DaysHint(times) > 1 THEN DaysHint(times) ELSE 1
        at(d)  == LET k == (d * n) \div days IN IF k < n THEN k ELSE n
    IN  (at(range[1]) + 1)..at(range[2])

MinNeeded(w) == (IF w.train > 50 THEN w.train ELSE 50) \div 2

(* One turn of the sweep: too little data, a backtest that raises, or a    *)
(* verdict.  The train slice is cut and not used.                          *)
NextFold ==
    LET w == walk.config
        i == Len(walk.results)
        fold == FoldAt(w, i)
        valid == [a \in SplitAssets |-> SliceByDays(bars[a], fold.valid)]
    IN  /\ Fits(w, i, DaysHint(bars[First]))
        /\ \E verdict \in IF \E a \in SplitAssets : Cardinality(valid[a]) < MinNeeded(w)
                          THEN {"SKIP"} ELSE Verdicts :
             walk' = [walk EXCEPT !.results = Append(@,
                        [verdict |-> verdict, valid |-> valid,
                         train |-> [a \in SplitAssets |-> SliceByDays(bars[a], fold.train)]])]
        /\ UNCHANGED <<bars, cpcv>>

SplitsNext == GenerateCpcvSplits \/ NextFold

SplitsSpec == SplitsInit /\ [][SplitsNext]_splitsVars

----------------------------------------------------------------------------
(* No sample a split trains on is within the purge of a sample it tests on,*)
(* whatever the spacing of the times, and no fold validates an asset on    *)
(* candles it trains on or on older ones (cross_validation.py:44-52,       *)
(* validator.py:55-62).                                                    *)
TrainPrecedesTest ==
    /\ \A s \in cpcv.splits : \A i \in s.train, j \in s.test :
         bars[First][i] + cpcv.config.purge * Day < bars[First][j]
    /\ \A r \in ToSet(walk.results) : \A a \in SplitAssets : \A i \in r.train[a], j \in r.valid[a] : i < j

(* cross_validation.py:50-53: the first embargo_days samples of each test  *)
(* block are dropped.  Not of a block of the minimal length.               *)
EmbargoIsDropped ==
    \A s \in cpcv.splits, k \in 1..cpcv.config.folds - 1 :
        s = Split(bars[First], cpcv.config, k) =>
            \A j \in s.test : j > k * (Len(bars[First]) \div cpcv.config.folds) + cpcv.config.embargo

(* A fold is one window of time: no asset is validated on times at which   *)
(* another is trained.  With holes the proportional slices drift apart.    *)
FoldsAlign ==
    \A r \in ToSet(walk.results) : \A a, b \in SplitAssets : \A i \in r.train[a], j \in r.valid[b] :
        bars[a][i] < bars[b][j]

(* A validation window as long as the configuration asks for is enough:    *)
(* MinNeeded is half the train window, and at least 25 bars.               *)
WholeWindowIsEnough ==
    \A r \in ToSet(walk.results) :
        (\A a \in SplitAssets : Cardinality(r.valid[a]) = walk.config.validate) => r.verdict # "SKIP"
=============================================================================
