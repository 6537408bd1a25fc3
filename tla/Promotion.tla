------------------------------ MODULE Promotion ------------------------------
(***************************************************************************)
(* The road to live trading: a shadow campaign records a day at a time      *)
(* (ops/shadow_campaign.py, ops/deployment_metrics.py), the Gate 1 report   *)
(* judges it (scripts/generate_gate1_report.py), and an operator who holds  *)
(* the verdicts of the tools (preflight_check, reconcile_report, the        *)
(* drills) asks promote_mode for the next execution mode.                   *)
(* Profits and losses are integers in hundredths of a percent.              *)
(***************************************************************************)
EXTENDS Integers, Sequences, FiniteSets, SequencesExt

CONSTANTS
    Days,           \* day records the campaign may produce: [pnl, slipped]
    MaxRecords,     \* bound: records of one campaign
    MaxDate,        \* bound: dates
    MaxRestarts,    \* bound: restarts of the recording process
    MinDays,        \* MIN_DAYS_REQUIRED, and the days of a GATE_1_PASS
    Window          \* --days, the records the report looks at

ASSUME PromotionAssumption ==
    /\ Days \subseteq [pnl : Int, slipped : BOOLEAN]
    /\ {MaxRecords, MaxDate, MinDays, Window} \subseteq Nat \ {0} /\ MaxRestarts \in Nat

VARIABLES
    campaign,   \* daily_records and metrics_history: records with their date
    today,      \* the date
    problems,   \* what is wrong in the world the tools look at
    evidence,   \* the tools whose last verdict was a pass
    judged,     \* history: the campaign of the last report that passed
    mode,       \* the execution mode
    restarts

promotionVars == <<campaign, today, problems, evidence, judged, mode, restarts>>

\* The defaults of the report: 6% expected, a deviation of 2%, a threshold of 3.
Expected == 600
StdDev == 200
ZThreshold == 3

\* The checks of a preflight that ask no mode: limits, database, Redis, withdrawals.
Problems == {"configuration", "credentials", "mismatch"}

PromotionInit ==
    /\ campaign = <<>>
    /\ today = 1
    /\ problems = Problems
    /\ evidence = {}
    /\ judged = <<>>
    /\ mode = "backtest"
    /\ restarts = 0

(* daily_z_score and lower_tail_breach over n days, without the root:        *)
(* (p - E/n) / (S/sqrt n) < -T.                                              *)
Underperforms(pnl, n) ==
    LET shortfall == Expected - pnl * n
    IN  /\ shortfall > 0
        /\ shortfall * shortfall > ZThreshold * ZThreshold * StdDev * StdDev * n

DayBreach(record, n) == Underperforms(record.pnl, n) \/ record.slipped

Streak(s, record, n) ==
    IF DayBreach(record, n)
    THEN [run |-> s.run + 1, max |-> IF s.run >= s.max THEN s.run + 1 ELSE s.max]
    ELSE [s EXCEPT !.run = 0]

MaxConsecutive(records) ==
    FoldLeft(LAMBDA s, record : Streak(s, record, Len(records)),
             [run |-> 0, max |-> 0], records).max

TotalPnl(records) == FoldLeft(LAMBDA sum, record : sum + record.pnl, 0, records)

\* Mutant: a fourth bad day in a row is needed.
HardStoppedLate(records) == MaxConsecutive(records) > 3

HardStopped(records) == MaxConsecutive(records) >= 3

CampaignStatus(records) ==
    LET failed == \/ HardStopped(records)
                  \/ TotalPnl(records) - Expected < -ZThreshold * StdDev
    IN  CASE records = <<>> -> "IN_PROGRESS"
          [] failed -> "GATE_1_FAIL"
          [] ~failed /\ Len(records) >= MinDays -> "GATE_1_PASS"
          [] OTHER -> "IN_PROGRESS"

Latest(records, n) ==
    IF Len(records) <= n THEN records ELSE SubSeq(records, Len(records) - n + 1, Len(records))

Gate1Report(records) ==
    IF Cardinality({r.date : r \in ToSet(records)}) < MinDays THEN "INSUFFICIENT_DATA"
    ELSE CampaignStatus(Latest(records, Window))

\* A record is appended whatever its date: per symbols there are several of a day.
RecordDay(d) ==
    /\ Len(campaign) < MaxRecords
    /\ campaign' = Append(campaign, [date |-> today, pnl |-> d.pnl, slipped |-> d.slipped])
    /\ UNCHANGED <<today, problems, evidence, judged, mode, restarts>>

NextDay ==
    /\ today < MaxDate
    /\ today' = today + 1
    /\ UNCHANGED <<campaign, problems, evidence, judged, mode, restarts>>

\* The history is a cache in memory that nothing fills from the database.
Restart ==
    /\ campaign # <<>>
    /\ restarts < MaxRestarts
    /\ restarts' = restarts + 1
    /\ campaign' = <<>>
    /\ UNCHANGED <<today, problems, evidence, judged, mode>>

Verdict(tool, passed) ==
    evidence' = IF passed THEN evidence \cup {tool} ELSE evidence \ {tool}

RunGate1(records) ==
    /\ Verdict("gate1", Gate1Report(records) = "GATE_1_PASS")
    /\ judged' = IF Gate1Report(records) = "GATE_1_PASS"
                 THEN records ELSE judged
    /\ UNCHANGED <<campaign, today, problems, mode, restarts>>

\* With the store of the running process, and the command, whose store is new.
Gate1OnStore == RunGate1(campaign)
Gate1Command == RunGate1(<<>>)

\* Exchange credentials are only asked for when the target is a live mode.
PreflightPasses(target) ==
    /\ "configuration" \notin problems
    /\ target \in {"live_restricted", "live_full"} => "credentials" \notin problems

Preflight(target) ==
    /\ Verdict("preflight", PreflightPasses(target))
    /\ UNCHANGED <<campaign, today, problems, judged, mode, restarts>>

\* The report counts no mismatch of any kind: its comparisons are not written.
ReconcileReport ==
    /\ Verdict("reconciliation", TRUE)
    /\ UNCHANGED <<campaign, today, problems, judged, mode, restarts>>

Drills ==
    /\ \E passed \in BOOLEAN : Verdict("drills", passed)
    /\ UNCHANGED <<campaign, today, problems, judged, mode, restarts>>

Mend(p) ==
    /\ p \in problems
    /\ problems' = problems \ {p}
    /\ UNCHANGED <<campaign, today, evidence, judged, mode, restarts>>

ValidTransitions ==
    {<<"backtest", "paper">>, <<"paper", "shadow">>, <<"shadow", "live_restricted">>,
     <<"live_restricted", "live_full">>}

Required(target) ==
    CASE target = "paper" -> {"preflight"}
      [] target = "shadow" -> {"preflight", "reconciliation"}
      [] OTHER -> {"preflight", "gate1", "reconciliation", "drills"}

\* The two optional statistics only count against a promotion: absent is as good.
PromoteExecutionMode(from, target, held, token, badPbo, badSharpe) ==
    /\ <<from, target>> \in ValidTransitions
    /\ Required(target) \subseteq held
    /\ target \in {"live_restricted", "live_full"} =>
         token /\ ~badPbo /\ ~badSharpe

\* The operator states the current mode truthfully; nothing else does.
Promote(target) ==
    /\ \E token, badPbo, badSharpe \in BOOLEAN :
          PromoteExecutionMode(mode, target, evidence, token, badPbo, badSharpe)
    /\ mode' = target
    /\ UNCHANGED <<campaign, today, problems, evidence, judged, restarts>>

PromotionNext ==
    \/ NextDay \/ Restart \/ Gate1OnStore \/ Gate1Command \/ ReconcileReport \/ Drills
    \/ \E d \in Days : RecordDay(d)
    \/ \E p \in problems : Mend(p)
    \/ \E target \in {"paper", "shadow", "live_restricted", "live_full"} :
          Preflight(target) \/ Promote(target)

PromotionSpec == PromotionInit /\ [][PromotionNext]_promotionVars

-----------------------------------------------------------------------------
Live == {"live_restricted", "live_full"}

DayRecord == [date : 1 .. MaxDate, pnl : Int, slipped : BOOLEAN]

PromotionTypeOK ==
    /\ campaign \in Seq(DayRecord) /\ today \in 1 .. MaxDate
    /\ problems \subseteq Problems
    /\ evidence \subseteq {"preflight", "gate1", "reconciliation", "drills"}
    /\ judged \in Seq(DayRecord)
    /\ mode \in {"backtest", "paper", "shadow"} \cup Live

\* Live trading, and a gate that is held as passed, rest on a campaign that was
\* one: it had MinDays different days, and the window the report judged had as
\* many records, no three bad ones in a row and no loss beyond the threshold,
\* however often the process restarted, whatever dates the records carry and in
\* whatever order the tools were run (generate_gate1_report.py:5-8).
LiveWasEarned ==
    LET window == Latest(judged, Window)
    IN  (mode \in Live \/ "gate1" \in evidence) =>
            /\ Cardinality({r.date : r \in ToSet(judged)}) >= MinDays
            /\ Len(window) >= MinDays
            /\ \A i \in 1 .. Len(window) - 2 :
                  \E j \in i .. i + 2 : ~DayBreach(window[j], Len(window))
            /\ TotalPnl(window) >= Expected - ZThreshold * StdDev

\* The days are counted over the whole campaign and the judgement looks at its
\* last records, which may all be of one day.
JudgedDaysDiffer ==
    (mode \in Live \/ "gate1" \in evidence) =>
        Cardinality({r.date : r \in ToSet(Latest(judged, Window))}) >= MinDays

\* The verdict is a flag the operator carries: the campaign may have gone bad,
\* or may have been forgotten at a restart, when live trading begins on it
\* (promote_mode.py:54-56).
VerdictIsCurrent ==
    [][mode' \in Live /\ mode' # mode => Gate1Report(campaign) = "GATE_1_PASS"]_promotionVars

\* A hard stop stays a hard stop as days are added to the campaign.  It does for
\* the days of the run, but not for every loss: each day is judged against the
\* expectation of the whole campaign so far, so a longer one may clear an old
\* breach, as days of -148 do (shadow_campaign.py:54-72).
HardStopSticks ==
    [][(HardStopped(campaign) /\ Len(campaign') > Len(campaign))
          => HardStopped(campaign')]_promotionVars

\* What the report's name and promote_mode.py:55-57 promise and the code does
\* not do: shadow trading begins with reconciled books.
ShadowIsReconciled == [][mode' = "shadow" /\ mode # mode' => "mismatch" \notin problems]_promotionVars
=============================================================================
