------------------------------ MODULE Alerting -------------------------------
(***************************************************************************)
(* The alert manager of ops/alert_manager.py: a breached rule is accepted   *)
(* unless its cooldown window is open, its count may raise the severity,    *)
(* cooldown and count are persisted, and only then is the page posted,      *)
(* channel by channel, with retries for an emergency.  Cooldowns and counts *)
(* live in a JSON file that one daemon loads when it starts, or in Redis,   *)
(* shared by all daemons.  Times are ages: how long ago, up to Cooldown.    *)
(***************************************************************************)
EXTENDS Naturals, Sequences

CONSTANTS
    Daemons,        \* processes with an AlertManager
    Rules,          \* alert rules, all of them breached all the time
    BaseSeverity,   \* the severity of each rule
    Channels,       \* configured channels, in the order they are posted to
    Cooldown,       \* cooldown_sec, in ticks
    MaxStoreFaults  \* bound: failed accesses to the store

ASSUME CooldownAssumption == Cooldown \in Nat

\* Without a webhook or Slack the log is the channel.
ASSUME ChannelsAssumption == \E i \in 1 .. Len(Channels) : Channels[i] # "pagerduty"

VARIABLES
    backend,    \* which cooldown store all daemons use: "file" or "redis"
    daemon,     \* per daemon: is it up, its last_alert_time (as ages), its counts
    stored,     \* the file's, or Redis's, ages and counts
    page,       \* per daemon: the page being posted, or NoPage
    lastAge,    \* history, per rule: age of the last accepted alert
    hits,       \* history, per rule: accepted alerts, up to CountCap of it
    heard,      \* history: rules somebody was paged for since the last tick
    storeFaults

alertVars == <<backend, daemon, stored, page, lastAge, hits, heard, storeFaults>>

NoPage == [rule |-> "none"]

\* The page of an alert that Redis has not counted yet.
Uncounted(r) == [rule |-> r, severity |-> "uncounted", attempt |-> 1, queue |-> Channels]
Counting(d) == page[d] # NoPage /\ page[d].severity = "uncounted"
Posting(d) == page[d] # NoPage /\ page[d].severity # "uncounted"

\* Counts matter up to the threshold of escalate_severity for the rule.
CountCap(r) == CASE BaseSeverity[r] = "WARNING" -> 3
                 [] BaseSeverity[r] = "CRITICAL" -> 5
                 [] OTHER -> 0
Counted(count, r) == [count EXCEPT ![r] = IF @ < CountCap(r) THEN @ + 1 ELSE @]

Forgotten == [age |-> [r \in Rules |-> Cooldown], count |-> [r \in Rules |-> 0]]

Remembered(seen) == [up |-> TRUE, age |-> seen.age, count |-> seen.count]

AlertInit ==
    /\ backend \in {"file", "redis"}
    /\ daemon = [d \in Daemons |-> [Remembered(Forgotten) EXCEPT !.up = FALSE]]
    /\ stored = Forgotten
    /\ page = [d \in Daemons |-> NoPage]
    /\ lastAge = [r \in Rules |-> Cooldown]
    /\ hits = [r \in Rules |-> 0]
    /\ heard = {}
    /\ storeFaults = 0

StoreFails == storeFaults < MaxStoreFaults /\ storeFaults' = storeFaults + 1

\* An unreadable store leaves the daemon without any memory.  The file serves
\* one process at a time (the backend's "single-process cooldowns").
Boot(d) ==
    /\ ~daemon[d].up
    /\ backend = "file" => \A e \in Daemons : ~daemon[e].up
    /\ \/ /\ daemon' = [daemon EXCEPT ![d] =
                          Remembered(IF backend = "file" THEN stored ELSE Forgotten)]
          /\ UNCHANGED storeFaults
       \/ /\ daemon' = [daemon EXCEPT ![d] = Remembered(Forgotten)]
          /\ StoreFails /\ backend = "file"
    /\ UNCHANGED <<backend, stored, page, lastAge, hits, heard>>

\* Mutant: a window of the whole cooldown and more never ends.
WindowStaysOpen(r, age) == BaseSeverity[r] # "EMERGENCY" /\ age[r] <= Cooldown

\* The window is looked up under the rule's own severity: an alert that the
\* count would escalate to EMERGENCY is suppressed like any other.
WindowOpen(r, age) == BaseSeverity[r] # "EMERGENCY" /\ age[r] < Cooldown

Escalated(severity, count) ==
    CASE count >= 3 /\ severity = "WARNING" -> "CRITICAL"
      [] count >= 5 /\ severity = "CRITICAL" -> "EMERGENCY"
      [] OTHER -> severity

\* PagerDuty only takes critical pages.
ChannelsFor(severity) ==
    SelectSeq(Channels, LAMBDA c : c = "pagerduty" => severity \in {"CRITICAL", "EMERGENCY"})

MaxTries(severity) == IF severity = "EMERGENCY" THEN 3 ELSE 1

PageFor(d, r, count) ==
    LET severity == Escalated(BaseSeverity[r], count)
    IN  page' = [page EXCEPT ![d] = [rule |-> r, severity |-> severity, attempt |-> 1,
                                     queue |-> ChannelsFor(severity)]]

\* Mutant: the snapshot is taken before the alert is counted.
SnapshotBefore(d, r) ==
    [age |-> [daemon[d].age EXCEPT ![r] = 0], count |-> daemon[d].count]

\* The snapshot is the whole memory of the daemon, after counting this alert.
Snapshot(d, r) ==
    [age |-> [daemon[d].age EXCEPT ![r] = 0], count |-> Counted(daemon[d].count, r)]

AcceptWithFile(d, r) ==
    /\ backend = "file"
    /\ ~WindowOpen(r, daemon[d].age)
    /\ LET new == Snapshot(d, r)
       IN  /\ daemon' = [daemon EXCEPT ![d] = Remembered(new)]
           /\ \/ stored' = new /\ UNCHANGED storeFaults
              \/ StoreFails /\ UNCHANGED stored
           /\ PageFor(d, r, new.count[r])
    /\ hits' = Counted(hits, r)

\* With Redis, SET NX PX takes the window (an emergency needs none); when it
\* fails the alert goes through.  The memory of the daemon is written too but
\* never read, and is left out.
TakeWindow(d, r) ==
    /\ backend = "redis"
    /\ \/ /\ ~WindowOpen(r, stored.age)
          /\ stored' = [stored EXCEPT !.age[r] = IF BaseSeverity[r] = "EMERGENCY" THEN @ ELSE 0]
          /\ UNCHANGED storeFaults
       \/ BaseSeverity[r] # "EMERGENCY" /\ StoreFails /\ UNCHANGED stored
    /\ page' = [page EXCEPT ![d] = Uncounted(r)]
    /\ UNCHANGED <<daemon, hits>>

\* HINCRBY, a command of its own: when it fails the alert counts as none.
CountAlert(d, r) ==
    /\ backend = "redis"
    /\ Counting(d)
    /\ page[d].rule = r
    /\ \/ LET counted == Counted(stored.count, r)
          IN  /\ stored' = [stored EXCEPT !.count = counted]
              /\ PageFor(d, r, counted[r])
              /\ UNCHANGED storeFaults
       \/ PageFor(d, r, 0) /\ StoreFails /\ UNCHANGED stored
    /\ hits' = Counted(hits, r)
    /\ UNCHANGED <<backend, daemon, lastAge, heard>>

\* evaluate_metric for a breached rule, up to the posting of the page or, with
\* Redis, up to the command that counts the alert.
EvaluateMetric(d, r) ==
    /\ daemon[d].up
    /\ page[d] = NoPage
    /\ AcceptWithFile(d, r) \/ TakeWindow(d, r)
    /\ lastAge' = [lastAge EXCEPT ![r] = 0]
    /\ UNCHANGED <<backend, heard>>

NextChannel(p) ==
    IF Len(p.queue) = 1 THEN NoPage ELSE [p EXCEPT !.queue = Tail(@), !.attempt = 1]

Posted(d, r) ==
    /\ Posting(d)
    /\ page[d].rule = r
    /\ page' = [page EXCEPT ![d] = NextChannel(@)]
    /\ heard' = heard \cup {r}
    /\ UNCHANGED <<backend, daemon, stored, lastAge, hits, storeFaults>>

PostFails(d) ==
    /\ Posting(d)
    /\ page' = [page EXCEPT ![d] = IF @.attempt < MaxTries(@.severity)
                                   THEN [page[d] EXCEPT !.attempt = @ + 1] ELSE NextChannel(@)]
    /\ UNCHANGED <<backend, daemon, stored, lastAge, hits, heard, storeFaults>>

Aged(age) == [r \in Rules |-> IF age[r] < Cooldown THEN age[r] + 1 ELSE Cooldown]

AlertTick ==
    /\ daemon' = [d \in Daemons |-> [daemon[d] EXCEPT !.age = Aged(@)]]
    /\ stored' = [stored EXCEPT !.age = Aged(@)]
    /\ lastAge' = Aged(lastAge)
    /\ heard' = {}
    /\ UNCHANGED <<backend, page, hits, storeFaults>>

DaemonCrash(d) ==
    /\ daemon[d].up
    /\ daemon' = [daemon EXCEPT ![d] = [Remembered(Forgotten) EXCEPT !.up = FALSE]]
    /\ page' = [page EXCEPT ![d] = NoPage]
    /\ UNCHANGED <<backend, stored, lastAge, hits, heard, storeFaults>>

AlertNext ==
    \/ AlertTick
    \/ \E d \in Daemons :
        \/ Boot(d) \/ PostFails(d) \/ DaemonCrash(d)
        \/ \E r \in Rules : EvaluateMetric(d, r) \/ CountAlert(d, r) \/ Posted(d, r)

AlertSpec == AlertInit /\ [][AlertNext]_alertVars

-----------------------------------------------------------------------------
AlertTypeOK ==
    /\ backend \in {"file", "redis"}
    /\ daemon \in [Daemons -> [up : BOOLEAN, age : [Rules -> 0 .. Cooldown],
                               count : [Rules -> 0 .. 5]]]
    /\ stored \in [age : [Rules -> 0 .. Cooldown], count : [Rules -> 0 .. 5]]
    /\ lastAge \in [Rules -> 0 .. Cooldown]
    /\ hits \in [Rules -> 0 .. 5]
    /\ heard \subseteq Rules
    /\ \A d \in Daemons : page[d] = NoPage \/ page[d].queue # <<>>

\* As long as the store works, an alert that is accepted respects the window and
\* the escalation of everything accepted before it, by any daemon and across
\* restarts: its rule was last accepted a full cooldown ago, unless it is an
\* emergency, and it is posted with the severity of its place in the count.
AlertMemorySurvives ==
    [][\A d \in Daemons :
          (page'[d] # page[d] /\ page'[d] # NoPage /\ storeFaults' = 0) =>
              LET r == page'[d].rule
              IN  /\ page[d] = NoPage => BaseSeverity[r] = "EMERGENCY" \/ lastAge[r] = Cooldown
                  /\ ~Posting(d) /\ Posting(d)'
                       => page'[d].severity = Escalated(BaseSeverity[r], hits'[r])]_alertVars

\* A rule that stays breached is paged again and again, however often a daemon
\* crashes between the cooldown it recorded and the page it then posts.
BreachIsPaged == \A r \in Rules : []<>(r \in heard)
=============================================================================
