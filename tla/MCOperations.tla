---------------------------- MODULE MCOperations ----------------------------
(* What runs beside the trading itself, one unit of it at a time: the units *)
(* keep no state in common, so a behaviour of the run is one of a unit.     *)
EXTENDS Alerting, AuditLedger, ApiSessions, StrategyDefense

VARIABLE unit   \* the unit that runs

MCBaseSeverity == [r \in Rules |-> IF r = "recon" THEN "EMERGENCY" ELSE "CRITICAL"]
MCChannels == <<"slack", "pagerduty">>
MCLevel == 1..2

Units == {"alerts", "audit", "logins", "config", "defense"}

MCVars == <<unit, alertVars, ledgerVars, apiVars, vars>>

MCInit ==
  /\ unit \in Units
  /\ LedgerInit /\ ApiInit
  /\ AlertInit /\ (unit # "alerts" => backend = "file")
  /\ Init /\ (unit # "defense" => price = 1)

Alerts   == /\ unit = "alerts" /\ AlertNext
            /\ UNCHANGED <<unit, ledgerVars, apiVars, vars>>
Audit    == /\ unit = "audit" /\ LedgerNext
            /\ UNCHANGED <<unit, alertVars, apiVars, vars>>
\* Logins race each other, or after one login, which takes no time, updates of the
\* configuration do.
LoginsOnly == /\ tokens' = <<>>
              /\ \A w \in Threads : request'[w].at # "authorised"
OneLogin   == \A w \in Threads :
                LoggingIn(w)' => /\ request'[w].age = 0 /\ tokens = <<>>
                                 /\ \A c \in Clients : Len(allowed'[c]) <= 1
Sessions == /\ unit \in {"logins", "config"} /\ ApiNext
            /\ IF unit = "logins" THEN LoginsOnly ELSE OneLogin
            /\ UNCHANGED <<unit, alertVars, ledgerVars, vars>>
Defense  == /\ unit = "defense" /\ Next
            /\ UNCHANGED <<unit, alertVars, ledgerVars, apiVars>>

MCNext == Alerts \/ Audit \/ Sessions \/ Defense

(* Fairness, which only asks something of the unit that runs: a daemon comes*)
(* up again, metrics are evaluated again and again, posting does not fail   *)
(* for ever; the posture is evaluated again and again, and time passes.     *)
MCFairness ==
  /\ WF_alertVars(unit = "alerts" /\ AlertTick)
  /\ WF_alertVars(unit = "alerts" /\ \E d \in Daemons : Boot(d))
  /\ \A r \in Rules : /\ SF_alertVars(unit = "alerts" /\ \E d \in Daemons : EvaluateMetric(d, r))
                      /\ SF_alertVars(unit = "alerts" /\ \E d \in Daemons : CountAlert(d, r))
                      /\ SF_alertVars(unit = "alerts" /\ \E d \in Daemons : Posted(d, r))
  /\ WF_vars(unit = "defense" /\ AnyEvaluate)
  /\ WF_vars(unit = "defense" /\ TimePasses)

MCSpec == MCInit /\ [][MCNext]_MCVars /\ MCFairness

-----------------------------------------------------------------------------
(* A rule that stays breached is paged again and again, however often a     *)
(* daemon crashes between the cooldown it recorded and the page it then     *)
(* posts (alert_manager.py, evaluate_metric): Alerting's BreachIsPaged.     *)
BreachesArePaged == unit = "alerts" => BreachIsPaged
=============================================================================
