--------------------------- MODULE SurvivalLadder ---------------------------
(***************************************************************************)
(* What SurvivalEngine promises of the tier it holds: up at once and by    *)
(* any number of levels, down one level at a time and only after           *)
(* min_dwell_cycles calmer cycles in a row.  Nothing here restarts.        *)
(***************************************************************************)
EXTENDS Naturals

CONSTANTS
  Engine,
  MinDwell   \* min_dwell_cycles, positive

VARIABLES tier, below

NORMAL   == 0
CAUTION  == 1
SURVIVAL == 2
COOLDOWN == 3

Tier == NORMAL..COOLDOWN

LadderInit ==
  /\ tier = [e \in Engine |-> NORMAL]
  /\ below = [e \in Engine |-> 0]

Escalate(e) ==
  /\ \E t \in Tier : t > tier[e] /\ tier' = [tier EXCEPT ![e] = t]
  /\ below' = [below EXCEPT ![e] = 0]

StepDown(e) ==
  /\ tier[e] > NORMAL
  /\ below[e] + 1 >= MinDwell
  /\ tier' = [tier EXCEPT ![e] = tier[e] - 1]
  /\ below' = [below EXCEPT ![e] = 0]

Hold(e) ==
  /\ tier' = tier
  /\ \/ /\ tier[e] > NORMAL
        /\ below[e] + 1 < MinDwell
        /\ below' = [below EXCEPT ![e] = below[e] + 1]
     \/ below' = [below EXCEPT ![e] = 0]

LadderNext == \E e \in Engine : Escalate(e) \/ StepDown(e) \/ Hold(e)

LadderSpec == LadderInit /\ [][LadderNext]_<<tier, below>>
=============================================================================
