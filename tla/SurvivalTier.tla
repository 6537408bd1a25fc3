---------------------------- MODULE SurvivalTier ----------------------------
(***************************************************************************)
(* SurvivalEngine (risk/survival.py) and the file backend of its tier      *)
(* state (risk/tier_state.py): daemons that evaluate the survival tier     *)
(* each cycle, save it through a temporary file, crash, restart and load   *)
(* it again.  Every engine runs in a process of its own and has a state    *)
(* file; engines may share it, for its path does not depend on their scope.*)
(*                                                                         *)
(* The account and the model forecasts only matter through the raw tier    *)
(* they evaluate to, which is an input here.                               *)
(***************************************************************************)
EXTENDS Naturals

CONSTANTS
  Engine,
  File,
  FileOf,       \* state_path of each engine
  MinDwell,     \* min_dwell_cycles
  SaveMayFail,  \* engines for which open, write or replace may raise OSError
  Unreadable    \* engines for which reading the file may raise OSError

ASSUME SurvivalAssumption ==
  /\ FileOf \in [Engine -> File]
  /\ MinDwell \in Nat \ {0}
  /\ SaveMayFail \subseteq Engine
  /\ Unreadable \subseteq Engine

VARIABLES
  tier,   \* tier_state.tier of each engine
  below,  \* tier_state.below_count
  raw,    \* the raw tier of its last cycle
  pc,     \* where its evaluation is in save_state
  up,     \* its process runs
  cache,  \* _LAST_KNOWN of its process, for its file
  file,   \* contents of each state file
  tmp,    \* contents of <file>.tmp
  told    \* the tier last returned to the caller, or recorded on the way

local == <<tier, below, raw, pc, up, told>>
disk  == <<file, tmp>>
vars  == <<local, cache, disk>>

NORMAL   == 0
CAUTION  == 1
SURVIVAL == 2
COOLDOWN == 3

Tier == NORMAL..COOLDOWN

\* A persisted TierState; what a file holds when it is not there, or was
\* opened for writing and not written.
Record(is, t, b) == [is |-> is, tier |-> t, below |-> b]

Content   == [is : {"state", "absent", "torn"}, tier : Tier,
              below : 0..MinDwell - 1]
Absent    == Record("absent", NORMAL, 0)
Torn      == Record("torn", NORMAL, 0)

default_state == Record("state", NORMAL, 0)

\* An unknown tier is taken as CAUTION by the constructor.
unknown_state == Record("state", CAUTION, 0)

\* open(tmp, "w"); write and close; os.replace.  A writer whose open file
\* another process has moved over the state file writes there, and into
\* nothing when that one is replaced as well.
Writing == {"opened", "opened as target", "opened, unlinked"}
Saving  == {"save", "written"} \cup Writing

TypeOK ==
  /\ tier \in [Engine -> Tier]
  /\ below \in [Engine -> 0..MinDwell - 1]
  /\ raw \in [Engine -> Tier]
  /\ pc \in [Engine -> {"idle"} \cup Saving]
  /\ up \in [Engine -> BOOLEAN]
  /\ cache \in [Engine -> Content]
  /\ file \in [File -> Content]
  /\ tmp \in [File -> Content]
  /\ told \in [Engine -> Tier]

Init ==
  /\ tier = [e \in Engine |-> NORMAL]
  /\ below = [e \in Engine |-> 0]
  /\ raw = [e \in Engine |-> NORMAL]
  /\ pc = [e \in Engine |-> "idle"]
  /\ up = [e \in Engine |-> TRUE]
  /\ cache = [e \in Engine |-> Absent]
  /\ file = [f \in File |-> Absent]
  /\ tmp = [f \in File |-> Absent]
  /\ told = [e \in Engine |-> NORMAL]

State(e) == Record("state", tier[e], below[e])

\* What an engine would load now.
Durable == [e \in Engine |->
  IF file[FileOf[e]].is = "state"
  THEN file[FileOf[e]] ELSE default_state]
-----------------------------------------------------------------------------
(* evaluate_survival_status                                                *)

\* Mutant: straight down to the raw tier.
AfterDirect(s, r) ==
  CASE r >= s.tier -> Record("state", r, 0)
    [] r < s.tier /\ s.below + 1 < MinDwell ->
         Record("state", s.tier, s.below + 1)
    [] r < s.tier /\ s.below + 1 >= MinDwell -> Record("state", r, 0)

\* The state after a cycle: up at once, down one level after MinDwell
\* calmer cycles in a row.
After(s, r) ==
  CASE r >= s.tier -> Record("state", r, 0)
    [] r < s.tier /\ s.below + 1 < MinDwell ->
         Record("state", s.tier, s.below + 1)
    [] r < s.tier /\ s.below + 1 >= MinDwell ->
         Record("state", s.tier - 1, 0)

\* One cycle; save_state begins with the cache.
Evaluate(e) ==
  /\ up[e]
  /\ pc[e] = "idle"
  /\ \E r \in Tier :
       LET s == After(State(e), r) IN
         /\ raw' = [raw EXCEPT ![e] = r]
         /\ tier' = [tier EXCEPT ![e] = s.tier]
         /\ below' = [below EXCEPT ![e] = s.below]
         /\ pc' = [pc EXCEPT ![e] = "save"]
         /\ cache' = [cache EXCEPT ![e] = s]
  /\ UNCHANGED <<up, told, disk>>

\* Mutant: the state file is written in place.
SaveOpensInPlace(e) ==
  /\ pc[e] = "save"
  /\ file' = [file EXCEPT ![FileOf[e]] = Torn]
  /\ pc' = [pc EXCEPT ![e] = "opened as target"]
  /\ UNCHANGED <<tier, below, raw, up, told, cache, tmp>>

SaveOpens(e) ==
  /\ pc[e] = "save"
  /\ tmp' = [tmp EXCEPT ![FileOf[e]] = Torn]
  /\ pc' = [pc EXCEPT ![e] = "opened"]
  /\ UNCHANGED <<tier, below, raw, up, told, cache, file>>

\* Over what another writer left in the same open file since, the result
\* may parse or not.
Written(e, before) ==
  IF before.is = "state" THEN {State(e), Torn} ELSE {State(e)}

SaveWrites(e) ==
  LET f == FileOf[e] IN
    /\ pc[e] \in Writing
    /\ \/ /\ pc[e] = "opened"
          /\ \E c \in Written(e, tmp[f]) : tmp' = [tmp EXCEPT ![f] = c]
          /\ UNCHANGED file
       \/ /\ pc[e] = "opened as target"
          /\ \E c \in Written(e, file[f]) : file' = [file EXCEPT ![f] = c]
          /\ UNCHANGED tmp
       \/ /\ pc[e] = "opened, unlinked"
          /\ UNCHANGED disk
    /\ pc' = [pc EXCEPT ![e] = "written"]
    /\ UNCHANGED <<tier, below, raw, up, told, cache>>

\* What the other writers' open files have become.
Moved(e, x) ==
  IF x = e THEN "idle"
  ELSE IF FileOf[x] # FileOf[e] THEN pc[x]
  ELSE CASE pc[x] = "opened" -> "opened as target"
         [] pc[x] = "opened as target" -> "opened, unlinked"
         [] OTHER -> pc[x]

SaveReplaces(e) ==
  LET f == FileOf[e] IN
    /\ pc[e] = "written"
    /\ tmp[f] # Absent
    /\ file' = [file EXCEPT ![f] = tmp[f]]
    /\ tmp' = [tmp EXCEPT ![f] = Absent]
    /\ pc' = [x \in Engine |-> Moved(e, x)]
    /\ told' = [told EXCEPT ![e] = tier[e]]
    /\ UNCHANGED <<tier, below, raw, up, cache>>

\* Mutant: a temporary file that is gone is not expected.
SaveFailsExpected(e) ==
  /\ e \in SaveMayFail
  /\ pc[e] \in Saving
  /\ pc' = [pc EXCEPT ![e] = "idle"]
  /\ told' = [told EXCEPT ![e] = tier[e]]
  /\ UNCHANGED <<tier, below, raw, up, cache, disk>>

\* OSError anywhere: the failure is logged and the tier returned.
SaveFails(e) ==
  /\ \/ e \in SaveMayFail /\ pc[e] \in Saving
     \/ pc[e] = "written" /\ tmp[FileOf[e]] = Absent
  /\ pc' = [pc EXCEPT ![e] = "idle"]
  /\ told' = [told EXCEPT ![e] = tier[e]]
  /\ UNCHANGED <<tier, below, raw, up, cache, disk>>
-----------------------------------------------------------------------------
(* Processes                                                               *)

\* Mutant: an unreadable file counts as no state.
LoadUnknownAsNormal(e) ==
  LET adopt(s) == /\ tier' = [tier EXCEPT ![e] = s.tier]
                  /\ below' = [below EXCEPT ![e] = s.below]
  IN /\ \/ adopt(Durable[e])
        \/ e \in Unreadable /\ adopt(default_state)
     /\ UNCHANGED cache

\* load_state in the constructor: no file and a corrupt one give NORMAL, an
\* unreadable one the process's last-known state.
Load(e) ==
  LET f == FileOf[e]
      adopt(s) == /\ tier' = [tier EXCEPT ![e] = s.tier]
                  /\ below' = [below EXCEPT ![e] = s.below]
  IN \/ /\ file[f].is # "state"
        /\ adopt(default_state)
        /\ UNCHANGED cache
     \/ /\ file[f].is = "state"
        /\ adopt(file[f])
        /\ cache' = [cache EXCEPT ![e] = file[f]]
     \/ /\ e \in Unreadable
        /\ adopt(IF cache[e] = Absent THEN unknown_state ELSE cache[e])
        /\ UNCHANGED cache

Crash(e) ==
  /\ up[e]
  /\ up' = [up EXCEPT ![e] = FALSE]
  /\ pc' = [pc EXCEPT ![e] = "idle"]
  /\ cache' = [cache EXCEPT ![e] = Absent]
  /\ UNCHANGED <<tier, below, raw, told, disk>>

Restart(e) ==
  /\ ~up[e]
  /\ Load(e)
  /\ up' = [up EXCEPT ![e] = TRUE]
  /\ UNCHANGED <<raw, pc, told, disk>>

\* A second engine for the same daemon in the same process.
Rebuild(e) ==
  /\ up[e]
  /\ pc[e] = "idle"
  /\ Load(e)
  /\ UNCHANGED <<raw, pc, up, told, disk>>
-----------------------------------------------------------------------------
Save(e) == SaveOpens(e) \/ SaveWrites(e) \/ SaveReplaces(e) \/ SaveFails(e)

Next ==
  \E e \in Engine :
    Evaluate(e) \/ Save(e) \/ Crash(e) \/ Restart(e) \/ Rebuild(e)

Spec == Init /\ [][Next]_vars

\* The heartbeat loop evaluates every interval, an evaluation returns, and a
\* supervisor restarts a dead daemon.
FairSpec ==
  /\ Spec
  /\ \A e \in Engine :
       WF_vars(Evaluate(e)) /\ WF_vars(Save(e)) /\ WF_vars(Restart(e))
-----------------------------------------------------------------------------
(* Properties                                                              *)

DurableTier ==
  [e \in Engine |-> IF e \in Unreadable THEN NORMAL ELSE Durable[e].tier]
DurableBelow ==
  [e \in Engine |-> IF e \in Unreadable THEN 0 ELSE Durable[e].below]

Ladder == INSTANCE SurvivalLadder
            WITH tier <- DurableTier, below <- DurableBelow

\* What is on a disk that can be read climbs and descends the ladder one
\* evaluation at a time, wherever processes crash and however often they
\* restart: restarts do not cheat the dwell (save_state after every cycle).
ImplementsLadder == Ladder!LadderSpec

\* A restarted daemon that can read its file resumes at the tier its caller
\* was last told, so that a restart cannot reset a defended tier
\* (SurvivalEngine.__init__).
RestartKeepsTier ==
  [][\A e \in Engine \ Unreadable :
       ~up[e] /\ up'[e] => tier'[e] = told[e]]_vars

\* Even if the file cannot be read, a daemon that was defending restarts in a
\* defended tier, never in NORMAL.
DefenceSurvivesRestart ==
  [][\A e \in Engine :
       ~up[e] /\ up'[e] /\ told[e] >= CAUTION => tier'[e] >= CAUTION]_vars

\* An engine built again in a running process is at least as defensive as the
\* state its process last knew (load_state and the in-process cache).
RebuildKeepsDefence ==
  [][\A e \in Engine :
       up[e] /\ pc[e] = "idle" /\ pc'[e] = "idle" /\ UNCHANGED raw
       /\ cache[e].is = "state" /\ up'[e] => tier'[e] >= cache[e].tier]_vars

\* Capital defence ends: once every cycle evaluates to NORMAL in an engine
\* that stays up, it steps down to NORMAL, whether or not its saves succeed.
CalmReachesNormal ==
  \A e \in Engine :
    <>[](up[e] /\ raw[e] = NORMAL) /\ <>[][~Rebuild(e)]_vars
      => <>[](tier[e] = NORMAL)
=============================================================================
