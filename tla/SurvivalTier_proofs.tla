------------------------- MODULE SurvivalTier_proofs -------------------------
(***************************************************************************)
(* Proofs about SurvivalTier, for any engines, files and dwell.  The types *)
(* hold whoever shares a file.  When each engine has a state file of its   *)
(* own and no save fails, what is on the disks climbs and descends the     *)
(* ladder through crashes and restarts, and no restart resets a defence.   *)
(***************************************************************************)
EXTENDS SurvivalTier, TLAPS

USE SurvivalAssumption
USE DEF NORMAL, CAUTION, SURVIVAL, COOLDOWN, Tier, Record, Absent, Torn,
        default_state, unknown_state

-----------------------------------------------------------------------------
(* Records and one cycle                                                   *)

LEMMA Contents ==
  /\ Absent \in Content /\ Torn \in Content
  /\ default_state \in Content /\ unknown_state \in Content
  /\ \A s \in Content : s.tier \in Tier /\ s.below \in 0..MinDwell - 1
BY DEF Content

LEMMA StateContent ==
  ASSUME TypeOK, NEW e \in Engine
  PROVE  State(e) \in Content /\ State(e).is = "state"
BY DEF State, Content, TypeOK

LEMMA AfterContent ==
  ASSUME NEW s \in Content, NEW r \in Tier
  PROVE  After(s, r) \in Content /\ After(s, r).is = "state"
<1>1. s.tier \in 0..3 /\ s.below \in 0..MinDwell - 1 /\ MinDwell \in Nat \ {0}
  BY DEF Content
<1>2. CASE r >= s.tier
  BY <1>1, <1>2 DEF After, Content
<1>3. CASE r < s.tier /\ s.below + 1 < MinDwell
  BY <1>1, <1>3 DEF After, Content
<1>4. CASE r < s.tier /\ ~(s.below + 1 < MinDwell)
  BY <1>1, <1>4 DEF After, Content
<1> QED
  BY <1>1, <1>2, <1>3, <1>4
-----------------------------------------------------------------------------
(* Type correctness                                                        *)

LEMMA EvaluateTypeOK ==
  ASSUME TypeOK, NEW e \in Engine, Evaluate(e)
  PROVE  TypeOK'
<1>1. PICK r \in Tier :
        /\ raw' = [raw EXCEPT ![e] = r]
        /\ tier' = [tier EXCEPT ![e] = After(State(e), r).tier]
        /\ below' = [below EXCEPT ![e] = After(State(e), r).below]
        /\ pc' = [pc EXCEPT ![e] = "save"]
        /\ cache' = [cache EXCEPT ![e] = After(State(e), r)]
  BY DEF Evaluate
<1>2. After(State(e), r) \in Content
  BY StateContent, AfterContent
<1>3. After(State(e), r).tier \in Tier /\ After(State(e), r).below \in 0..MinDwell - 1
  BY <1>2, Contents
<1> QED
  BY <1>1, <1>2, <1>3 DEF Evaluate, TypeOK, Saving, disk

LEMMA SaveTypeOK ==
  ASSUME TypeOK, NEW e \in Engine, Save(e)
  PROVE  TypeOK'
<1> USE DEF Saving, Writing
<1>1. FileOf[e] \in File
  OBVIOUS
<1>2. CASE SaveOpens(e)
  BY <1>1, <1>2, Contents DEF SaveOpens, TypeOK
<1>3. CASE SaveWrites(e)
  <2>1. \A c : Written(e, c) \subseteq Content
    BY StateContent, Contents DEF Written
  <2>2. tmp' \in [File -> Content] /\ file' \in [File -> Content]
    <3>1. \/ \E c \in Content :
               tmp' = [tmp EXCEPT ![FileOf[e]] = c] /\ file' = file
          \/ \E c \in Content :
               file' = [file EXCEPT ![FileOf[e]] = c] /\ tmp' = tmp
          \/ tmp' = tmp /\ file' = file
      BY <1>3, <2>1 DEF SaveWrites, disk
    <3>2. tmp \in [File -> Content] /\ file \in [File -> Content]
      BY DEF TypeOK
    <3> QED
      BY <1>1, <3>1, <3>2
  <2> QED
    BY <1>3, <2>2 DEF SaveWrites, TypeOK
<1>4. CASE SaveReplaces(e)
  <2>1. pc' \in [Engine -> {"idle"} \cup Saving]
    <3>1. \A x \in Engine : Moved(e, x) \in {"idle"} \cup Saving
      BY DEF Moved, TypeOK
    <3> QED
      BY <1>4, <3>1 DEF SaveReplaces
  <2> QED
    BY <1>1, <1>4, <2>1, Contents DEF SaveReplaces, TypeOK
<1>5. CASE SaveFails(e)
  BY <1>5 DEF SaveFails, TypeOK, disk
<1> QED
  BY <1>2, <1>3, <1>4, <1>5 DEF Save

\* What a load adopts is a state, and from where.
LEMMA LoadAdopts ==
  ASSUME TypeOK, NEW e \in Engine, Load(e)
  PROVE  \E s \in Content :
           /\ tier' = [tier EXCEPT ![e] = s.tier]
           /\ below' = [below EXCEPT ![e] = s.below]
           /\ \/ s = Durable[e]
              \/ /\ e \in Unreadable
                 /\ s = IF cache[e] = Absent THEN unknown_state ELSE cache[e]
           /\ \/ UNCHANGED cache
              \/ cache' = [cache EXCEPT ![e] = s]
<1>1. file[FileOf[e]] \in Content /\ cache[e] \in Content
  BY DEF TypeOK
<1>2. Durable[e] = IF file[FileOf[e]].is = "state"
                   THEN file[FileOf[e]] ELSE default_state
  BY DEF Durable
<1> QED
  BY <1>1, <1>2, Contents, Zenon DEF Load

LEMMA ProcessTypeOK ==
  ASSUME TypeOK, NEW e \in Engine, Crash(e) \/ Restart(e) \/ Rebuild(e)
  PROVE  TypeOK'
<1>1. CASE Crash(e)
  BY <1>1, Contents DEF Crash, TypeOK, disk
<1>2. CASE Restart(e) \/ Rebuild(e)
  <2>1. Load(e)
    BY <1>2 DEF Restart, Rebuild
  <2>2. PICK s \in Content :
          /\ tier' = [tier EXCEPT ![e] = s.tier]
          /\ below' = [below EXCEPT ![e] = s.below]
          /\ \/ UNCHANGED cache
             \/ cache' = [cache EXCEPT ![e] = s]
    BY <2>1, LoadAdopts
  <2>3. s.tier \in Tier /\ s.below \in 0..MinDwell - 1
    BY Contents
  <2> QED
    BY <1>2, <2>2, <2>3 DEF Restart, Rebuild, TypeOK, disk
<1> QED
  BY <1>1, <1>2

LEMMA InitTypeOK == Init => TypeOK
<1>1. MinDwell \in Nat \ {0}
  OBVIOUS
<1> QED
  BY <1>1, Contents DEF Init, TypeOK

LEMMA NextTypeOK ==
  ASSUME TypeOK, [Next]_vars
  PROVE  TypeOK'
<1>1. CASE UNCHANGED vars
  BY <1>1 DEF vars, local, disk, TypeOK
<1> QED
  BY <1>1, EvaluateTypeOK, SaveTypeOK, ProcessTypeOK DEF Next

\* The engines, their processes and the state files keep their types, also
\* when engines share a file and saves fail half-way.
THEOREM TypeCorrect == Spec => []TypeOK
BY InitTypeOK, NextTypeOK, PTL DEF Spec
-----------------------------------------------------------------------------
(* A state file for each engine, saves that succeed                        *)

OwnFiles == \A e, x \in Engine : e # x => FileOf[e] # FileOf[x]

\* One save: what it has put where by each of its steps.
SavesInOrder ==
  \A e \in Engine :
    /\ pc[e] \in {"idle", "save", "opened", "written"}
    /\ pc[e] = "opened" => tmp[FileOf[e]] = Torn
    /\ pc[e] = "written" => tmp[FileOf[e]] = State(e)
    /\ pc[e] \in Saving => up[e]
    /\ ~up[e] => cache[e] = Absent

\* The caller was told what the file holds.
ToldIsDurable == \A e \in Engine : told[e] = Durable[e].tier

\* An engine that reads its file holds what is in it, and during a save the
\* one cycle further that the save will put there.
AheadOfDisk ==
  \A e \in Engine \ Unreadable : up[e] =>
    State(e) = IF pc[e] = "idle" THEN Durable[e]
               ELSE After(Durable[e], raw[e])

DInv == SavesInOrder /\ ToldIsDurable /\ AheadOfDisk

LEMMA DInvInit == Init => DInv
<1> SUFFICES ASSUME Init PROVE DInv
  OBVIOUS
<1>1. \A e \in Engine : Durable[e] = default_state
  BY DEF Init, Durable
<1> QED
  BY <1>1 DEF Init, DInv, SavesInOrder, ToldIsDurable, AheadOfDisk, State,
              Saving, Writing

LEMMA DurableContent ==
  ASSUME TypeOK, NEW e \in Engine
  PROVE  Durable[e] \in Content /\ Durable[e].is = "state"
BY Contents DEF Durable, TypeOK

\* Only the replacement changes what an engine would load.
LEMMA DurableMoves ==
  ASSUME TypeOK, OwnFiles, DInv, SaveMayFail = {}, NEW e \in Engine,
         Evaluate(e) \/ Save(e) \/ Crash(e) \/ Restart(e) \/ Rebuild(e),
         NEW x \in Engine
  PROVE  Durable'[x] = IF x = e /\ SaveReplaces(e) THEN State(e) ELSE Durable[x]
<1>1. \/ UNCHANGED file
      \/ /\ SaveReplaces(e)
         /\ file' = [file EXCEPT ![FileOf[e]] = State(e)]
  BY DEF Evaluate, Save, SaveOpens, SaveWrites, SaveReplaces, SaveFails, Crash,
         Restart, Rebuild, disk, DInv, SavesInOrder
<1>2. CASE UNCHANGED file /\ ~SaveReplaces(e)
  BY <1>2 DEF Durable
<1>3. CASE SaveReplaces(e)
  <2>1. file' = [file EXCEPT ![FileOf[e]] = State(e)]
    BY <1>3 DEF SaveReplaces, DInv, SavesInOrder
  <2>2. file'[FileOf[e]] = State(e)
        /\ \A y \in Engine \ {e} : file'[FileOf[y]] = file[FileOf[y]]
    BY <2>1 DEF TypeOK, OwnFiles
  <2> QED
    BY <1>3, <2>2, StateContent DEF Durable
<1> QED
  BY <1>1, <1>2, <1>3

LEMMA SavesInOrderStep ==
  ASSUME TypeOK, OwnFiles, DInv, SaveMayFail = {}, NEW e \in Engine,
         Evaluate(e) \/ Save(e) \/ Crash(e) \/ Restart(e) \/ Rebuild(e)
  PROVE  SavesInOrder'
<1> SUFFICES ASSUME NEW x \in Engine
             PROVE  /\ pc'[x] \in {"idle", "save", "opened", "written"}
                    /\ pc'[x] = "opened" => tmp'[FileOf[x]] = Torn
                    /\ pc'[x] = "written" => tmp'[FileOf[x]] = State(x)'
                    /\ pc'[x] \in Saving => up'[x]
                    /\ ~up'[x] => cache'[x] = Absent
  BY DEF SavesInOrder
<1> USE DEF DInv, SavesInOrder
<1>0. /\ FileOf[e] \in File /\ FileOf[x] \in File
      /\ x # e => FileOf[x] # FileOf[e]
  BY DEF OwnFiles
<1>1. CASE Evaluate(e)
  <2>1. /\ pc' = [pc EXCEPT ![e] = "save"] /\ UNCHANGED <<up, tmp>> /\ up[e]
        /\ \A y \in Engine \ {e} : tier'[y] = tier[y] /\ below'[y] = below[y]
                                   /\ cache'[y] = cache[y]
    BY <1>1 DEF Evaluate, disk, TypeOK
  <2>2. CASE x = e
    BY <2>1, <2>2 DEF TypeOK
  <2>3. CASE x # e
    <3>1. State(x)' = State(x) /\ pc'[x] = pc[x]
      BY <2>1, <2>3 DEF State, TypeOK
    <3> QED
      BY <2>1, <2>3, <3>1
  <2> QED
    BY <2>2, <2>3
<1>2. CASE SaveOpens(e)
  BY <1>0, <1>2 DEF SaveOpens, TypeOK, State, Saving, Writing
<1>3. CASE SaveWrites(e)
  <2>1. tmp' = [tmp EXCEPT ![FileOf[e]] = State(e)] /\ pc[e] = "opened"
    <3>1. pc[e] = "opened"
      BY <1>3 DEF SaveWrites, Writing
    <3>2. Written(e, tmp[FileOf[e]]) = {State(e)}
      BY <3>1 DEF Written
    <3> QED
      BY <1>3, <3>1, <3>2 DEF SaveWrites
  <2> QED
    BY <1>0, <1>3, <2>1 DEF SaveWrites, TypeOK, State, Saving, Writing
<1>4. CASE SaveReplaces(e)
  <2>1. pc'[x] = IF x = e THEN "idle" ELSE pc[x]
    BY <1>0, <1>4 DEF SaveReplaces, Moved
  <2> QED
    BY <1>0, <1>4, <2>1 DEF SaveReplaces, TypeOK, State, Saving, Writing
<1>5. ~SaveFails(e)
  <2>1. State(e).is = "state" /\ Absent.is = "absent"
    BY StateContent
  <2>2. pc[e] = "written" => tmp[FileOf[e]] # Absent
    BY <2>1
  <2> QED
    BY <2>2 DEF SaveFails
<1>6. CASE Crash(e)
  BY <1>0, <1>6 DEF Crash, TypeOK, disk, State, Saving, Writing
<1>7. CASE Restart(e) \/ Rebuild(e)
  <2>1. /\ \A y \in Engine \ {e} : tier'[y] = tier[y] /\ below'[y] = below[y]
        /\ \A y \in Engine \ {e} : cache'[y] = cache[y]
        /\ UNCHANGED <<pc, tmp>>
        /\ up' = [up EXCEPT ![e] = TRUE]
        /\ pc[e] = "idle"
    <3>1. Load(e)
      BY <1>7 DEF Restart, Rebuild
    <3>2. \A y \in Engine \ {e} : tier'[y] = tier[y] /\ below'[y] = below[y]
                                  /\ cache'[y] = cache[y]
      BY <3>1, LoadAdopts DEF TypeOK
    <3> QED
      BY <1>7, <3>2 DEF Restart, Rebuild, disk, TypeOK, Saving
  <2>2. CASE x = e
    BY <2>1, <2>2 DEF TypeOK
  <2>3. CASE x # e
    <3>1. State(x)' = State(x)
      BY <2>1, <2>3 DEF State
    <3> QED
      BY <2>1, <2>3, <3>1 DEF TypeOK
  <2> QED
    BY <2>2, <2>3
<1> QED
  BY <1>1, <1>2, <1>3, <1>4, <1>5, <1>6, <1>7 DEF Save

LEMMA ToldIsDurableStep ==
  ASSUME TypeOK, OwnFiles, DInv, SaveMayFail = {}, NEW e \in Engine,
         Evaluate(e) \/ Save(e) \/ Crash(e) \/ Restart(e) \/ Rebuild(e)
  PROVE  ToldIsDurable'
<1>1. CASE SaveReplaces(e)
  <2>1. told' = [told EXCEPT ![e] = State(e).tier]
    BY <1>1 DEF SaveReplaces, State
  <2>2. \A x \in Engine : Durable'[x] = IF x = e THEN State(e) ELSE Durable[x]
    BY <1>1, DurableMoves
  <2> QED
    BY <2>1, <2>2 DEF DInv, ToldIsDurable, TypeOK
<1>2. CASE ~SaveReplaces(e)
  <2>1. UNCHANGED told
    <3>1. ~SaveFails(e)
      <4>1. State(e).is = "state" /\ Absent.is = "absent"
        BY StateContent
      <4> QED
        BY <4>1 DEF SaveFails, DInv, SavesInOrder
    <3> QED
      BY <1>2, <3>1 DEF Evaluate, Save, SaveOpens, SaveWrites, Crash, Restart,
                        Rebuild
  <2>2. \A x \in Engine : Durable'[x] = Durable[x]
    BY <1>2, DurableMoves
  <2> QED
    BY <2>1, <2>2 DEF DInv, ToldIsDurable
<1> QED
  BY <1>1, <1>2

LEMMA AheadOfDiskStep ==
  ASSUME TypeOK, OwnFiles, DInv, SaveMayFail = {}, NEW e \in Engine,
         Evaluate(e) \/ Save(e) \/ Crash(e) \/ Restart(e) \/ Rebuild(e)
  PROVE  AheadOfDisk'
<1> SUFFICES ASSUME NEW x \in Engine \ Unreadable, up'[x]
             PROVE  State(x)' = IF pc'[x] = "idle" THEN Durable'[x]
                                ELSE After(Durable'[x], raw'[x])
  BY DEF AheadOfDisk
<1> USE DEF DInv
<1>0. Durable'[x] = IF x = e /\ SaveReplaces(e) THEN State(e) ELSE Durable[x]
  BY DurableMoves
<1>1. CASE Evaluate(e)
  <2>1. ~SaveReplaces(e)
    BY <1>1 DEF Evaluate, SaveReplaces
  <2>2. PICK r \in Tier :
          /\ raw' = [raw EXCEPT ![e] = r]
          /\ tier' = [tier EXCEPT ![e] = After(State(e), r).tier]
          /\ below' = [below EXCEPT ![e] = After(State(e), r).below]
          /\ pc' = [pc EXCEPT ![e] = "save"]
          /\ UNCHANGED up /\ up[e] /\ pc[e] = "idle"
    BY <1>1 DEF Evaluate
  <2>3. CASE x = e
    <3>1. State(e) = Durable[e]
      BY <2>2, <2>3 DEF AheadOfDisk
    <3>2. /\ raw'[e] = r /\ pc'[e] = "save"
          /\ tier'[e] = After(State(e), r).tier
          /\ below'[e] = After(State(e), r).below
      BY <2>2 DEF TypeOK
    <3>3. After(State(e), r) = Record("state", tier'[e], below'[e])
      BY <3>2, StateContent, AfterContent DEF Content
    <3>4. State(e)' = After(State(e), r)
      BY <3>3 DEF State
    <3> QED
      BY <1>0, <2>1, <2>3, <3>1, <3>2, <3>4
  <2>4. CASE x # e
    BY <1>0, <2>2, <2>4 DEF AheadOfDisk, State, TypeOK
  <2> QED
    BY <2>3, <2>4
<1>2. CASE SaveOpens(e) \/ SaveWrites(e)
  <2>1. UNCHANGED <<tier, below, raw, up>> /\ ~SaveReplaces(e)
        /\ pc[e] # "idle" /\ pc' \in {[pc EXCEPT ![e] = "opened"],
                                      [pc EXCEPT ![e] = "written"]}
    BY <1>2 DEF SaveOpens, SaveWrites, SaveReplaces, Writing
  <2>2. (pc'[x] = "idle") = (pc[x] = "idle")
    BY <2>1 DEF TypeOK
  <2> QED
    BY <1>0, <2>1, <2>2 DEF AheadOfDisk, State
<1>3. CASE SaveReplaces(e)
  <2>1. UNCHANGED <<tier, below, raw, up>>
        /\ pc'[x] = IF x = e THEN "idle" ELSE pc[x]
    BY <1>3 DEF SaveReplaces, Moved, OwnFiles
  <2> QED
    BY <1>0, <1>3, <2>1 DEF AheadOfDisk, State
<1>4. ~SaveFails(e)
  <2>1. State(e).is = "state" /\ Absent.is = "absent"
    BY StateContent
  <2> QED
    BY <2>1 DEF SaveFails, SavesInOrder
<1>5. CASE Crash(e)
  <2>1. UNCHANGED <<tier, below, raw>> /\ x # e /\ up'[x] = up[x]
        /\ pc'[x] = pc[x] /\ Durable'[x] = Durable[x]
    BY <1>0, <1>5 DEF Crash, TypeOK
  <2> QED
    BY <2>1 DEF AheadOfDisk, State
<1>6. CASE Restart(e) \/ Rebuild(e)
  <2>1. Load(e)
    BY <1>6 DEF Restart, Rebuild
  <2>2. PICK s \in Content :
          /\ tier' = [tier EXCEPT ![e] = s.tier]
          /\ below' = [below EXCEPT ![e] = s.below]
          /\ e \notin Unreadable => s = Durable[e]
    BY <2>1, LoadAdopts
  <2>3. UNCHANGED <<raw, pc>> /\ ~SaveReplaces(e) /\ pc[e] = "idle"
        /\ \A y \in Engine \ {e} : up'[y] = up[y]
    BY <1>6 DEF Restart, Rebuild, SaveReplaces, SavesInOrder, TypeOK, Saving
  <2>4. CASE x = e
    <3>1. tier'[e] = Durable[e].tier /\ below'[e] = Durable[e].below
      BY <2>2, <2>4 DEF TypeOK
    <3>2. Durable[e] = Record("state", Durable[e].tier, Durable[e].below)
      BY DurableContent DEF Content
    <3>3. State(e)' = Durable[e]
      BY <3>1, <3>2 DEF State
    <3> QED
      BY <1>0, <2>3, <2>4, <3>3
  <2>5. CASE x # e
    BY <1>0, <2>2, <2>3, <2>5 DEF AheadOfDisk, State, TypeOK
  <2> QED
    BY <2>4, <2>5
<1> QED
  BY <1>1, <1>2, <1>3, <1>4, <1>5, <1>6 DEF Save

LEMMA DInvStep ==
  ASSUME TypeOK, OwnFiles, DInv, SaveMayFail = {}, [Next]_vars
  PROVE  DInv'
<1>1. CASE UNCHANGED vars
  BY <1>1 DEF vars, local, disk, DInv, SavesInOrder, ToldIsDurable,
              AheadOfDisk, State, Durable
<1> QED
  BY <1>1, SavesInOrderStep, ToldIsDurableStep, AheadOfDiskStep DEF Next, DInv

LEMMA DInvHolds ==
  ASSUME OwnFiles, SaveMayFail = {}
  PROVE  Spec => [](TypeOK /\ DInv)
<1>1. TypeOK /\ DInv /\ [Next]_vars => (TypeOK /\ DInv)'
  BY NextTypeOK, DInvStep
<1> QED
  BY <1>1, InitTypeOK, DInvInit, PTL DEF Spec
-----------------------------------------------------------------------------
(* What restarts keep                                                      *)

\* A daemon that reads its file resumes at the tier its caller was last
\* told: a crash between any two steps of a save loses a cycle, never an
\* answer (SurvivalEngine.__init__, save_state).
THEOREM RestartsKeepTheTier ==
  ASSUME OwnFiles, SaveMayFail = {}
  PROVE  Spec => RestartKeepsTier
<1>1. TypeOK /\ DInv /\ [Next]_vars
        => [\A e \in Engine \ Unreadable :
              ~up[e] /\ up'[e] => tier'[e] = told[e]]_vars
  <2> SUFFICES ASSUME TypeOK, DInv, Next,
                      NEW e \in Engine \ Unreadable, ~up[e], up'[e]
               PROVE  tier'[e] = told[e]
    OBVIOUS
  <2>1. Restart(e)
    BY DEF Next, Evaluate, Save, SaveOpens, SaveWrites, SaveReplaces,
           SaveFails, Crash, Restart, Rebuild, TypeOK
  <2>2. tier'[e] = Durable[e].tier
    BY <2>1, LoadAdopts DEF Restart, TypeOK
  <2> QED
    BY <2>2 DEF DInv, ToldIsDurable
<1> QED
  BY <1>1, DInvHolds, PTL DEF Spec, RestartKeepsTier

\* Also one whose file cannot be read: it comes back in CAUTION at least,
\* for the cache of the crashed process is gone with it (load_state).
THEOREM RestartsKeepTheDefence ==
  ASSUME OwnFiles, SaveMayFail = {}
  PROVE  Spec => DefenceSurvivesRestart
<1>1. TypeOK /\ DInv /\ [Next]_vars
        => [\A e \in Engine :
              ~up[e] /\ up'[e] /\ told[e] >= CAUTION => tier'[e] >= CAUTION]_vars
  <2> SUFFICES ASSUME TypeOK, DInv, Next, NEW e \in Engine, ~up[e], up'[e],
                      told[e] >= CAUTION
               PROVE  tier'[e] >= CAUTION
    OBVIOUS
  <2>1. Restart(e)
    BY DEF Next, Evaluate, Save, SaveOpens, SaveWrites, SaveReplaces,
           SaveFails, Crash, Restart, Rebuild, TypeOK
  <2>2. tier'[e] \in {Durable[e].tier, unknown_state.tier}
    BY <2>1, LoadAdopts DEF Restart, TypeOK, DInv, SavesInOrder
  <2> QED
    BY <2>2 DEF DInv, ToldIsDurable
<1> QED
  BY <1>1, DInvHolds, PTL DEF Spec, DefenceSurvivesRestart

-----------------------------------------------------------------------------
(* The ladder                                                              *)

LEMMA LadderStarts == Init => Ladder!LadderInit
<1> SUFFICES ASSUME Init PROVE Ladder!LadderInit
  OBVIOUS
<1>1. \A e \in Engine : Durable[e] = default_state
  BY DEF Init, Durable
<1> QED
  BY <1>1 DEF Ladder!LadderInit, Ladder!NORMAL, DurableTier, DurableBelow

\* One cycle on top of what is durable is a step of the ladder.
LEMMA AfterIsAStep ==
  ASSUME NEW e \in Engine \ Unreadable, NEW r \in Tier,
         Durable[e] \in Content,
         DurableTier' = [DurableTier EXCEPT ![e] = After(Durable[e], r).tier],
         DurableBelow' = [DurableBelow EXCEPT ![e] = After(Durable[e], r).below]
  PROVE  Ladder!Escalate(e) \/ Ladder!StepDown(e) \/ Ladder!Hold(e)
<1> DEFINE s == Durable[e]
<1>1. /\ s.tier \in 0..3 /\ s.below \in 0..MinDwell - 1 /\ r \in 0..3
      /\ DurableTier[e] = s.tier /\ DurableBelow[e] = s.below
  BY Contents DEF DurableTier, DurableBelow
<1>2. MinDwell \in Nat \ {0}
  OBVIOUS
<1>3. CASE r > s.tier
  <2>1. After(s, r).tier = r /\ After(s, r).below = 0
    BY <1>1, <1>3 DEF After
  <2>2. Ladder!Escalate(e)
    BY <1>1, <1>3, <2>1 DEF Ladder!Escalate, Ladder!Tier, Ladder!NORMAL,
                            Ladder!COOLDOWN
  <2> QED
    BY <2>2
<1>4. CASE r <= s.tier /\ ~(r < s.tier /\ s.below + 1 >= MinDwell)
  <2>1. After(s, r).tier = s.tier
        /\ \/ After(s, r).below = 0
           \/ /\ s.tier > 0 /\ s.below + 1 < MinDwell
              /\ After(s, r).below = s.below + 1
    BY <1>1, <1>2, <1>4 DEF After
  <2>2. DurableTier' = DurableTier
    BY <1>1, <2>1 DEF DurableTier
  <2>3. Ladder!Hold(e)
    BY <1>1, <2>1, <2>2 DEF Ladder!Hold, Ladder!NORMAL
  <2> QED
    BY <2>3
<1>5. CASE r < s.tier /\ s.below + 1 >= MinDwell
  <2>1. After(s, r).tier = s.tier - 1 /\ After(s, r).below = 0 /\ s.tier > 0
    <3>1. ~(r >= s.tier) /\ ~(s.below + 1 < MinDwell) /\ s.tier > 0
      BY <1>1, <1>2, <1>5
    <3>2. After(s, r) = Record("state", s.tier - 1, 0)
      BY <1>5, <3>1 DEF After
    <3> QED
      BY <3>1, <3>2
  <2>2. Ladder!StepDown(e)
    BY <1>1, <1>5, <2>1 DEF Ladder!StepDown, Ladder!NORMAL
  <2> QED
    BY <2>2
<1> QED
  BY <1>1, <1>3, <1>4, <1>5

LEMMA LadderStep ==
  ASSUME TypeOK, OwnFiles, DInv, SaveMayFail = {}, [Next]_vars
  PROVE  [Ladder!LadderNext]_<<DurableTier, DurableBelow>>
<1>1. CASE UNCHANGED vars
  BY <1>1 DEF vars, local, disk, DurableTier, DurableBelow, Durable
<1>2. CASE Next
  <2>1. PICK e \in Engine :
          Evaluate(e) \/ Save(e) \/ Crash(e) \/ Restart(e) \/ Rebuild(e)
    BY <1>2 DEF Next
  <2>2. \A x \in Engine :
          Durable'[x] = IF x = e /\ SaveReplaces(e) THEN State(e) ELSE Durable[x]
    BY <2>1, DurableMoves
  <2>3. CASE ~SaveReplaces(e) \/ e \in Unreadable
    BY <2>2, <2>3 DEF DurableTier, DurableBelow
  <2>4. CASE SaveReplaces(e) /\ e \notin Unreadable
    <3>1. State(e) = After(Durable[e], raw[e])
      BY <2>4 DEF SaveReplaces, DInv, SavesInOrder, AheadOfDisk, Saving
    <3>2. /\ DurableTier' = [DurableTier EXCEPT ![e] = State(e).tier]
          /\ DurableBelow' = [DurableBelow EXCEPT ![e] = State(e).below]
      BY <2>2, <2>4 DEF DurableTier, DurableBelow
    <3>3. raw[e] \in Tier
      BY DEF TypeOK
    <3>4. Ladder!Escalate(e) \/ Ladder!StepDown(e) \/ Ladder!Hold(e)
      BY <2>4, <3>1, <3>2, <3>3, DurableContent, AfterIsAStep
    <3> QED
      BY <3>4 DEF Ladder!LadderNext
  <2> QED
    BY <2>3, <2>4
<1> QED
  BY <1>1, <1>2

\* What can be read from the disks is a run of the ladder, up at once and
\* down a level after the dwell, with crashes and restarts anywhere: the
\* save of every cycle makes the dwell count survive (save_state).
THEOREM DiskImplementsLadder ==
  ASSUME OwnFiles, SaveMayFail = {}
  PROVE  Spec => ImplementsLadder
<1>1. TypeOK /\ DInv /\ [Next]_vars
        => [Ladder!LadderNext]_<<DurableTier, DurableBelow>>
  BY LadderStep
<1> QED
  BY <1>1, LadderStarts, DInvHolds, PTL
     DEF Spec, ImplementsLadder, Ladder!LadderSpec
=============================================================================
