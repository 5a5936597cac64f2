-------------------------- MODULE GrillRequests_proofs -------------------------
(***************************************************************************)
(* Theorems about what GrillControl does with requests: how often it       *)
(* relights the fire, what a change of units stops, and what a Hold holds. *)
(***************************************************************************)
EXTENDS GrillControl_proofs

-----------------------------------------------------------------------------
(* The budget of reignitions.  ReigniteBudget is inductive together with   *)
(* what is left of the budget: every dictionary that will be written back  *)
(* knows of all reignitions so far.  A grill with a switch is left out: on *)
(* its edge main() writes back the dictionary it had before the cycle.     *)

\* The retries that are left and the reignitions there have been are within the
\* budget, in the store and in a dictionary the work cycle or a recipe writes back.
BudgetInv ==
    /\ control.reigniteretries + reignites <= ReigniteRetries
    /\ pc \in {"bottom", "hung", "cleanup", "recipeStep"}
          => local.reigniteretries + reignites <= ReigniteRetries

\* It holds before the control process has started.
LEMMA BudgetInit == Init => BudgetInv
<1>1. default_control.reigniteretries = ReigniteRetries /\ ReigniteRetries \in Nat
  BY ControlStoreAssumption DEF default_control
<1> QED BY <1>1 DEF Init, BudgetInv

\* No command changes the retries.
LEMMA DeepUpdateRetries ==
    ASSUME NEW c \in Control, NEW p \in Patch
    PROVE  deep_update(c, p).reigniteretries = c.reigniteretries
<1>1. CASE p \in ModePatch \cup HoldPatch \cup PrimePatch
  BY <1>1 DEF ModePatch, HoldPatch, PrimePatch, deep_update, Control
<1>2. CASE p \in UnitsPatch \cup ContinuePatch \cup ManualPatch
  BY <1>2 DEF UnitsPatch, ContinuePatch, ManualPatch, deep_update, Control
<1>3. CASE p \in NotifyPatch
  BY <1>3 DEF NotifyPatch, deep_update, Control
<1> QED BY <1>1, <1>2, <1>3 DEF Patch, PlainPatch

\* No notification does.
LEMMA ItemActionRetries ==
    ASSUME NEW c \in Control, NEW i \in Item
    PROVE  ItemAction(c, i).reigniteretries = c.reigniteretries
BY DEF ItemAction, Control

LEMMA CheckOnceRetries ==
    ASSUME NEW c \in Control, NEW i \in Item, NEW hit, NEW awaited
    PROVE  CheckOnce(c, i, hit, awaited).reigniteretries = c.reigniteretries
<1> DEFINE fired == [c EXCEPT !.notify[i].req = FALSE,
                              !.triggered = @ \/ (c.mode = "Recipe" /\ i \in awaited)]
<1>1. c.notify \in [Item -> Notification]
  BY DEF Control
<1>2. [c.notify EXCEPT ![i].req = FALSE] \in [Item -> Notification]
  BY <1>1 DEF Notification
<1>3. fired \in Control /\ fired.reigniteretries = c.reigniteretries
  BY <1>2 DEF Control
<1>4. ItemAction(fired, i).reigniteretries = fired.reigniteretries
  BY <1>3, ItemActionRetries
<1>5. ItemAction(c, i).reigniteretries = c.reigniteretries
  BY ItemActionRetries
<1> QED BY <1>3, <1>4, <1>5 DEF CheckOnce

LEMMA CheckLimitRetries ==
    ASSUME NEW c \in Control, NEW i \in Item, NEW hit
    PROVE  CheckLimit(c, i, hit).reigniteretries = c.reigniteretries
<1> DEFINE latched == [c EXCEPT !.notify[i].triggered = i \in hit]
<1>1. c.notify \in [Item -> Notification]
  BY DEF Control
<1> DEFINE now == i \in hit
<1>2. now \in BOOLEAN
  OBVIOUS
<1> HIDE DEF now
<1>3. [c.notify EXCEPT ![i].triggered = now] \in [Item -> Notification]
  BY <1>1, <1>2 DEF Notification
<1> USE DEF now
<1>4. latched \in Control /\ latched.reigniteretries = c.reigniteretries
  BY <1>3 DEF Control
<1>5. ItemAction(latched, i).reigniteretries = latched.reigniteretries
  BY <1>4, ItemActionRetries
<1> QED BY <1>4, <1>5 DEF CheckLimit

LEMMA CheckNotifyRetries ==
    ASSUME NEW c \in Control, NEW hit, NEW awaited
    PROVE  /\ check_notify(c, hit, awaited).reigniteretries = c.reigniteretries
           /\ check_notify_idle(c, hit).reigniteretries = c.reigniteretries
<1>1. "probe" \in Item /\ "limit" \in Item /\ "timer" \in Item
  BY DEF Item
<1>2. check_notify(c, hit, awaited).reigniteretries = c.reigniteretries
  <2> DEFINE p == CheckOnce(c, "probe", hit, awaited)
             l == CheckLimit(p, "limit", hit)
  <2>1. p \in Control /\ p.reigniteretries = c.reigniteretries
    BY <1>1, CheckOnceType, CheckOnceRetries
  <2>2. l \in Control /\ l.reigniteretries = p.reigniteretries
    BY <1>1, <2>1, CheckLimitType, CheckLimitRetries
  <2> HIDE DEF l, p
  <2>3. CheckOnce(l, "timer", hit, awaited).reigniteretries = l.reigniteretries
    BY <1>1, <2>2, CheckOnceRetries
  <2> QED BY <2>1, <2>2, <2>3 DEF check_notify, l, p
<1>3. check_notify_idle(c, hit).reigniteretries = c.reigniteretries
  <2> DEFINE skip(d, i) == IF d.notify[i].req THEN ItemAction(d, i) ELSE d
             p == skip(c, "probe")
             l == skip(p, "limit")
  <2>1. ASSUME NEW d \in Control, NEW i \in Item
        PROVE  skip(d, i) \in Control /\ skip(d, i).reigniteretries = d.reigniteretries
    BY ItemActionType, ItemActionRetries
  <2> HIDE DEF skip
  <2>2. p \in Control /\ p.reigniteretries = c.reigniteretries
    BY <1>1, <2>1
  <2>3. l \in Control /\ l.reigniteretries = p.reigniteretries
    BY <1>1, <2>1, <2>2
  <2> HIDE DEF l, p
  <2>4. CheckOnce(l, "timer", hit, {}).reigniteretries = l.reigniteretries
    BY <1>1, <2>3, CheckOnceRetries
  <2> QED BY <2>2, <2>3, <2>4 DEF check_notify_idle, l, p, skip
<1> QED BY <1>2, <1>3

\* Nor do the control process's own changes, but for the one of a flameout.
LEMMA OwnRetries ==
    ASSUME NEW c \in Control
    PROVE  /\ ChangeUnits(c).reigniteretries = c.reigniteretries
           /\ ExpireTimer(c).reigniteretries = c.reigniteretries
           /\ ArmTriggers(c).reigniteretries = c.reigniteretries
           /\ Following(c).reigniteretries = c.reigniteretries
           /\ RecipeOver(c).reigniteretries = c.reigniteretries
           /\ SwitchedOff(c).reigniteretries = c.reigniteretries
<1>1. ChangeUnits(c).reigniteretries = c.reigniteretries
  BY DEF ChangeUnits, Control
<1>2. ExpireTimer(c).reigniteretries = c.reigniteretries
  BY DEF ExpireTimer, Control
<1>3. ArmTriggers(c).reigniteretries = c.reigniteretries
  BY DEF ArmTriggers, Control
<1>4. Following(c).reigniteretries = c.reigniteretries
  BY DEF Following, Control
<1>5. RecipeOver(c).reigniteretries = c.reigniteretries
  BY DEF RecipeOver, Control
<1>6. SwitchedOff(c).reigniteretries = c.reigniteretries
  BY DEF SwitchedOff, Control
<1> QED BY <1>1, <1>2, <1>3, <1>4, <1>5, <1>6

\* A flameout pays for the reignition it asks for.
LEMMA FlameoutPays ==
    ASSUME TypeOK, NEW c \in Control, cycle \in Mode, CountReignite(c),
           c.reigniteretries + reignites <= ReigniteRetries
    PROVE  Flameout(c).reigniteretries + reignites' <= ReigniteRetries
<1>1. c.reigniteretries \in Nat /\ reignites \in Nat /\ ReigniteRetries \in Nat
  BY ControlStoreAssumption DEF Control, TypeOK
<1>2. CASE c.reigniteretries = 0
  <2>1. Flameout(c).mode = "Error" /\ Flameout(c).reigniteretries = c.reigniteretries
    BY <1>2 DEF Flameout, Control
  <2> QED BY <2>1 DEF CountReignite
<1>3. CASE c.reigniteretries # 0
  <2>1. /\ Flameout(c).mode = "Reignite"
        /\ Flameout(c).reigniteretries = c.reigniteretries - 1
    BY <1>3 DEF Flameout, Control
  <2>2. reignites' = reignites + 1
    BY <2>1 DEF CountReignite
  <2> QED BY <1>1, <2>1, <2>2
<1> QED BY <1>2, <1>3

\* main() enters a mode with the retries it found.
LEMMA EnterModeRetries ==
    ASSUME NEW c \in Control, NEW stored \in Control, EnterMode(c, stored),
           stored.reigniteretries = c.reigniteretries
    PROVE  control'.reigniteretries = c.reigniteretries /\ pc' \in {"stopping", "start", "recipe"}
<1>1. /\ [c EXCEPT !.mode = "Prime"].reigniteretries = c.reigniteretries
      /\ [c EXCEPT !.next_mode = AfterStartup].reigniteretries = c.reigniteretries
      /\ [c EXCEPT !.next_mode = "Stop"].reigniteretries = c.reigniteretries
      /\ [c EXCEPT !.status = "monitor"].reigniteretries = c.reigniteretries
      /\ [c EXCEPT !.next_mode = c.reignitelaststate].reigniteretries = c.reigniteretries
  BY DEF Control
<1> QED BY <1>1 DEF EnterMode, Call

\* An iteration of the main loop spends none.
LEMMA BudgetMainLoop == TypeOK /\ BudgetInv /\ MainLoop => BudgetInv'
<1> SUFFICES ASSUME TypeOK, BudgetInv, MainLoop PROVE BudgetInv'
  OBVIOUS
<1>1. PICK expired, late \in BOOLEAN :
         LET armed == control.notify["timer"].req
             c == check_notify_idle(control, IF expired THEN {"timer"} ELSE {})
             d == IF late /\ c.notify["timer"].req THEN ExpireTimer(c) ELSE c
         IN  /\ armed \/ ~(expired \/ late)
             /\ IF armed /\ expired /\ control.mode = "Recipe"
                THEN /\ pc' \in {"dead", "boot"}
                     /\ UNCHANGED <<control, main, outputs, cycle, caller>>
                ELSE IF d.updated /\ ~d.critical_error
                THEN Dispatch(d)
                ELSE /\ main' = Kept(d) /\ control' = d /\ pc' = "main"
                     /\ UNCHANGED <<outputs, cycle, caller>>
  BY DEF MainLoop
<1> DEFINE c == check_notify_idle(control, IF expired THEN {"timer"} ELSE {})
           d == IF late /\ c.notify["timer"].req THEN ExpireTimer(c) ELSE c
<1>2. c \in Control /\ c.reigniteretries = control.reigniteretries
  BY CheckNotifyIdleType, CheckNotifyRetries DEF TypeOK
<1>3. d \in Control /\ d.reigniteretries = control.reigniteretries
  BY <1>2, ExpireTimerType, OwnRetries
<1> HIDE DEF c, d
<1>4. \/ pc' \in {"dead", "boot"} /\ UNCHANGED control
      \/ Dispatch(d)
      \/ control' = d /\ pc' = "main"
  BY <1>1 DEF c, d
<1>5. ASSUME Dispatch(d)
      PROVE  /\ control'.reigniteretries = control.reigniteretries
             /\ pc' \in {"stopping", "start", "recipe"}
  <2> DEFINE cleared == [d EXCEPT !.updated = FALSE]
             units == ChangeUnits(cleared)
             active == [units EXCEPT !.status = "active"]
  <2>1. cleared \in Control /\ cleared.reigniteretries = d.reigniteretries
    BY <1>3 DEF Control
  <2> HIDE DEF cleared
  <2>2. units \in Control /\ units.reigniteretries = d.reigniteretries
    BY <2>1, ChangeUnitsType, OwnRetries
  <2> HIDE DEF units
  <2>3. active \in Control /\ active.reigniteretries = d.reigniteretries
    BY <2>2 DEF Control
  <2> HIDE DEF active
  <2>4. EnterMode(active, active) \/ EnterMode(units, cleared)
    BY <1>5 DEF Dispatch, cleared, units, active
  <2>5. ASSUME EnterMode(active, active)
        PROVE  control'.reigniteretries = d.reigniteretries
               /\ pc' \in {"stopping", "start", "recipe"}
    BY <2>3, <2>5, EnterModeRetries
  <2>6. ASSUME EnterMode(units, cleared)
        PROVE  control'.reigniteretries = d.reigniteretries
               /\ pc' \in {"stopping", "start", "recipe"}
    BY <2>1, <2>2, <2>6, EnterModeRetries
  <2> QED BY <1>3, <2>4, <2>5, <2>6
<1>6. /\ control'.reigniteretries = control.reigniteretries
      /\ pc' \notin {"bottom", "hung", "cleanup", "recipeStep"}
  BY <1>3, <1>4, <1>5
<1>7. UNCHANGED reignites
  BY DEF MainLoop
<1> QED BY <1>6, <1>7 DEF BudgetInv

\* Nor do the other steps of main(); Stop and Error give it back whole.  The
\* switch is where the assumption is needed.
LEMMA BudgetMain ==
    ASSUME Standalone
    PROVE  TypeOK /\ BudgetInv
              /\ (Boot \/ CheckSwitch \/ Merge \/ FinishStop \/ NextMode \/ AfterPriming)
           => BudgetInv'
<1>1. ASSUME BudgetInv, Boot PROVE BudgetInv'
  <2>1. control'.reigniteretries = ReigniteRetries /\ ReigniteRetries \in Nat
    BY <1>1, ControlStoreAssumption DEF Boot, flush_control, default_control
  <2> QED BY <1>1, <2>1 DEF Boot, BudgetInv
<1>2. ASSUME BudgetInv, CheckSwitch PROVE BudgetInv'
  BY <1>2, Standalone DEF CheckSwitch, BudgetInv
<1>3. ASSUME TypeOK, BudgetInv, Merge PROVE BudgetInv'
  <2>1. Head(queue) \in Patch /\ control \in Control
    BY <1>3 DEF Merge, MergeWrite, TypeOK
  <2>2. control'.reigniteretries = control.reigniteretries
    BY <1>3, <2>1, DeepUpdateRetries DEF Merge, MergeWrite
  <2>3. UNCHANGED <<pc, local, reignites>>
    BY <1>3 DEF Merge, thread
  <2> QED BY <1>3, <2>2, <2>3 DEF BudgetInv
<1>4. ASSUME TypeOK, FinishStop PROVE BudgetInv'
  <2> DEFINE c == [default_control EXCEPT !.mode = main.mode, !.updated = FALSE]
  <2>1. /\ c.reigniteretries = ReigniteRetries
        /\ [c EXCEPT !.status = "inactive"].reigniteretries = ReigniteRetries
    BY DefaultControlType DEF Control, default_control
  <2> HIDE DEF c
  <2>2. control' = c \/ control' = [c EXCEPT !.status = "inactive"]
    BY <1>4 DEF FinishStop, flush_control, c
  <2>3. pc' = "main" /\ reignites' = 0
    BY <1>4 DEF FinishStop
  <2>4. control'.reigniteretries = ReigniteRetries /\ ReigniteRetries \in Nat
    <3>1. control'.reigniteretries = ReigniteRetries
      BY <2>1, <2>2
    <3> QED BY <3>1, ControlStoreAssumption
  <2> QED BY <2>3, <2>4 DEF BudgetInv
<1>5. ASSUME TypeOK, BudgetInv, NextMode PROVE BudgetInv'
  <2>1. control'.reigniteretries = control.reigniteretries
    BY <1>5, OwnRetries DEF NextMode, TypeOK
  <2> QED BY <1>5, <2>1 DEF NextMode, BudgetInv
<1>6. ASSUME TypeOK, BudgetInv, AfterPriming PROVE BudgetInv'
  <2>1. control'.reigniteretries = control.reigniteretries
    BY <1>6 DEF AfterPriming, TypeOK, Control
  <2>2. pc' \in {"start", "main"} /\ UNCHANGED reignites
    BY <1>6 DEF AfterPriming, Call
  <2> QED BY <1>6, <2>1, <2>2 DEF BudgetInv
<1> QED BY <1>1, <1>2, <1>3, <1>4, <1>5, <1>6

\* A work cycle that finds the fire out before its loop pays for the reignition.
LEMMA BudgetStartCycle == TypeOK /\ BudgetInv /\ StartCycle => BudgetInv'
<1> SUFFICES ASSUME TypeOK, BudgetInv, StartCycle PROVE BudgetInv'
  OBVIOUS
<1>1. PICK t \in PitTemps :
         LET c == ArmTriggers(control)
             out == /\ cycle \in {"Smoke", "Hold"}
                    /\ c.afterstarttemp < c.startuptemp
         IN  /\ ptemp' = t
             /\ control' = IF cycle \in {"Startup", "Reignite"}
                           THEN [c EXCEPT !.startuptemp = StartupTemp(t), !.afterstarttemp = t]
                           ELSE IF out THEN Flameout(c) ELSE c
             /\ IF out THEN CountReignite(c) ELSE UNCHANGED reignites
             /\ IF out \/ (cycle = "Hold" /\ ~ControllerLoads)
                THEN pc' = "cleanup" /\ local' = control'
                ELSE pc' = "top" /\ local' = default_control
  BY DEF StartCycle
<1> DEFINE c == ArmTriggers(control)
           lit == [c EXCEPT !.startuptemp = StartupTemp(t), !.afterstarttemp = t]
<1>2. c \in Control /\ c.reigniteretries = control.reigniteretries
  BY ArmTriggersType, OwnRetries DEF TypeOK
<1> HIDE DEF c
<1>3. lit.reigniteretries = c.reigniteretries
  BY <1>2 DEF Control
<1> HIDE DEF lit
<1>4. c.reigniteretries + reignites <= ReigniteRetries
  BY <1>2 DEF BudgetInv
<1>5. \/ control' \in {c, lit} /\ UNCHANGED reignites
      \/ control' = Flameout(c) /\ CountReignite(c) /\ cycle \in {"Smoke", "Hold"}
  BY <1>1 DEF c, lit
<1>6. control'.reigniteretries + reignites' <= ReigniteRetries
  <2>1. ASSUME control' = Flameout(c), CountReignite(c), cycle \in {"Smoke", "Hold"}
        PROVE  control'.reigniteretries + reignites' <= ReigniteRetries
    BY <1>2, <1>4, <2>1, FlameoutPays DEF Mode
  <2> QED BY <1>3, <1>4, <1>5, <2>1
<1>7. pc' = "top" \/ local' = control'
  BY <1>1
<1> QED BY <1>6, <1>7 DEF BudgetInv

\* So does an iteration that does; the others write back what they have read.
LEMMA BudgetIteration ==
    TypeOK /\ BudgetInv /\ (IterationTop \/ IterationBottom \/ Cleanup) => BudgetInv'
<1>1. ASSUME TypeOK, BudgetInv, IterationTop PROVE BudgetInv'
  <2>1. /\ SwitchedOff(control).reigniteretries = control.reigniteretries
        /\ [control EXCEPT !.manual = [change |-> "none", output |-> FALSE]].reigniteretries
              = control.reigniteretries
    BY <1>1, OwnRetries DEF TypeOK, Control
  <2>2. control'.reigniteretries = control.reigniteretries /\ local' = control'
    BY <1>1, <2>1 DEF IterationTop
  <2>3. UNCHANGED reignites
    BY <1>1 DEF IterationTop
  <2> QED BY <1>1, <2>2, <2>3 DEF BudgetInv
<1>2. ASSUME TypeOK, BudgetInv, IterationBottom PROVE BudgetInv'
  <2>1. PICK hit \in SUBSET {i \in Item : local.notify[i].req}, elapsed \in BOOLEAN :
         LET n == check_notify(local, hit, Awaited(local))
             noticed == IF NotifyWrites(local) THEN n ELSE control
             hot == [n EXCEPT !.mode = "Error", !.updated = TRUE]
             Leave(c, stored) == local' = c /\ control' = stored /\ pc' = "cleanup"
         IN  IF cycle \in {"Smoke", "Hold"} /\ ptemp < n.startuptemp
             THEN Leave(Flameout(n), Flameout(n)) /\ CountReignite(n)
             ELSE /\ UNCHANGED reignites
                  /\ IF elapsed /\ cycle \in {"Startup", "Reignite", "Shutdown", "Prime"}
                     THEN Leave(n, noticed)
                     ELSE IF ptemp > MaxTemp
                     THEN Leave(hot, hot)
                     ELSE IF StepOver(n)
                     THEN Leave(n, noticed)
                     ELSE local' = default_control /\ control' = noticed /\ pc' = "top"
    BY <1>2 DEF IterationBottom
  <2> DEFINE n == check_notify(local, hit, Awaited(local))
             hot == [n EXCEPT !.mode = "Error", !.updated = TRUE]
  <2>2. n \in Control /\ n.reigniteretries = local.reigniteretries
    BY <1>2, CheckNotifyType, CheckNotifyRetries DEF TypeOK
  <2> HIDE DEF n
  <2>3. hot.reigniteretries = n.reigniteretries
    BY <2>2 DEF Control
  <2> HIDE DEF hot
  <2>4. n.reigniteretries + reignites <= ReigniteRetries
    BY <1>2, <2>2 DEF BudgetInv, IterationBottom
  <2>5. \/ /\ control' = Flameout(n) /\ local' = Flameout(n) /\ CountReignite(n)
           /\ cycle \in {"Smoke", "Hold"}
        \/ /\ control' \in {n, hot, control} /\ UNCHANGED reignites
           /\ pc' = "top" \/ local' \in {n, hot}
    BY <2>1 DEF n, hot
  <2>6. pc' \in {"top", "cleanup"}
    BY <2>1
  <2>7. ASSUME control' = Flameout(n), local' = Flameout(n), CountReignite(n),
               cycle \in {"Smoke", "Hold"}
        PROVE  BudgetInv'
    BY <1>2, <2>2, <2>4, <2>7, FlameoutPays DEF BudgetInv, Mode
  <2>8. ASSUME control' \in {n, hot, control}, UNCHANGED reignites,
               pc' = "top" \/ local' \in {n, hot}
        PROVE  BudgetInv'
    BY <1>2, <2>3, <2>4, <2>6, <2>8 DEF BudgetInv
  <2> QED BY <2>5, <2>7, <2>8
<1>3. ASSUME TypeOK, BudgetInv, Cleanup PROVE BudgetInv'
  <2>1. [local EXCEPT !.afterstarttemp = ptemp].reigniteretries = local.reigniteretries
    BY <1>3 DEF TypeOK, Control
  <2>2. control' = control \/ control' = [local EXCEPT !.afterstarttemp = ptemp]
    BY <1>3 DEF Cleanup
  <2>3. pc = "cleanup" /\ pc' \in {"primed", "recipeNext", "recipeResume", "main", "next"}
        /\ UNCHANGED reignites
    BY <1>3 DEF Cleanup
  <2> QED BY <1>3, <2>1, <2>2, <2>3 DEF BudgetInv
<1> QED BY <1>1, <1>2, <1>3

\* A recipe hands the dictionary on with the retries it read.
LEMMA BudgetRecipe ==
    TypeOK /\ BudgetInv /\ (RecipeBegin \/ RunStep \/ RecipeNext \/ RecipeResume) => BudgetInv'
<1>1. ASSUME BudgetInv, NEW c \in Control, EndRecipe(c), UNCHANGED reignites,
             c.reigniteretries + reignites <= ReigniteRetries
      PROVE  BudgetInv'
  <2>1. control'.reigniteretries = c.reigniteretries
    BY <1>1, OwnRetries DEF EndRecipe
  <2> QED BY <1>1, <2>1 DEF BudgetInv, EndRecipe
<1>2. ASSUME BudgetInv, RecipeBegin PROVE BudgetInv'
  BY <1>2 DEF RecipeBegin, BudgetInv, store
<1>3. ASSUME TypeOK, BudgetInv, RunStep PROVE BudgetInv'
  <2>1. UNCHANGED reignites /\ local.reigniteretries + reignites <= ReigniteRetries
        /\ local \in Control
    BY <1>3 DEF RunStep, BudgetInv, TypeOK
  <2>2. CASE step \in DOMAIN RecipeSteps
    <3>1. local' = [local EXCEPT !.triggered = FALSE, !.pause = RecipeSteps[step].pause,
                       !.primary_setpoint = RecipeSteps[step].hold_temp, !.updated = FALSE]
          /\ control' = local'
      BY <1>3, <2>2 DEF RunStep
    <3>2. control'.reigniteretries = local.reigniteretries
      BY <2>1, <3>1 DEF Control
    <3> QED BY <2>1, <3>1, <3>2 DEF BudgetInv
  <2>3. CASE step \notin DOMAIN RecipeSteps
    BY <1>1, <1>3, <2>1, <2>3 DEF RunStep
  <2> QED BY <2>2, <2>3
<1>4. ASSUME TypeOK, BudgetInv, RecipeNext PROVE BudgetInv'
  <2>1. UNCHANGED reignites /\ control.reigniteretries + reignites <= ReigniteRetries
        /\ control \in Control
    BY <1>4 DEF RecipeNext, BudgetInv, TypeOK
  <2>2. \/ local' = [control EXCEPT !.updated = FALSE, !.mode = "Recipe"] /\ control' = local'
        \/ EndRecipe(control)
        \/ local' = control /\ control' = control
    BY <1>4 DEF RecipeNext
  <2>3. [control EXCEPT !.updated = FALSE, !.mode = "Recipe"].reigniteretries
          = control.reigniteretries
    BY <2>1 DEF Control
  <2>4. ASSUME control'.reigniteretries = control.reigniteretries /\ local' = control'
        PROVE  BudgetInv'
    BY <2>1, <2>4 DEF BudgetInv
  <2> QED BY <1>1, <1>4, <2>1, <2>2, <2>3, <2>4
<1>5. ASSUME TypeOK, BudgetInv, RecipeResume PROVE BudgetInv'
  <2>1. UNCHANGED reignites /\ control.reigniteretries + reignites <= ReigniteRetries
        /\ control \in Control
    BY <1>5 DEF RecipeResume, BudgetInv, TypeOK
  <2>2. EndRecipe(control) \/ (pc' = "dead" /\ control' = control)
    BY <1>5 DEF RecipeResume
  <2>3. ASSUME pc' = "dead", control' = control PROVE BudgetInv'
    BY <2>1, <2>3 DEF BudgetInv
  <2> QED BY <1>1, <1>5, <2>1, <2>2, <2>3
<1> QED BY <1>2, <1>3, <1>4, <1>5

\* Of the outside world only a restart of the store would give retries back.
LEMMA BudgetOutside ==
    ASSUME "redis" \notin Failures
    PROVE  TypeOK /\ BudgetInv
              /\ (\/ Client \/ ToggleSwitch \/ Hang \/ Resume \/ Exception
                  \/ HeartbeatLost \/ Restart \/ RedisRestart)
           => BudgetInv'
<1>1. ASSUME BudgetInv, Client \/ ToggleSwitch PROVE BudgetInv'
  BY <1>1 DEF Client, execute, ToggleSwitch, store, thread, BudgetInv
<1>2. ASSUME BudgetInv, Hang \/ Resume \/ Exception \/ Restart PROVE BudgetInv'
  BY <1>2 DEF Hang, Resume, Exception, Restart, store, BudgetInv
<1>3. ASSUME TypeOK, BudgetInv, HeartbeatLost PROVE BudgetInv'
  <2>1. control'.reigniteretries = control.reigniteretries
    BY <1>3 DEF HeartbeatLost, TypeOK, Control
  <2> QED BY <1>3, <2>1 DEF HeartbeatLost, BudgetInv
<1>4. ASSUME RedisRestart PROVE BudgetInv'
  BY <1>4, "redis" \notin Failures DEF RedisRestart
<1> QED BY <1>1, <1>2, <1>3, <1>4

\* Between two stops, a grill without a switch lights its fire again by itself
\* at most reigniteretries times, whatever clients ask for, and whatever hangs,
\* dies or is restarted, the store excepted.
THEOREM BudgetKept ==
    ASSUME Standalone, "redis" \notin Failures
    PROVE  Spec => []ReigniteBudget
<1>1. TypeOK /\ BudgetInv /\ [Next]_vars => BudgetInv'
  <2>1. TypeOK /\ BudgetInv /\ Next => BudgetInv'
    BY Standalone, "redis" \notin Failures, BudgetMainLoop, BudgetMain, BudgetStartCycle,
       BudgetIteration, BudgetRecipe, BudgetOutside DEF Next
  <2>2. BudgetInv /\ UNCHANGED vars => BudgetInv'
    BY DEF BudgetInv, vars
  <2> QED BY <2>1, <2>2
<1>2. TypeOK /\ BudgetInv => ReigniteBudget
  <2> SUFFICES ASSUME TypeOK, BudgetInv PROVE ReigniteBudget
    OBVIOUS
  <2>1. control.reigniteretries \in Nat /\ reignites \in Nat
    BY DEF TypeOK, Control
  <2> QED BY <2>1, ControlStoreAssumption DEF BudgetInv, ReigniteBudget
<1> QED BY <1>1, <1>2, BudgetInit, TypeCorrect, PTL DEF Spec

-----------------------------------------------------------------------------
(* A change of units stops the cook.  Two callers of _work_cycle do not    *)
(* look at the flag, prime-on-startup and a recipe, and the theorem leaves *)
(* them out: without them the mode branches of main() are the only way in. *)

\* No cycle starts with a change pending, and nobody but main()'s branches calls.
UnitsInv ==
    /\ UnitsStopTheCook
    /\ pc \notin {"primed", "recipeStep", "recipeNext", "recipeResume"}
    /\ caller \notin {"prime", "recipe", "recipeReignite"}

\* Entering a mode: a pending change has made it Stop.
LEMMA UnitsEnterMode ==
    ASSUME ~PrimeOnStartup, UnitsInv, NEW c \in Control, NEW stored, EnterMode(c, stored),
           c.mode = "Stop" \/ ~(c.units_change \/ stored.units_change)
    PROVE  UnitsInv'
<1>1. CASE c.mode = "Stop"
  <2>1. pc' = "stopping" /\ caller' = caller
    BY <1>1 DEF EnterMode
  <2> QED BY <2>1 DEF UnitsInv, UnitsStopTheCook
<1>2. CASE ~(c.units_change \/ stored.units_change)
  <2>1. /\ ~[c EXCEPT !.next_mode = AfterStartup].units_change
        /\ ~[c EXCEPT !.next_mode = "Stop"].units_change
        /\ ~[c EXCEPT !.status = "monitor"].units_change
        /\ ~[c EXCEPT !.next_mode = c.reignitelaststate].units_change
    BY <1>2 DEF Control
  <2>2. ~control'.units_change
    BY <1>2, <2>1, ~PrimeOnStartup DEF EnterMode
  <2>3. pc' \in {"stopping", "start", "recipe"} /\ caller' \in {caller, "mode"}
    BY ~PrimeOnStartup DEF EnterMode, Call
  <2> QED BY <2>2, <2>3 DEF UnitsInv, UnitsStopTheCook
<1> QED BY <1>1, <1>2

\* The main loop looks at the change before it looks at the mode.
LEMMA UnitsMainLoop ==
    ASSUME ~PrimeOnStartup
    PROVE  TypeOK /\ UnitsInv /\ MainLoop => UnitsInv'
<1> SUFFICES ASSUME TypeOK, UnitsInv, MainLoop PROVE UnitsInv'
  OBVIOUS
<1>1. PICK expired, late \in BOOLEAN :
         LET armed == control.notify["timer"].req
             c == check_notify_idle(control, IF expired THEN {"timer"} ELSE {})
             d == IF late /\ c.notify["timer"].req THEN ExpireTimer(c) ELSE c
         IN  /\ armed \/ ~(expired \/ late)
             /\ IF armed /\ expired /\ control.mode = "Recipe"
                THEN /\ pc' \in {"dead", "boot"}
                     /\ UNCHANGED <<control, main, outputs, cycle, caller>>
                ELSE IF d.updated /\ ~d.critical_error
                THEN Dispatch(d)
                ELSE /\ main' = Kept(d) /\ control' = d /\ pc' = "main"
                     /\ UNCHANGED <<outputs, cycle, caller>>
  BY DEF MainLoop
<1> DEFINE c == check_notify_idle(control, IF expired THEN {"timer"} ELSE {})
           d == IF late /\ c.notify["timer"].req THEN ExpireTimer(c) ELSE c
<1>2. c \in Control
  BY CheckNotifyIdleType DEF TypeOK
<1>3. d \in Control
  BY <1>2, ExpireTimerType
<1> HIDE DEF c, d
<1>4. \/ pc' \in {"dead", "boot", "main"} /\ UNCHANGED caller
      \/ Dispatch(d)
  BY <1>1 DEF c, d
<1>5. ASSUME Dispatch(d) PROVE UnitsInv'
  <2> DEFINE cleared == [d EXCEPT !.updated = FALSE]
             units == ChangeUnits(cleared)
             active == [units EXCEPT !.status = "active"]
  <2>1. cleared \in Control
    BY <1>3 DEF Control
  <2> HIDE DEF cleared
  <2>2. /\ units \in Control
        /\ units.mode = "Stop" \/ (units = cleared /\ ~units.units_change)
    BY <2>1, ChangeUnitsType DEF ChangeUnits, Control
  <2> HIDE DEF units
  <2>3. /\ active \in Control
        /\ active.mode = "Stop" \/ ~active.units_change
    BY <2>2 DEF Control
  <2> HIDE DEF active
  <2>4. EnterMode(active, active) \/ EnterMode(units, cleared)
    BY <1>5 DEF Dispatch, cleared, units, active
  <2>5. ASSUME EnterMode(active, active) PROVE UnitsInv'
    BY <2>3, <2>5, ~PrimeOnStartup, UnitsEnterMode
  <2>6. ASSUME EnterMode(units, cleared) PROVE UnitsInv'
    BY <2>2, <2>6, ~PrimeOnStartup, UnitsEnterMode
  <2> QED BY <2>4, <2>5, <2>6
<1>6. ASSUME pc' \in {"dead", "boot", "main"}, UNCHANGED caller PROVE UnitsInv'
  BY <1>6 DEF UnitsInv, UnitsStopTheCook
<1> QED BY <1>4, <1>5, <1>6

\* The other steps start no cycle.
LEMMA UnitsControl ==
    ASSUME ~RecipeLoads
    PROVE  UnitsInv
              /\ (\/ Boot \/ CheckSwitch \/ Merge \/ FinishStop \/ StartCycle \/ IterationTop
                  \/ IterationBottom \/ Cleanup \/ NextMode \/ AfterPriming \/ RecipeBegin
                  \/ RunStep \/ RecipeNext \/ RecipeResume)
           => UnitsInv'
<1> USE DEF UnitsInv, UnitsStopTheCook
<1>1. ASSUME UnitsInv, Boot \/ CheckSwitch \/ FinishStop \/ NextMode PROVE UnitsInv'
  BY <1>1 DEF Boot, CheckSwitch, FinishStop, NextMode
<1>2. ASSUME UnitsInv, Merge PROVE UnitsInv'
  BY <1>2 DEF Merge, thread
<1>3. ASSUME UnitsInv, StartCycle \/ IterationTop \/ IterationBottom PROVE UnitsInv'
  <2>1. pc' \in {"top", "bottom", "cleanup"} /\ UNCHANGED caller
    BY <1>3 DEF StartCycle, IterationTop, IterationBottom
  <2> QED BY <1>3, <2>1
<1>4. ASSUME UnitsInv, Cleanup PROVE UnitsInv'
  <2>1. pc' \in {"main", "next"} /\ UNCHANGED caller
    BY <1>4 DEF Cleanup
  <2> QED BY <1>4, <2>1
<1>5. ASSUME UnitsInv, RecipeBegin PROVE UnitsInv'
  BY <1>5, ~RecipeLoads DEF RecipeBegin
<1>6. ASSUME UnitsInv, AfterPriming \/ RunStep \/ RecipeNext \/ RecipeResume PROVE UnitsInv'
  BY <1>6 DEF AfterPriming, RunStep, RecipeNext, RecipeResume
<1> QED BY <1>1, <1>2, <1>3, <1>4, <1>5, <1>6

\* A client's change only waits in the queue; a store that restarts forgets it.
LEMMA UnitsOutside ==
    UnitsInv /\ (\/ Client \/ ToggleSwitch \/ Hang \/ Resume \/ Exception
                 \/ HeartbeatLost \/ Restart \/ RedisRestart)
        => UnitsInv'
<1> USE DEF UnitsInv, UnitsStopTheCook
<1>1. ASSUME UnitsInv, Client \/ ToggleSwitch PROVE UnitsInv'
  BY <1>1 DEF Client, execute, ToggleSwitch, store, thread
<1>2. ASSUME UnitsInv, Hang \/ Resume \/ Exception \/ Restart PROVE UnitsInv'
  BY <1>2 DEF Hang, Resume, Exception, Restart
<1>3. ASSUME UnitsInv, HeartbeatLost PROVE UnitsInv'
  BY <1>3 DEF HeartbeatLost
<1>4. ASSUME UnitsInv, RedisRestart PROVE UnitsInv'
  BY <1>4 DEF RedisRestart, flush_control, default_control, thread
<1> QED BY <1>1, <1>2, <1>3, <1>4

\* Outside recipes, and where startup does not prime first, no work cycle starts
\* while a change of units is pending.
THEOREM UnitsStop ==
    ASSUME ~PrimeOnStartup, ~RecipeLoads
    PROVE  Spec => []UnitsStopTheCook
<1>1. Init => UnitsInv
  BY DEF Init, UnitsInv, UnitsStopTheCook
<1>2. TypeOK /\ UnitsInv /\ [Next]_vars => UnitsInv'
  <2>1. TypeOK /\ UnitsInv /\ Next => UnitsInv'
    BY ~PrimeOnStartup, ~RecipeLoads, UnitsMainLoop, UnitsControl, UnitsOutside DEF Next
  <2>2. UnitsInv /\ UNCHANGED vars => UnitsInv'
    BY DEF UnitsInv, UnitsStopTheCook, vars
  <2> QED BY <2>1, <2>2
<1>3. UnitsInv => UnitsStopTheCook
  BY DEF UnitsInv
<1> QED BY <1>1, <1>2, <1>3, TypeCorrect, PTL DEF Spec

-----------------------------------------------------------------------------
(* A Hold cycle has a setpoint.  The setpoint, the mode and the mode to     *)
(* return to travel through four dictionaries (the store, main()'s, the     *)
(* cycle's, a recipe's), so the invariant says of each of them that a Hold  *)
(* it asks for, at once or after a Reignite, is one with a setpoint.  A     *)
(* client that asks for Reignite itself is left out: it returns to whatever *)
(* mode the last automatic reignition left behind, with today's setpoint.   *)

Warm(c) == c.primary_setpoint > 0

\* What a dictionary asks for can be held.
Fit(c) ==
    /\ c.next_mode # "Reignite" /\ c.reignitelaststate \in {"Smoke", "Hold"}
    /\ c.mode = "Hold" \/ (c.mode = "Reignite" /\ c.reignitelaststate = "Hold") => Warm(c)

\* The patches of clients that leave Reignite to the control process.
NotReignite(p) == ~(p.kind = "mode" /\ p.mode = "Reignite")
Asked == {p \in Patch : NotReignite(p)}

Cycles == {"Prime", "Startup", "Smoke", "Hold", "Shutdown", "Monitor", "Manual", "Reignite"}
ByRecipe == caller \in {"recipe", "recipeReignite"}
ByMain == ~ByRecipe /\ caller # "prime"

\* The mode a dictionary is in while a cycle runs that nobody has asked to end.
Rests == {"Recipe", "Stop"}
Own(c) == IF ByRecipe THEN c.mode \in Rests ELSE c.mode = cycle

\* What main() will hand to _next_mode.
Handed ==
    /\ cycle = "Reignite" /\ main.next_mode = "Hold" => Warm(main)
    /\ cycle = "Shutdown" => main.next_mode # "Hold"

HoldInv ==
    /\ queue \in Seq(Asked)
    /\ Fit(control) /\ Fit(local) /\ Fit(main)
    /\ pc = "stopping" => main.mode \in {"Stop", "Error"}
    /\ pc = "recipe" => control.mode \in Rests
    /\ pc \in {"recipeNext", "recipeResume"} => control.updated \/ control.mode \in Rests
    /\ pc = "recipeStep" => local.mode \in Rests
    /\ pc \in {"start", "next"} \cup InCycle => cycle \in Cycles /\ (ByMain => Handed)
    /\ pc \in {"start"} \cup InCycle => control.updated \/ Own(control)
    /\ pc \in {"bottom", "hung"} => Own(local) /\ ~local.updated
    /\ pc = "cleanup" => local.updated \/ Own(local)
    /\ pc = "start" /\ cycle = "Hold"
          => Warm(control) \/ (control.updated /\ ~(control.afterstarttemp < control.startuptemp))
    /\ pc \in {"top", "bottom", "hung"} /\ cycle = "Hold" => control.updated \/ Warm(control)
    /\ pc \in {"bottom", "hung"} /\ cycle = "Hold" => Warm(local)
    /\ pc \in {"cleanup", "next"} /\ cycle \in {"Smoke", "Hold"} /\ ByMain => control.updated
    /\ pc = "next" => ByMain /\ cycle \notin {"Monitor", "Manual"}

\* The defaults ask for Stop.
LEMMA DefaultFit ==
    /\ Fit(default_control) /\ default_control.updated /\ default_control.mode = "Stop"
    /\ ~(default_control.afterstarttemp < default_control.startuptemp)
BY DEF default_control, Fit

\* `d` is what `c` becomes in one of the steps on the control structure.
Kin(d, c) ==
    /\ Fit(c) => Fit(d)
    /\ c.updated => d.updated
    /\ d.updated \/ d.mode = c.mode
    /\ Warm(c) => Warm(d)

\* ... in one that asks for no recipe and ends none.
Stays(d, c) == (c.mode \in Rests => d.mode = c.mode) /\ (d.mode = "Recipe" => c.mode = "Recipe")

LEMMA KinTransitive ==
    ASSUME NEW c, NEW d, NEW e, Kin(d, c), Kin(e, d)
    PROVE  Kin(e, c) /\ (Stays(d, c) /\ Stays(e, d) => Stays(e, c))
BY DEF Kin, Stays

\* A step that leaves these fields alone.
Same(d, c) ==
    /\ d.mode = c.mode /\ d.updated = c.updated /\ d.next_mode = c.next_mode
    /\ d.primary_setpoint = c.primary_setpoint /\ d.reignitelaststate = c.reignitelaststate

LEMMA SameKin == ASSUME NEW c, NEW d, Same(d, c) PROVE Kin(d, c) /\ Stays(d, c) /\ Fit(d) = Fit(c)
BY DEF Same, Kin, Stays, Fit, Warm

\* Merging a patch: a Hold comes with its setpoint.
LEMMA DeepUpdateKin ==
    ASSUME NEW c \in Control, NEW p \in Asked
    PROVE  Kin(deep_update(c, p), c)
<1> USE DEF Kin, Fit, Warm
<1>0. p \in Patch /\ NotReignite(p)
  BY DEF Asked
<1>1. CASE p \in ModePatch
  <2>1. p.kind = "mode" /\ p.mode # "Reignite" /\ p.mode # "Hold"
    BY <1>0, <1>1 DEF ModePatch, NotReignite
  <2> QED BY <2>1 DEF deep_update, Control
<1>2. CASE p \in HoldPatch
  <2>1. p.kind = "hold" /\ p.setpoint \in Setpoints
    BY <1>2 DEF HoldPatch
  <2>2. p.setpoint > 0
    <3>1. \A n \in Setpoints : n > 0
      BY ControlStoreAssumption
    <3> QED BY <2>1, <3>1
  <2> QED BY <2>1, <2>2 DEF deep_update, Control
<1>3. CASE p \in PrimePatch
  BY <1>3 DEF PrimePatch, deep_update, Control
<1>4. CASE p \in UnitsPatch
  BY <1>4 DEF UnitsPatch, deep_update, Control
<1>5. CASE p \in ContinuePatch
  BY <1>5 DEF ContinuePatch, deep_update, Control
<1>6. CASE p \in ManualPatch
  BY <1>6 DEF ManualPatch, deep_update, Control
<1>7. CASE p \in NotifyPatch
  BY <1>7 DEF NotifyPatch, deep_update, Control
<1> QED BY <1>0, <1>1, <1>2, <1>3, <1>4, <1>5, <1>6, <1>7 DEF Patch, PlainPatch

\* An item's action: keep warm brings its setpoint, and a reignition from Hold
\* finds the one that is being held.
LEMMA ItemActionKin ==
    ASSUME NEW c \in Control, NEW i \in Item
    PROVE  Kin(ItemAction(c, i), c) /\ Stays(ItemAction(c, i), c)
<1> USE DEF Kin, Stays, Fit, Warm, Rests
<1>1. KeepWarmTemp > 0
  BY NotifyAssumption
<1> DEFINE down == [c EXCEPT !.mode = "Shutdown", !.updated = TRUE, !.notify[i].shutdown = FALSE]
           warm == [c EXCEPT !.mode = "Hold", !.updated = TRUE, !.primary_setpoint = KeepWarmTemp,
                             !.notify[i].keep_warm = FALSE]
           again == [c EXCEPT !.mode = "Reignite", !.updated = TRUE, !.reignitelaststate = c.mode]
<1>2. ASSUME c.mode \notin Rests PROVE Kin(down, c) /\ Stays(down, c)
  BY <1>2 DEF Control
<1>3. ASSUME c.mode \notin Rests PROVE Kin(warm, c) /\ Stays(warm, c)
  BY <1>1, <1>3 DEF Control
<1>4. ASSUME c.mode \in {"Smoke", "Hold"} PROVE Kin(again, c) /\ Stays(again, c)
  BY <1>4 DEF Control
<1>5. \/ ItemAction(c, i) = down /\ c.mode \notin Rests
      \/ ItemAction(c, i) = warm /\ c.mode \notin Rests
      \/ ItemAction(c, i) = again /\ c.mode \in {"Smoke", "Hold"}
      \/ ItemAction(c, i) = c
  BY DEF ItemAction
<1> HIDE DEF down, warm, again
<1> QED BY <1>2, <1>3, <1>4, <1>5

\* A pass over a probe target, the timer or a limit.
LEMMA CheckKin ==
    ASSUME NEW c \in Control, NEW i \in Item, NEW hit, NEW awaited
    PROVE  /\ Kin(CheckOnce(c, i, hit, awaited), c) /\ Stays(CheckOnce(c, i, hit, awaited), c)
           /\ Kin(CheckLimit(c, i, hit), c) /\ Stays(CheckLimit(c, i, hit), c)
<1> DEFINE now == i \in hit
           reached == c.triggered \/ (c.mode = "Recipe" /\ i \in awaited)
           fired == [c EXCEPT !.notify[i].req = FALSE, !.triggered = reached]
           latched == [c EXCEPT !.notify[i].triggered = now]
<1>1. c.notify \in [Item -> Notification] /\ c.triggered \in BOOLEAN
  BY DEF Control
<1>2. now \in BOOLEAN /\ reached \in BOOLEAN
  BY <1>1
<1>3. CheckOnce(c, i, hit, awaited) =
        IF ~c.notify[i].req THEN c ELSE ItemAction(IF now THEN fired ELSE c, i)
  BY DEF CheckOnce, Control
<1>4. CheckLimit(c, i, hit) = IF ~c.notify[i].req THEN c ELSE ItemAction(latched, i)
  BY DEF CheckLimit
<1> HIDE DEF now, reached
<1>5. /\ [c.notify EXCEPT ![i].req = FALSE] \in [Item -> Notification]
      /\ [c.notify EXCEPT ![i].triggered = now] \in [Item -> Notification]
  BY <1>1, <1>2 DEF Notification
<1>6. fired \in Control /\ latched \in Control
  BY <1>2, <1>5 DEF Control
<1>7. Same(c, c) /\ Same(fired, c) /\ Same(latched, c)
  BY DEF Control, Same
<1> HIDE DEF fired, latched
<1>8. ASSUME NEW d \in Control, Same(d, c)
      PROVE  Kin(ItemAction(d, i), c) /\ Stays(ItemAction(d, i), c)
  BY <1>8, SameKin, ItemActionKin, KinTransitive
<1>9. Kin(c, c) /\ Stays(c, c)
  BY <1>7, SameKin
<1> QED BY <1>3, <1>4, <1>6, <1>7, <1>8, <1>9

\* A pass over notify_data, of a work cycle or of the main loop.
LEMMA CheckNotifyKin ==
    ASSUME NEW c \in Control, NEW hit, NEW awaited
    PROVE  /\ Kin(check_notify(c, hit, awaited), c) /\ Stays(check_notify(c, hit, awaited), c)
           /\ Kin(check_notify_idle(c, hit), c)
<1>1. "probe" \in Item /\ "limit" \in Item /\ "timer" \in Item
  BY DEF Item
<1>2. Kin(check_notify(c, hit, awaited), c) /\ Stays(check_notify(c, hit, awaited), c)
  <2> DEFINE p == CheckOnce(c, "probe", hit, awaited)
             l == CheckLimit(p, "limit", hit)
  <2>1. p \in Control /\ Kin(p, c) /\ Stays(p, c)
    BY <1>1, CheckOnceType, CheckKin
  <2>2. l \in Control /\ Kin(l, p) /\ Stays(l, p)
    BY <1>1, <2>1, CheckLimitType, CheckKin
  <2> HIDE DEF l, p
  <2> DEFINE t == CheckOnce(l, "timer", hit, awaited)
  <2>3. Kin(t, l) /\ Stays(t, l)
    BY <1>1, <2>2, CheckKin
  <2>4. Kin(l, c) /\ Stays(l, c)
    BY <2>1, <2>2, KinTransitive
  <2> HIDE DEF t
  <2>5. Kin(t, c) /\ Stays(t, c)
    BY <2>3, <2>4, KinTransitive
  <2> QED BY <2>5 DEF check_notify, t, l, p
<1>3. Kin(check_notify_idle(c, hit), c)
  <2> DEFINE skip(d, i) == IF d.notify[i].req THEN ItemAction(d, i) ELSE d
             p == skip(c, "probe")
             l == skip(p, "limit")
  <2>1. ASSUME NEW d \in Control, NEW i \in Item
        PROVE  skip(d, i) \in Control /\ Kin(skip(d, i), d)
    <3>1. Same(d, d)
      BY DEF Same
    <3> QED BY <3>1, SameKin, ItemActionType, ItemActionKin
  <2> HIDE DEF skip
  <2>2. p \in Control /\ Kin(p, c)
    BY <1>1, <2>1
  <2>3. l \in Control /\ Kin(l, p)
    BY <1>1, <2>1, <2>2
  <2> HIDE DEF l, p
  <2> DEFINE t == CheckOnce(l, "timer", hit, {})
  <2>4. Kin(t, l)
    BY <1>1, <2>3, CheckKin
  <2> HIDE DEF t
  <2>5. Kin(t, c)
    BY <2>2, <2>3, <2>4, KinTransitive
  <2> QED BY <2>5 DEF check_notify_idle, t, l, p, skip
<1> QED BY <1>2, <1>3

\* A flameout from a Hold that has its setpoint.
LEMMA FlameoutFit ==
    ASSUME NEW c \in Control, cycle \in {"Smoke", "Hold"}, Fit(c), cycle = "Hold" => Warm(c)
    PROVE  Fit(Flameout(c))
BY DEF Flameout, Control, Fit, Warm

\* main() reads from the store only what it was left with.
LEMMA KeptFit ==
    ASSUME NEW c \in Control, Fit(c)
    PROVE  /\ Fit(Kept(c)) /\ Kept(c).mode = c.mode /\ Kept(c).next_mode = c.next_mode
           /\ Kept(c).primary_setpoint = c.primary_setpoint
<1>1. CASE Standalone
  <2>1. Kept(c) = [default_control EXCEPT !.mode = c.mode, !.next_mode = c.next_mode,
                                          !.primary_setpoint = c.primary_setpoint]
    BY <1>1 DEF Kept
  <2> QED BY ZenonT(40), <2>1, DefaultControlType DEF Fit, Warm, Control, default_control
<1>2. CASE ~Standalone
  BY <1>2 DEF Kept
<1> QED BY <1>1, <1>2

\* Entering a mode: what main() holds and what it stores ask for the same.
LEMMA HoldEnterMode ==
    ASSUME HoldInv, UNCHANGED <<queue, local>>,
           NEW c \in Control, NEW stored \in Control, EnterMode(c, stored),
           Fit(c), Fit(stored), c.mode = "Stop" \/ stored.mode = c.mode
    PROVE  HoldInv'
<1> DEFINE primed == [c EXCEPT !.mode = "Prime"]
           lit == [c EXCEPT !.next_mode = AfterStartup]
           ending == [c EXCEPT !.next_mode = "Stop"]
           watching == [c EXCEPT !.status = "monitor"]
           again == [c EXCEPT !.next_mode = c.reignitelaststate]
<1>1. /\ primed \in Control /\ lit \in Control /\ ending \in Control /\ watching \in Control
      /\ again \in Control
  <2>1. AfterStartup \in Mode /\ c.reignitelaststate \in Mode /\ "Prime" \in Mode /\ "Stop" \in Mode
    BY GrillControlAssumption DEF Control, Mode
  <2> QED BY <2>1 DEF Control
<1>2. /\ primed.mode = "Prime" /\ lit.mode = c.mode /\ ending.mode = c.mode
      /\ watching.mode = c.mode /\ again.mode = c.mode
      /\ ending.next_mode = "Stop" /\ again.next_mode = c.reignitelaststate
      /\ again.primary_setpoint = c.primary_setpoint
  BY DEF Control
<1>3. Fit(primed) /\ Fit(lit) /\ Fit(ending) /\ Fit(watching) /\ Fit(again)
  BY GrillControlAssumption DEF Control, Fit, Warm
<1> HIDE DEF primed, lit, ending, watching, again
<1>4. \/ /\ c.mode \in {"Stop", "Error"} /\ pc' = "stopping" /\ UNCHANGED <<cycle, caller>>
         /\ main' = Kept(c) /\ control' = stored
      \/ /\ c.mode \in {"Prime", "Smoke", "Hold", "Manual"} /\ main' = Kept(c)
         /\ control' = stored /\ pc' = "start" /\ cycle' = c.mode /\ caller' = "mode"
      \/ /\ main' = Kept(primed) /\ control' = primed
         /\ pc' = "start" /\ cycle' = "Prime" /\ caller' = "prime"
      \/ /\ c.mode = "Startup" /\ main' = Kept(lit) /\ control' = lit
         /\ pc' = "start" /\ cycle' = "Startup" /\ caller' = "mode"
      \/ /\ c.mode = "Shutdown" /\ main' = Kept(ending) /\ control' = ending
         /\ pc' = "start" /\ cycle' = "Shutdown" /\ caller' = "mode"
      \/ /\ c.mode = "Monitor" /\ main' = Kept(watching) /\ control' = watching
         /\ pc' = "start" /\ cycle' = "Monitor" /\ caller' = "mode"
      \/ /\ c.mode = "Reignite" /\ main' = Kept(again) /\ control' = again
         /\ pc' = "start" /\ cycle' = "Reignite" /\ caller' = "mode"
      \/ /\ c.mode = "Recipe" /\ main' = Kept(c) /\ control' = stored
         /\ pc' = "recipe" /\ UNCHANGED <<cycle, caller>>
  BY DEF EnterMode, Call, primed, lit, ending, watching, again
<1>5. /\ Fit(Kept(c)) /\ Kept(c).mode = c.mode
      /\ Fit(Kept(primed)) /\ Fit(Kept(lit)) /\ Fit(Kept(watching))
      /\ Fit(Kept(ending)) /\ Kept(ending).next_mode = "Stop"
      /\ Fit(Kept(again)) /\ Kept(again).next_mode = c.reignitelaststate
      /\ Kept(again).primary_setpoint = c.primary_setpoint
  BY <1>1, <1>2, <1>3, KeptFit
<1>6. Fit(control') /\ Fit(local') /\ Fit(main') /\ queue' \in Seq(Asked)
  BY <1>3, <1>4, <1>5 DEF HoldInv
<1>7. pc' = "stopping" => main'.mode \in {"Stop", "Error"}
  BY <1>4, <1>5
<1>8. pc' = "recipe" => control'.mode \in Rests
  BY <1>4 DEF Rests
<1>9. ASSUME pc' = "start"
      PROVE  /\ cycle' \in Cycles /\ ~ByRecipe' /\ control'.mode = cycle'
             /\ (ByMain => Handed)'
             /\ cycle' = "Hold" => Warm(control')
  <2>1. cycle' \in Cycles /\ ~ByRecipe' /\ control'.mode = cycle'
    BY <1>2, <1>4, <1>9 DEF Cycles, ByRecipe
  <2>2. cycle' = "Hold" => Warm(control')
    BY <1>6, <2>1 DEF Fit
  <2>3. cycle' = "Shutdown" => main'.next_mode # "Hold"
    BY <1>4, <1>5, <1>9
  <2>4. cycle' = "Reignite" /\ main'.next_mode = "Hold" => Warm(main')
    BY <1>4, <1>5, <1>9 DEF Fit, Warm
  <2> QED BY <2>1, <2>2, <2>3, <2>4 DEF Handed, Warm
<1>10. pc' \in {"stopping", "recipe", "start"}
  BY <1>4
<1> QED BY <1>6, <1>7, <1>8, <1>9, <1>10 DEF HoldInv, InCycle, Own, Warm

\* The main loop.
LEMMA HoldMainLoop == TypeOK /\ HoldInv /\ MainLoop => HoldInv'
<1> SUFFICES ASSUME TypeOK, HoldInv, MainLoop PROVE HoldInv'
  OBVIOUS
<1>1. PICK expired, late \in BOOLEAN :
         LET armed == control.notify["timer"].req
             c == check_notify_idle(control, IF expired THEN {"timer"} ELSE {})
             d == IF late /\ c.notify["timer"].req THEN ExpireTimer(c) ELSE c
         IN  /\ armed \/ ~(expired \/ late)
             /\ IF armed /\ expired /\ control.mode = "Recipe"
                THEN /\ pc' \in {"dead", "boot"}
                     /\ UNCHANGED <<control, main, outputs, cycle, caller>>
                ELSE IF d.updated /\ ~d.critical_error
                THEN Dispatch(d)
                ELSE /\ main' = Kept(d) /\ control' = d /\ pc' = "main"
                     /\ UNCHANGED <<outputs, cycle, caller>>
  BY DEF MainLoop
<1> DEFINE c == check_notify_idle(control, IF expired THEN {"timer"} ELSE {})
           d == IF late /\ c.notify["timer"].req THEN ExpireTimer(c) ELSE c
<1>2. c \in Control /\ Fit(c)
  BY CheckNotifyIdleType, CheckNotifyKin DEF TypeOK, HoldInv, Kin
<1>3. d \in Control /\ Fit(d)
  <2>1. ExpireTimer(c) \in Control
    BY <1>2, ExpireTimerType
  <2> HIDE DEF c
  <2>2. Same(ExpireTimer(c), c)
    BY <1>2 DEF ExpireTimer, Control, Same
  <2>3. Fit(ExpireTimer(c))
    BY <1>2, <2>2, SameKin DEF Kin
  <2> QED BY <1>2, <2>1, <2>3
<1> HIDE DEF c, d
<1>4. \/ pc' \in {"dead", "boot"} /\ UNCHANGED <<control, main>>
      \/ Dispatch(d)
      \/ main' = Kept(d) /\ control' = d /\ pc' = "main"
  BY <1>1 DEF c, d
<1>5. UNCHANGED <<queue, local>>
  BY DEF MainLoop
<1>6. ASSUME Dispatch(d) PROVE HoldInv'
  <2> DEFINE cleared == [d EXCEPT !.updated = FALSE]
             units == ChangeUnits(cleared)
             active == [units EXCEPT !.status = "active"]
  <2>1. cleared \in Control /\ Fit(cleared)
    BY <1>3 DEF Control, Fit, Warm
  <2> HIDE DEF cleared
  <2>2. units \in Control /\ Fit(units) /\ (units.mode = "Stop" \/ units.mode = cleared.mode)
    <3>1. units \in Control
      BY <2>1, ChangeUnitsType
    <3>2. CASE cleared.units_change
      BY <2>1, <3>1, <3>2 DEF ChangeUnits, Control, Fit
    <3>3. CASE ~cleared.units_change
      BY <2>1, <3>1, <3>3 DEF ChangeUnits
    <3> QED BY <3>2, <3>3
  <2> HIDE DEF units
  <2>3. active \in Control /\ Fit(active)
    BY <2>2 DEF Control, Fit, Warm
  <2> HIDE DEF active
  <2>4. EnterMode(active, active) \/ EnterMode(units, cleared)
    BY <1>6 DEF Dispatch, cleared, units, active
  <2>5. ASSUME EnterMode(active, active) PROVE HoldInv'
    BY <1>5, <2>3, <2>5, HoldEnterMode
  <2>6. ASSUME EnterMode(units, cleared) PROVE HoldInv'
    BY <1>5, <2>1, <2>2, <2>6, HoldEnterMode
  <2> QED BY <2>4, <2>5, <2>6
<1>7. ASSUME pc' \in {"dead", "boot"}, UNCHANGED <<control, main>> PROVE HoldInv'
  BY <1>5, <1>7 DEF HoldInv, InCycle, Fit, Warm
<1>8. ASSUME main' = Kept(d), control' = d, pc' = "main" PROVE HoldInv'
  <2>1. Fit(main') /\ Fit(control') /\ Fit(local')
    BY <1>3, <1>5, <1>8, KeptFit DEF HoldInv
  <2> QED BY <1>5, <1>8, <2>1 DEF HoldInv, InCycle
<1> QED BY <1>4, <1>6, <1>7, <1>8

\* The other steps of main() but the ones that follow a cycle.
LEMMA HoldMain ==
    TypeOK /\ HoldInv /\ (Boot \/ CheckSwitch \/ Merge \/ FinishStop) => HoldInv'
<1>1. ASSUME TypeOK, Boot PROVE HoldInv'
  <2>1. PICK c \in Control : Fit(c) /\ control' = c /\ main' = Kept(c) /\ queue' = <<>>
    <3>1. /\ [default_control EXCEPT !.mode = "Monitor"] \in Control
          /\ Fit([default_control EXCEPT !.mode = "Monitor"])
      BY DefaultControlType, DefaultFit DEF Control, Mode, Fit
    <3>2. \/ /\ control' = [default_control EXCEPT !.mode = "Monitor"]
             /\ main' = Kept([default_control EXCEPT !.mode = "Monitor"]) /\ queue' = <<>>
          \/ control' = default_control /\ main' = Kept(default_control) /\ queue' = <<>>
      BY <1>1 DEF Boot, flush_control
    <3> QED BY <3>1, <3>2, DefaultControlType, DefaultFit
  <2>2. pc' = "main" /\ local' = default_control
    BY <1>1 DEF Boot
  <2>3. Fit(control') /\ Fit(main') /\ Fit(local') /\ queue' \in Seq(Asked)
    BY <2>1, <2>2, KeptFit, DefaultFit
  <2> QED BY <2>2, <2>3 DEF HoldInv, InCycle
<1>2. ASSUME TypeOK, HoldInv, CheckSwitch PROVE HoldInv'
  <2>1. Fit([main EXCEPT !.updated = TRUE, !.mode = "Stop"])
    BY <1>2 DEF TypeOK, HoldInv, Control, Fit
  <2>2. Fit(control') /\ Fit(main')
    BY <1>2, <2>1 DEF CheckSwitch, HoldInv
  <2>3. pc' = "merge" /\ UNCHANGED <<queue, local>>
    BY <1>2 DEF CheckSwitch
  <2>4. Fit(local')
    BY <1>2, <2>3 DEF HoldInv
  <2> QED BY <1>2, <2>2, <2>3, <2>4 DEF HoldInv, InCycle
<1>3. ASSUME TypeOK, HoldInv, Merge PROVE HoldInv'
  <2>1. Head(queue) \in Asked /\ queue' \in Seq(Asked) /\ control \in Control
    BY <1>3 DEF Merge, MergeWrite, TypeOK, HoldInv
  <2>2. Kin(control', control)
    BY <1>3, <2>1, DeepUpdateKin DEF Merge, MergeWrite
  <2>3. pc \in {"merge", "top", "next", "recipeNext"}
          /\ UNCHANGED <<pc, cycle, caller, main, local>>
    BY <1>3 DEF Merge, thread
  <2>4. Fit(control') /\ Fit(main') /\ Fit(local')
    BY <1>3, <2>2, <2>3 DEF HoldInv, Kin
  <2>5. /\ control.updated => control'.updated
        /\ control'.updated \/ control'.mode = control.mode
        /\ Warm(control) => Warm(control')
    BY <2>2 DEF Kin
  <2> QED BY <1>3, <2>1, <2>3, <2>4, <2>5
          DEF HoldInv, InCycle, ByMain, ByRecipe, Own, Handed, Warm
<1>4. ASSUME TypeOK, HoldInv, FinishStop PROVE HoldInv'
  <2> DEFINE c == [default_control EXCEPT !.mode = main.mode, !.updated = FALSE]
             e == [c EXCEPT !.status = "inactive"]
  <2>1. main.mode \in {"Stop", "Error"}
    BY <1>4 DEF FinishStop, HoldInv
  <2>2. c \in Control /\ Fit(c) /\ e \in Control /\ Fit(e)
    BY ZenonT(40), <2>1, DefaultControlType, DefaultFit DEF Control, Mode, Fit, Warm
  <2> HIDE DEF c, e
  <2>3. \/ control' = c /\ main' = Kept(c) /\ queue' = <<>>
        \/ control' = e /\ main' = Kept(e) /\ UNCHANGED queue
    BY <1>4 DEF FinishStop, flush_control, c, e
  <2>4. pc' = "main" /\ UNCHANGED local
    BY <1>4 DEF FinishStop
  <2>5. Fit(control') /\ Fit(main')
    BY <2>2, <2>3, KeptFit
  <2>6. Fit(local')
    BY <1>4, <2>4 DEF HoldInv
  <2>7. queue' \in Seq(Asked)
    <3>1. queue \in Seq(Asked)
      BY <1>4 DEF HoldInv
    <3>2. queue' = <<>> \/ queue' = queue
      BY <2>3
    <3>3. CASE queue' = <<>>
      BY <3>3
    <3>4. CASE queue' = queue
      BY <3>1, <3>4
    <3> QED BY <3>2, <3>3, <3>4
  <2> QED BY <2>4, <2>5, <2>6, <2>7 DEF HoldInv, InCycle
<1> QED BY <1>1, <1>2, <1>3, <1>4

\* After a cycle: the mode that follows comes with its setpoint.
LEMMA HoldFollow == TypeOK /\ HoldInv /\ (NextMode \/ AfterPriming) => HoldInv'
<1>1. ASSUME TypeOK, HoldInv, NextMode PROVE HoldInv'
  <2> DEFINE setpoint == IF main.next_mode = "Hold" THEN NextSetpoint ELSE 0
             moved == [control EXCEPT !.mode = main.next_mode, !.updated = TRUE,
                                      !.primary_setpoint = setpoint]
  <2>1. pc = "next" /\ pc' = "main" /\ UNCHANGED <<queue, main, local>>
    BY <1>1 DEF NextMode
  <2>2. CASE control.updated
    <3>1. control' = control
      BY <1>1, <2>2 DEF NextMode, Following
    <3> QED BY <1>1, <2>1, <3>1 DEF HoldInv, InCycle, Fit, Warm
  <2>3. CASE ~control.updated
    <3>1. ByMain /\ Handed /\ cycle \in {"Prime", "Startup", "Shutdown", "Reignite"}
      BY <1>1, <2>1, <2>3 DEF HoldInv, Cycles
    <3>2. main.next_mode # "Reignite" /\ (main.next_mode = "Hold" => setpoint > 0)
      <4>1. main.next_mode # "Reignite"
        BY <1>1 DEF HoldInv, Fit
      <4>2. ASSUME main.next_mode = "Hold" PROVE NextSetpoint > 0
        BY <3>1, <4>2, GrillControlAssumption DEF Handed, NextSetpoint, Warm
      <4> QED BY <4>1, <4>2
    <3>3. control' = moved
      BY <1>1, <2>3 DEF NextMode, Following
    <3> HIDE DEF setpoint
    <3>4. moved.mode = main.next_mode /\ moved.primary_setpoint = setpoint
          /\ moved.next_mode = control.next_mode
          /\ moved.reignitelaststate = control.reignitelaststate
      BY <1>1 DEF TypeOK, Control
    <3> HIDE DEF moved
    <3>5. Fit(control')
      BY <1>1, <3>2, <3>3, <3>4 DEF HoldInv, Fit, Warm
    <3>6. Fit(main') /\ Fit(local')
      BY <1>1, <2>1 DEF HoldInv
    <3> QED BY <1>1, <2>1, <3>5, <3>6 DEF HoldInv, InCycle
  <2> QED BY <2>2, <2>3
<1>2. ASSUME TypeOK, HoldInv, AfterPriming PROVE HoldInv'
  <2> DEFINE c == [control EXCEPT !.updated = FALSE, !.mode = "Startup", !.next_mode = AfterStartup]
  <2>1. c \in Control /\ Fit(c) /\ c.mode = "Startup"
    <3>1. control \in Control /\ AfterStartup \in Mode /\ AfterStartup # "Reignite"
          /\ "Startup" \in Mode /\ control.reignitelaststate \in {"Smoke", "Hold"}
      BY <1>2, GrillControlAssumption DEF TypeOK, Mode, HoldInv, Fit
    <3>2. c \in Control /\ c.mode = "Startup"
      BY <3>1 DEF Control
    <3>3. c.next_mode = AfterStartup /\ c.reignitelaststate = control.reignitelaststate
      BY <3>1 DEF Control
    <3> HIDE DEF c
    <3> QED BY <3>1, <3>2, <3>3 DEF Fit
  <2> HIDE DEF c
  <2>2. control \in Control /\ Fit(control) /\ UNCHANGED <<queue, local>> /\ pc = "primed"
    BY <1>2 DEF AfterPriming, TypeOK, HoldInv
  <2>3. \/ /\ control' = c /\ main' = Kept(c)
           /\ pc' = "start" /\ cycle' = "Startup" /\ caller' = "mode"
        \/ main' = Kept(control) /\ pc' = "main" /\ UNCHANGED control
    BY <1>2 DEF AfterPriming, Call, c
  <2>4. Fit(control') /\ Fit(main') /\ Fit(local')
    BY <1>2, <2>1, <2>2, <2>3, KeptFit DEF HoldInv
  <2>5. pc' = "start" => control'.mode = cycle' /\ cycle' = "Startup" /\ caller' = "mode"
    BY <2>1, <2>3
  <2>6. pc' \in {"start", "main"} /\ queue' \in Seq(Asked)
    BY <1>2, <2>2, <2>3 DEF HoldInv
  <2> QED BY <2>4, <2>5, <2>6 DEF HoldInv, InCycle, Own, ByRecipe, ByMain, Handed, Cycles
<1> QED BY <1>1, <1>2

\* The start of a cycle.
LEMMA HoldStartCycle ==
    ASSUME ControllerLoads
    PROVE  TypeOK /\ HoldInv /\ StartCycle => HoldInv'
<1> SUFFICES ASSUME TypeOK, HoldInv, StartCycle PROVE HoldInv'
  OBVIOUS
<1>1. PICK t \in PitTemps :
         LET c == ArmTriggers(control)
             out == /\ cycle \in {"Smoke", "Hold"}
                    /\ c.afterstarttemp < c.startuptemp
         IN  /\ ptemp' = t
             /\ control' = IF cycle \in {"Startup", "Reignite"}
                           THEN [c EXCEPT !.startuptemp = StartupTemp(t), !.afterstarttemp = t]
                           ELSE IF out THEN Flameout(c) ELSE c
             /\ IF out THEN CountReignite(c) ELSE UNCHANGED reignites
             /\ IF out \/ (cycle = "Hold" /\ ~ControllerLoads)
                THEN pc' = "cleanup" /\ local' = control'
                ELSE pc' = "top" /\ local' = default_control
  BY DEF StartCycle
<1> DEFINE c == ArmTriggers(control)
           lit == [c EXCEPT !.startuptemp = StartupTemp(t), !.afterstarttemp = t]
<1>2. c \in Control
  BY ArmTriggersType DEF TypeOK
<1>3. /\ Same(c, control) /\ c.afterstarttemp = control.afterstarttemp
      /\ c.startuptemp = control.startuptemp
  BY DEF ArmTriggers, TypeOK, Control, Same
<1> HIDE DEF c
<1>4. Same(lit, c)
  BY <1>2 DEF Control, Same
<1> HIDE DEF lit
<1>5. /\ pc = "start" /\ cycle \in Cycles /\ (ByMain => Handed)
      /\ UNCHANGED <<queue, main, cycle, caller>>
  BY DEF StartCycle, HoldInv
<1>6. /\ Fit(control) /\ (control.updated \/ Own(control))
      /\ cycle = "Hold"
           => Warm(control)
              \/ (control.updated /\ ~(control.afterstarttemp < control.startuptemp))
  BY <1>5 DEF HoldInv
<1>7. \/ pc' = "top" /\ control' \in {c, lit} /\ local' = default_control
      \/ /\ pc' = "cleanup" /\ control' = Flameout(c) /\ local' = control'
         /\ cycle \in {"Smoke", "Hold"} /\ c.afterstarttemp < c.startuptemp
  BY <1>1, ControllerLoads DEF c, lit
<1>8. ASSUME pc' = "top", control' \in {c, lit}, local' = default_control PROVE HoldInv'
  <2>1. Same(control', control)
    BY <1>3, <1>4, <1>8 DEF Same
  <2>2. Fit(control') /\ Fit(local') /\ Fit(main')
    BY <1>5, <1>8, <2>1, SameKin, DefaultFit DEF HoldInv
  <2>3. control'.updated \/ Own(control)'
    BY <1>5, <1>6, <2>1 DEF Same, Own, ByRecipe
  <2>4. cycle = "Hold" => control'.updated \/ Warm(control')
    BY <1>6, <2>1 DEF Same, Warm
  <2>5. (ByMain => Handed)' /\ queue' \in Seq(Asked) /\ cycle' = cycle
    BY <1>5 DEF ByMain, ByRecipe, Handed, Warm, HoldInv
  <2> QED BY <1>5, <1>8, <2>2, <2>3, <2>4, <2>5 DEF HoldInv, InCycle, Warm
<1>9. ASSUME pc' = "cleanup", control' = Flameout(c), local' = control',
             cycle \in {"Smoke", "Hold"}, c.afterstarttemp < c.startuptemp
      PROVE  HoldInv'
  <2>1. cycle = "Hold" => Warm(c)
    BY <1>3, <1>6, <1>9 DEF Same, Warm
  <2>2. Fit(c)
    BY <1>3, <1>6, SameKin
  <2>3. Fit(control') /\ control'.updated
    BY <1>2, <1>9, <2>1, <2>2, FlameoutFit, FlameoutType DEF Mode
  <2>4. Fit(main') /\ queue' \in Seq(Asked)
    BY <1>5 DEF HoldInv
  <2>5. (ByMain => Handed)'
    BY <1>5 DEF ByMain, ByRecipe, Handed, Warm
  <2> QED BY <1>5, <1>9, <2>3, <2>4, <2>5 DEF HoldInv, InCycle
<1> QED BY <1>7, <1>8, <1>9

\* The first half of an iteration.
LEMMA HoldTop == TypeOK /\ HoldInv /\ IterationTop => HoldInv'
<1> SUFFICES ASSUME TypeOK, HoldInv, IterationTop PROVE HoldInv'
  OBVIOUS
<1> DEFINE off == SwitchedOff(control)
           turned == [control EXCEPT !.manual = [change |-> "none", output |-> FALSE]]
<1>1. Fit(off) /\ off.updated /\ Same(turned, control)
  BY DEF SwitchedOff, TypeOK, HoldInv, Control, Same, Fit
<1> HIDE DEF off, turned
<1>2. /\ pc = "top" /\ Fit(control) /\ cycle \in Cycles /\ (ByMain => Handed)
      /\ control.updated \/ Own(control)
      /\ cycle = "Hold" => control.updated \/ Warm(control)
      /\ UNCHANGED <<queue, main, cycle, caller>>
  BY DEF IterationTop, HoldInv, InCycle
<1>3. \/ control.updated /\ control' = control /\ local' = control /\ pc' = "cleanup"
      \/ control' = off /\ local' = off /\ pc' = "cleanup"
      \/ ~control.updated /\ control' \in {control, turned} /\ local' = control' /\ pc' = "bottom"
  BY DEF IterationTop, off, turned
<1>4. Fit(control') /\ Fit(local') /\ Fit(main') /\ queue' \in Seq(Asked)
  <2>1. Fit(turned)
    BY <1>1, <1>2, SameKin
  <2> QED BY <1>1, <1>2, <1>3, <2>1 DEF HoldInv
<1>5. (ByMain => Handed)' /\ cycle' = cycle
  BY <1>2 DEF ByMain, ByRecipe, Handed, Warm
<1>6. ASSUME pc' = "cleanup" PROVE control'.updated /\ local'.updated
  BY <1>1, <1>3, <1>6
<1>7. ASSUME pc' = "bottom"
      PROVE  /\ ~control'.updated /\ local' = control' /\ Own(control)' /\ Own(local)'
             /\ cycle = "Hold" => Warm(control')
  BY <1>1, <1>2, <1>3, <1>7 DEF Same, Own, ByRecipe, Warm
<1>8. pc' \in {"cleanup", "bottom"}
  BY <1>3
<1> QED BY <1>2, <1>4, <1>5, <1>6, <1>7, <1>8 DEF HoldInv, InCycle, Warm

\* The second half: whatever happens to the fire, the notifications and the clock.
LEMMA HoldBottom == TypeOK /\ HoldInv /\ IterationBottom => HoldInv'
<1> SUFFICES ASSUME TypeOK, HoldInv, IterationBottom PROVE HoldInv'
  OBVIOUS
<1>1. PICK hit \in SUBSET {i \in Item : local.notify[i].req}, elapsed \in BOOLEAN :
         LET n == check_notify(local, hit, Awaited(local))
             noticed == IF NotifyWrites(local) THEN n ELSE control
             hot == [n EXCEPT !.mode = "Error", !.updated = TRUE]
             Leave(c, stored) == local' = c /\ control' = stored /\ pc' = "cleanup"
         IN  IF cycle \in {"Smoke", "Hold"} /\ ptemp < n.startuptemp
             THEN Leave(Flameout(n), Flameout(n)) /\ CountReignite(n)
             ELSE /\ UNCHANGED reignites
                  /\ IF elapsed /\ cycle \in {"Startup", "Reignite", "Shutdown", "Prime"}
                     THEN Leave(n, noticed)
                     ELSE IF ptemp > MaxTemp
                     THEN Leave(hot, hot)
                     ELSE IF StepOver(n)
                     THEN Leave(n, noticed)
                     ELSE local' = default_control /\ control' = noticed /\ pc' = "top"
  BY DEF IterationBottom
<1> DEFINE n == check_notify(local, hit, Awaited(local))
           hot == [n EXCEPT !.mode = "Error", !.updated = TRUE]
<1>2. n \in Control /\ Kin(n, local) /\ Stays(n, local)
  BY CheckNotifyType, CheckNotifyKin DEF TypeOK
<1> HIDE DEF n
<1>3. /\ pc = "bottom" /\ Fit(control) /\ Fit(local) /\ cycle \in Cycles /\ (ByMain => Handed)
      /\ (control.updated \/ Own(control)) /\ Own(local) /\ ~local.updated
      /\ cycle = "Hold" => (control.updated \/ Warm(control)) /\ Warm(local)
      /\ UNCHANGED <<queue, main, cycle, caller>>
  BY DEF IterationBottom, HoldInv, InCycle
<1>4. /\ Fit(n) /\ (n.updated \/ Own(n)) /\ (cycle = "Hold" => Warm(n))
      /\ ByMain /\ cycle # "Recipe" => n.updated \/ n.mode # "Recipe"
  <2>1. Fit(n) /\ (cycle = "Hold" => Warm(n))
    BY <1>2, <1>3 DEF Kin
  <2>2. n.updated \/ n.mode = local.mode
    BY <1>2 DEF Kin
  <2>3. Own(local)
    BY DEF HoldInv, IterationBottom
  <2> QED BY <2>1, <2>2, <2>3 DEF Own, ByMain
<1>5. Fit(hot) /\ hot.updated
  BY <1>2, <1>4 DEF Fit, Control
<1> HIDE DEF hot
<1>6. \/ /\ cycle \in {"Smoke", "Hold"} /\ pc' = "cleanup"
         /\ local' = Flameout(n) /\ control' = Flameout(n)
      \/ /\ cycle \notin {"Smoke", "Hold"} \/ n.mode = "Recipe"
         /\ pc' = "cleanup" /\ local' = n /\ control' \in {n, control}
      \/ pc' = "cleanup" /\ local' = hot /\ control' = hot
      \/ pc' = "top" /\ local' = default_control /\ control' \in {n, control}
  BY <1>1 DEF n, hot, StepOver
<1>7. (ByMain => Handed)' /\ cycle' = cycle /\ Fit(main') /\ queue' \in Seq(Asked)
  BY <1>3 DEF ByMain, ByRecipe, Handed, Warm, HoldInv
<1>8. ASSUME pc' = "cleanup", Fit(control'), Fit(local'), control'.updated, local'.updated
      PROVE  HoldInv'
  BY <1>3, <1>7, <1>8 DEF HoldInv, InCycle
<1>9. ASSUME cycle \in {"Smoke", "Hold"}, pc' = "cleanup", local' = Flameout(n),
             control' = Flameout(n)
      PROVE  HoldInv'
  <2>1. Fit(Flameout(n)) /\ Flameout(n).updated
    BY <1>2, <1>4, <1>9, FlameoutFit, FlameoutType DEF Mode
  <2> QED BY <1>8, <1>9, <2>1
<1>10. ASSUME cycle \notin {"Smoke", "Hold"} \/ n.mode = "Recipe", pc' = "cleanup", local' = n,
              control' \in {n, control}
       PROVE  HoldInv'
  <2>1. Fit(control') /\ Fit(local')
    BY <1>3, <1>4, <1>10
  <2>2. control'.updated \/ Own(control)'
    BY <1>3, <1>4, <1>10 DEF HoldInv, InCycle, Own, ByRecipe
  <2>3. local'.updated \/ Own(local)'
    BY <1>3, <1>4, <1>10 DEF Own, ByRecipe
  <2>4. cycle \in {"Smoke", "Hold"} /\ ByMain' => control'.updated
    <3> SUFFICES ASSUME cycle \in {"Smoke", "Hold"}, ByMain' PROVE FALSE
      OBVIOUS
    <3>1. ByMain /\ local.mode = cycle
      BY <1>3 DEF ByMain, ByRecipe, HoldInv, Own
    <3>2. n.mode = "Recipe"
      BY <1>10
    <3> QED BY <1>2, <3>1, <3>2 DEF Stays
  <2> QED BY <1>3, <1>7, <1>10, <2>1, <2>2, <2>3, <2>4 DEF HoldInv, InCycle
<1>11. ASSUME pc' = "cleanup", local' = hot, control' = hot PROVE HoldInv'
  BY <1>5, <1>8, <1>11
<1>12. ASSUME pc' = "top", local' = default_control, control' \in {n, control} PROVE HoldInv'
  <2>1. Fit(control') /\ Fit(local')
    BY <1>3, <1>4, <1>12, DefaultFit
  <2>2. control'.updated \/ Own(control)'
    BY <1>3, <1>4, <1>12 DEF HoldInv, InCycle, Own, ByRecipe
  <2>3. cycle = "Hold" => control'.updated \/ Warm(control')
    BY <1>3, <1>4, <1>12
  <2> QED BY <1>3, <1>7, <1>12, <2>1, <2>2, <2>3 DEF HoldInv, InCycle, Warm
<1> QED BY <1>6, <1>9, <1>10, <1>11, <1>12

\* The end of a cycle.
LEMMA HoldCleanup == TypeOK /\ HoldInv /\ Cleanup => HoldInv'
<1> SUFFICES ASSUME TypeOK, HoldInv, Cleanup PROVE HoldInv'
  OBVIOUS
<1> DEFINE done == [local EXCEPT !.afterstarttemp = ptemp]
<1>1. Same(done, local)
  BY DEF TypeOK, Control, Same
<1> HIDE DEF done
<1>2. /\ pc = "cleanup" /\ cycle \in Cycles /\ (ByMain => Handed)
      /\ UNCHANGED <<queue, main, cycle, caller>>
      /\ local' = default_control
  BY DEF Cleanup, HoldInv, InCycle
<1>3. \/ cycle \in {"Startup", "Reignite"} /\ control' = done
      \/ control' = control
  BY DEF Cleanup, done
<1>4. Fit(control') /\ Fit(local') /\ Fit(main') /\ queue' \in Seq(Asked)
  <2>1. Fit(done)
    BY <1>1, SameKin DEF HoldInv
  <2> QED BY <1>2, <1>3, <2>1, DefaultFit DEF HoldInv
<1>5. control'.updated \/ Own(control')
  BY <1>1, <1>2, <1>3 DEF HoldInv, InCycle, Same, Own
<1>6. (ByMain => Handed)' /\ cycle' = cycle
  BY <1>2 DEF ByMain, ByRecipe, Handed, Warm
<1>7. \/ pc' \in {"primed", "main"}
      \/ pc' \in {"recipeNext", "recipeResume"} /\ ByRecipe
      \/ pc' = "next" /\ ByMain /\ cycle \notin {"Monitor", "Manual"}
  BY DEF Cleanup, ByRecipe, ByMain
<1>8. ASSUME pc' \in {"recipeNext", "recipeResume"}, ByRecipe
      PROVE  control'.updated \/ control'.mode \in Rests
  BY <1>5, <1>8 DEF Own
<1>9. ASSUME pc' = "next", ByMain, cycle \in {"Smoke", "Hold"} PROVE control'.updated
  BY <1>2, <1>3, <1>9 DEF HoldInv
<1>10. ByMain' = ByMain /\ ByRecipe' = ByRecipe
  BY <1>2 DEF ByMain, ByRecipe
<1> QED BY <1>2, <1>4, <1>6, <1>7, <1>8, <1>9, <1>10 DEF HoldInv, InCycle

\* The steps of a recipe whose Hold steps have a temperature.
LEMMA HoldRecipe ==
    ASSUME \A k \in DOMAIN RecipeSteps : RecipeSteps[k].mode = "Hold"
                 => RecipeSteps[k].hold_temp > 0
    PROVE  TypeOK /\ HoldInv /\ (RecipeBegin \/ RunStep \/ RecipeNext \/ RecipeResume) => HoldInv'
<1>1. ASSUME HoldInv, NEW c \in Control, EndRecipe(c), Fit(c), UNCHANGED <<queue, main>>
      PROVE  HoldInv'
  <2>1. Fit(RecipeOver(c))
    BY <1>1 DEF RecipeOver, Control, Fit, Warm
  <2>2. Fit(control') /\ Fit(local') /\ Fit(main') /\ pc' = "main" /\ queue' \in Seq(Asked)
    BY <1>1, <2>1, DefaultFit DEF EndRecipe, HoldInv
  <2> QED BY <2>2 DEF HoldInv, InCycle
<1>2. ASSUME HoldInv, control \in Control, Fit(control), control.mode \in Rests,
             UNCHANGED <<queue, main, control>>, local' = control, pc' = "recipeStep"
      PROVE  HoldInv'
  <2>1. Fit(control') /\ Fit(local') /\ Fit(main') /\ queue' \in Seq(Asked)
    BY <1>2 DEF HoldInv
  <2> QED BY <1>2, <2>1 DEF HoldInv, InCycle
<1>3. ASSUME TypeOK, HoldInv, RecipeBegin PROVE HoldInv'
  <2>1. /\ control \in Control /\ Fit(control) /\ control.mode \in Rests
        /\ UNCHANGED <<queue, main, control>>
    BY <1>3 DEF RecipeBegin, TypeOK, HoldInv, store
  <2>2. \/ local' = control /\ pc' = "recipeStep"
        \/ pc' = "main" /\ UNCHANGED local
    BY <1>3 DEF RecipeBegin
  <2>3. ASSUME pc' = "main", UNCHANGED local PROVE HoldInv'
    <3>1. Fit(control') /\ Fit(local') /\ Fit(main') /\ queue' \in Seq(Asked)
      BY <1>3, <2>1, <2>3 DEF HoldInv
    <3> QED BY <2>3, <3>1 DEF HoldInv, InCycle
  <2> QED BY <1>2, <1>3, <2>1, <2>2, <2>3
<1>4. ASSUME TypeOK, HoldInv, RunStep PROVE HoldInv'
  <2>1. /\ local \in Control /\ Fit(local) /\ local.mode \in Rests
        /\ UNCHANGED <<queue, main>>
    BY <1>4 DEF RunStep, TypeOK, HoldInv
  <2>2. CASE step \in DOMAIN RecipeSteps
    <3> DEFINE now == RecipeSteps[step]
    <3>1. /\ now.mode \in {"Startup", "Smoke", "Hold", "Shutdown"}
          /\ now.mode = "Hold" => now.hold_temp > 0
      <4>1. now \in RecipeStep
        BY <2>2, StepType
      <4>2. now.mode = "Hold" => now.hold_temp > 0
        BY <2>2
      <4> HIDE DEF now
      <4> QED BY <4>1, <4>2 DEF RecipeStep
    <3>2. /\ local' = [local EXCEPT !.triggered = FALSE, !.pause = now.pause,
                          !.primary_setpoint = now.hold_temp, !.updated = FALSE]
          /\ control' = local' /\ pc' = "start" /\ cycle' = now.mode /\ caller' = "recipe"
      BY <1>4, <2>2 DEF RunStep, Call
    <3> HIDE DEF now
    <3>3. /\ local'.mode = local.mode /\ local'.next_mode = local.next_mode
          /\ local'.reignitelaststate = local.reignitelaststate
          /\ local'.primary_setpoint = now.hold_temp
      BY <2>1, <3>2 DEF Control
    <3>4. Fit(control') /\ Fit(local') /\ Fit(main') /\ queue' \in Seq(Asked)
      BY <1>4, <2>1, <3>2, <3>3 DEF Fit, HoldInv, Rests
    <3>5. Own(control)' /\ ByRecipe' /\ cycle' \in Cycles
          /\ (cycle' = "Hold" => Warm(control'))
      BY <2>1, <3>1, <3>2, <3>3 DEF Own, ByRecipe, Cycles, Warm
    <3> QED BY <3>2, <3>4, <3>5 DEF HoldInv, InCycle, ByMain, Warm
  <2>3. CASE step \notin DOMAIN RecipeSteps
    <3>1. EndRecipe(local)
      BY <1>4, <2>3 DEF RunStep
    <3> QED BY <1>1, <1>4, <2>1, <3>1
  <2> QED BY <2>2, <2>3
<1>5. ASSUME TypeOK, HoldInv, RecipeNext PROVE HoldInv'
  <2> DEFINE retry == [control EXCEPT !.updated = FALSE, !.mode = "Recipe"]
  <2>1. /\ control \in Control /\ Fit(control) /\ (control.updated \/ control.mode \in Rests)
        /\ UNCHANGED <<queue, main>>
    BY <1>5 DEF RecipeNext, TypeOK, HoldInv
  <2>2. Fit(retry) /\ retry.mode = "Recipe"
    BY <2>1 DEF Control, Fit
  <2> HIDE DEF retry
  <2>3. \/ /\ local' = retry /\ control' = retry
           /\ pc' = "start" /\ cycle' = "Reignite" /\ caller' = "recipeReignite"
        \/ EndRecipe(control)
        \/ /\ ~(control.mode # "Recipe" /\ control.updated)
           /\ local' = control /\ pc' = "recipeStep" /\ UNCHANGED control
    BY <1>5 DEF RecipeNext, Call, Cancelled, retry
  <2>4. ASSUME local' = retry, control' = retry, pc' = "start", cycle' = "Reignite",
               caller' = "recipeReignite"
        PROVE  HoldInv'
    <3>1. Fit(control') /\ Fit(local') /\ Fit(main') /\ queue' \in Seq(Asked)
      BY <1>5, <2>1, <2>2, <2>4 DEF HoldInv
    <3>2. Own(control)' /\ ByRecipe' /\ cycle' \in Cycles
      BY <2>2, <2>4 DEF Own, ByRecipe, Cycles, Rests
    <3> QED BY <2>4, <3>1, <3>2 DEF HoldInv, InCycle, ByMain
  <2>5. ~(control.mode # "Recipe" /\ control.updated) => control.mode \in Rests
    BY <2>1 DEF Rests
  <2> QED BY <1>1, <1>2, <1>5, <2>1, <2>3, <2>4, <2>5
<1>6. ASSUME TypeOK, HoldInv, RecipeResume PROVE HoldInv'
  <2>1. /\ control \in Control /\ Fit(control) /\ (control.updated \/ control.mode \in Rests)
        /\ UNCHANGED <<queue, main>>
    BY <1>6 DEF RecipeResume, TypeOK, HoldInv
  <2>2. \/ EndRecipe(control)
        \/ pc' = "dead" /\ UNCHANGED <<control, local>>
    BY <1>6 DEF RecipeResume
  <2>3. ASSUME pc' = "dead", UNCHANGED <<control, local>> PROVE HoldInv'
    BY <1>6, <2>1, <2>3 DEF HoldInv, InCycle
  <2> QED BY <1>1, <1>2, <1>6, <2>1, <2>2, <2>3
<1> QED BY <1>3, <1>4, <1>5, <1>6

\* The outside world, with clients that do not ask for Reignite.
LEMMA HoldOutside ==
    ASSUME \A cmd \in ClientCommands : NotReignite(cmd)
    PROVE  TypeOK /\ HoldInv
              /\ (\/ Client \/ ToggleSwitch \/ Hang \/ Resume \/ Exception
                  \/ HeartbeatLost \/ Restart \/ RedisRestart)
           => HoldInv'
<1> USE DEF InCycle, ByMain, ByRecipe, Own, Handed, Warm
<1>1. ASSUME TypeOK, HoldInv, Client PROVE HoldInv'
  <2>1. PICK cmd \in ClientCommands : queue' = Append(queue, PatchOf(cmd))
    BY <1>1 DEF Client, execute
  <2>2. cmd \in Command /\ NotReignite(cmd)
    BY ControlStoreAssumption
  <2>3. PatchOf(cmd) \in Asked
    <3>1. PatchOf(cmd) \in Patch
      BY <1>1, <2>2, PatchOfType DEF TypeOK
    <3>2. NotReignite(PatchOf(cmd))
      BY <2>2 DEF PatchOf, NotReignite
    <3> QED BY <3>1, <3>2 DEF Asked
  <2>4. queue' \in Seq(Asked)
    BY <1>1, <2>1, <2>3 DEF HoldInv
  <2>5. UNCHANGED <<control, pc, cycle, caller, main, local>>
    BY <1>1 DEF Client, execute, thread
  <2>6. Fit(control') /\ Fit(local') /\ Fit(main')
    BY <1>1, <2>5 DEF HoldInv
  <2> QED BY <1>1, <2>4, <2>5, <2>6 DEF HoldInv
<1>2. ASSUME HoldInv, ToggleSwitch \/ Hang \/ Resume \/ Exception \/ Restart PROVE HoldInv'
  <2>1. /\ UNCHANGED <<control, queue, cycle, caller, main, local>>
        /\ \/ pc' = pc \/ pc' \in {"dead", "boot"}
           \/ pc = "bottom" /\ pc' = "hung"
           \/ pc = "hung" /\ pc' = "bottom"
    BY <1>2 DEF ToggleSwitch, Hang, Resume, Exception, Restart, store, thread
  <2>2. Fit(control') /\ Fit(local') /\ Fit(main') /\ queue' \in Seq(Asked)
    BY <1>2, <2>1 DEF HoldInv
  <2> QED BY <1>2, <2>1, <2>2 DEF HoldInv
<1>3. ASSUME TypeOK, HoldInv, HeartbeatLost PROVE HoldInv'
  <2>1. Fit(control') /\ control'.updated
    BY <1>3 DEF HeartbeatLost, TypeOK, HoldInv, Control, Fit
  <2>2. /\ pc \in {"hung", "dead"} /\ pc' \in {pc, "boot"}
        /\ UNCHANGED <<queue, cycle, caller, main, local>>
    BY <1>3 DEF HeartbeatLost
  <2>3. Fit(local') /\ Fit(main') /\ queue' \in Seq(Asked)
    BY <1>3, <2>2 DEF HoldInv
  <2> QED BY <1>3, <2>1, <2>2, <2>3 DEF HoldInv
<1>4. ASSUME HoldInv, RedisRestart PROVE HoldInv'
  <2>1. control' = default_control /\ queue' = <<>> /\ UNCHANGED <<pc, cycle, caller, main, local>>
    BY <1>4 DEF RedisRestart, flush_control, thread
  <2>2. /\ Fit(control') /\ control'.updated /\ control'.mode \in Rests
        /\ ~(control'.afterstarttemp < control'.startuptemp)
    BY <2>1, DefaultFit DEF Rests
  <2>3. Fit(local') /\ Fit(main') /\ queue' \in Seq(Asked)
    BY <1>4, <2>1 DEF HoldInv
  <2> QED BY <1>4, <2>1, <2>2, <2>3 DEF HoldInv
<1> QED BY <1>1, <1>2, <1>3, <1>4

\* A Hold that main() runs has a setpoint, through reignitions, keep-warm, recipes
\* and every failure, while no client asks for Reignite, a recipe's Hold steps have
\* a temperature and the controller can be loaded.
THEOREM HoldSetpoint ==
    ASSUME ControllerLoads, \A cmd \in ClientCommands : NotReignite(cmd),
           \A k \in DOMAIN RecipeSteps : RecipeSteps[k].mode = "Hold"
               => RecipeSteps[k].hold_temp > 0
    PROVE  Spec => []HoldHasSetpoint
<1>1. Init => HoldInv
  BY DefaultFit DEF Init, HoldInv, InCycle
<1>2. TypeOK /\ HoldInv /\ [Next]_vars => HoldInv'
  <2>1. TypeOK /\ HoldInv /\ Next => HoldInv'
    BY HoldMainLoop, HoldMain, HoldFollow, HoldStartCycle, HoldTop, HoldBottom, HoldCleanup,
       HoldRecipe, HoldOutside DEF Next
  <2>2. HoldInv /\ UNCHANGED vars => HoldInv'
    BY DEF HoldInv, InCycle, ByMain, ByRecipe, Own, Handed, Warm, Fit, vars
  <2> QED BY <2>1, <2>2
<1>3. HoldInv => HoldHasSetpoint
  BY DEF HoldInv, HoldHasSetpoint, Warm
<1> QED BY <1>1, <1>2, <1>3, TypeCorrect, PTL DEF Spec

=============================================================================
