-------------------------- MODULE GrillControl_proofs --------------------------
(***************************************************************************)
(* Theorems about GrillControl, for every value of its constants.          *)
(***************************************************************************)
EXTENDS GrillControl, TLAPS

-----------------------------------------------------------------------------
(* The operators on the control structure return a control structure, and  *)
(* none of them withdraws a pending request.                               *)

\* default_control() is a control structure.
LEMMA DefaultControlType == default_control \in Control
BY ControlStoreAssumption DEF default_control, Control, Mode, Notification, Disarmed, Manual

\* A command that execute() accepts queues a patch.
LEMMA PatchOfType ==
    ASSUME control \in Control, NEW cmd \in Command
    PROVE  PatchOf(cmd) \in Patch
<1>1. CASE cmd \in NotifyCommand
  <2>1. cmd.kind = "notify.set" /\ cmd.item \in Item /\ cmd.entry \in Notification
    BY <1>1 DEF NotifyCommand
  <2>2. control.notify \in [Item -> Notification]
    BY DEF Control
  <2>3. [control.notify EXCEPT ![cmd.item] = cmd.entry] \in [Item -> Notification]
    BY <2>1, <2>2
  <2> QED BY <2>1, <2>3 DEF PatchOf, Patch, NotifyPatch
<1>2. CASE cmd \in PlainPatch
  <2>1. cmd.kind # "notify.set"
    BY <1>2 DEF PlainPatch, ModePatch, HoldPatch, PrimePatch, UnitsPatch, ContinuePatch,
                ManualPatch
  <2> QED BY <1>2, <2>1 DEF PatchOf, Patch
<1> QED BY <1>1, <1>2 DEF Command

\* Merging a patch.
LEMMA DeepUpdateType ==
    ASSUME NEW c \in Control, NEW p \in Patch
    PROVE  /\ deep_update(c, p) \in Control
           /\ c.updated => deep_update(c, p).updated
<1>1. CASE p \in ModePatch
  BY <1>1 DEF ModePatch, deep_update, Control, Mode
<1>2. CASE p \in HoldPatch
  <2>1. p.setpoint \in Setpoints
    BY <1>2 DEF HoldPatch
  <2>2. \A s \in Setpoints : s \in Int
    BY ControlStoreAssumption
  <2>3. p.setpoint \in Int
    BY <2>1, <2>2
  <2> QED BY <1>2, <2>3 DEF HoldPatch, deep_update, Control, Mode
<1>3. CASE p \in PrimePatch
  BY ZenonT(40), <1>3 DEF PrimePatch, deep_update, Control, Mode
<1>4. CASE p \in UnitsPatch
  BY <1>4 DEF UnitsPatch, deep_update, Control
<1>5. CASE p \in ContinuePatch
  BY <1>5 DEF ContinuePatch, deep_update, Control
<1>6. CASE p \in ManualPatch
  BY <1>6 DEF ManualPatch, deep_update, Control, Manual
<1>7. CASE p \in NotifyPatch
  BY <1>7 DEF NotifyPatch, deep_update, Control
<1> QED BY <1>1, <1>2, <1>3, <1>4, <1>5, <1>6, <1>7 DEF Patch, PlainPatch

\* The item's action.
LEMMA ItemActionType ==
    ASSUME NEW c \in Control, NEW i \in Item
    PROVE  /\ ItemAction(c, i) \in Control
           /\ c.updated => ItemAction(c, i).updated
<1>1. KeepWarmTemp \in Int
  BY NotifyAssumption
<1>2. c.notify \in [Item -> Notification]
  BY DEF Control
<1>3. /\ [c.notify EXCEPT ![i].shutdown = FALSE] \in [Item -> Notification]
      /\ [c.notify EXCEPT ![i].keep_warm = FALSE] \in [Item -> Notification]
  BY <1>2 DEF Notification
<1>4. /\ [c EXCEPT !.mode = "Shutdown", !.updated = TRUE,
                   !.notify[i].shutdown = FALSE] \in Control
      /\ [c EXCEPT !.mode = "Hold", !.updated = TRUE, !.primary_setpoint = KeepWarmTemp,
                   !.notify[i].keep_warm = FALSE] \in Control
  BY <1>1, <1>3 DEF Control, Mode
<1>5. [c EXCEPT !.mode = "Reignite", !.updated = TRUE, !.reignitelaststate = c.mode] \in Control
  BY DEF Control, Mode
<1>6. /\ [c EXCEPT !.mode = "Shutdown", !.updated = TRUE,
                   !.notify[i].shutdown = FALSE].updated
      /\ [c EXCEPT !.mode = "Hold", !.updated = TRUE, !.primary_setpoint = KeepWarmTemp,
                   !.notify[i].keep_warm = FALSE].updated
      /\ [c EXCEPT !.mode = "Reignite", !.updated = TRUE,
                   !.reignitelaststate = c.mode].updated
  BY DEF Control
<1> QED BY <1>4, <1>5, <1>6 DEF ItemAction

\* A pass over a probe target or the timer: the structure stays one, and a
\* request that is pending stays pending.
LEMMA CheckOnceType ==
    ASSUME NEW c \in Control, NEW i \in Item, NEW hit, NEW awaited
    PROVE  /\ CheckOnce(c, i, hit, awaited) \in Control
           /\ c.updated => CheckOnce(c, i, hit, awaited).updated
<1> DEFINE fired == [c EXCEPT !.notify[i].req = FALSE,
                              !.triggered = @ \/ (c.mode = "Recipe" /\ i \in awaited)]
<1>1. c.notify \in [Item -> Notification]
  BY DEF Control
<1>2. [c.notify EXCEPT ![i].req = FALSE] \in [Item -> Notification]
  BY <1>1 DEF Notification
<1>3. fired \in Control /\ fired.updated = c.updated
  BY <1>2 DEF Control
<1>4. /\ ItemAction(fired, i) \in Control
      /\ c.updated => ItemAction(fired, i).updated
  BY <1>3, ItemActionType
<1>5. /\ ItemAction(c, i) \in Control
      /\ c.updated => ItemAction(c, i).updated
  BY ItemActionType
<1> QED BY <1>4, <1>5 DEF CheckOnce

\* The same of a limit.
LEMMA CheckLimitType ==
    ASSUME NEW c \in Control, NEW i \in Item, NEW hit
    PROVE  /\ CheckLimit(c, i, hit) \in Control
           /\ c.updated => CheckLimit(c, i, hit).updated
<1> DEFINE latched == [c EXCEPT !.notify[i].triggered = i \in hit]
<1>1. c.notify \in [Item -> Notification]
  BY DEF Control
<1> DEFINE now == i \in hit
<1>2. now \in BOOLEAN
  OBVIOUS
<1> HIDE DEF now
<1>3. [c.notify EXCEPT ![i].triggered = now] \in [Item -> Notification]
  BY <1>1, <1>2 DEF Notification
<1> USE DEF now
<1>4. latched \in Control /\ latched.updated = c.updated
  BY <1>3 DEF Control
<1>5. /\ ItemAction(latched, i) \in Control
      /\ c.updated => ItemAction(latched, i).updated
  BY <1>4, ItemActionType
<1> QED BY <1>5 DEF CheckLimit

\* A pass over notify_data, of a work cycle or of the main loop.
LEMMA CheckNotifyType ==
    ASSUME NEW c \in Control, NEW hit, NEW awaited
    PROVE  /\ check_notify(c, hit, awaited) \in Control
           /\ c.updated => check_notify(c, hit, awaited).updated
<1>1. "probe" \in Item /\ "limit" \in Item /\ "timer" \in Item
  BY DEF Item
<1> DEFINE p == CheckOnce(c, "probe", hit, awaited)
           l == CheckLimit(p, "limit", hit)
<1>2. p \in Control /\ (c.updated => p.updated)
  BY <1>1, CheckOnceType
<1>3. l \in Control /\ (c.updated => l.updated)
  BY <1>1, <1>2, CheckLimitType
<1> HIDE DEF l, p
<1>4. /\ CheckOnce(l, "timer", hit, awaited) \in Control
      /\ c.updated => CheckOnce(l, "timer", hit, awaited).updated
  BY <1>1, <1>3, CheckOnceType
<1> QED BY <1>4 DEF check_notify, l, p

\* The same of the main loop's pass, which looks at the timer only.
LEMMA CheckNotifyIdleType ==
    ASSUME NEW c \in Control, NEW hit
    PROVE  /\ check_notify_idle(c, hit) \in Control
           /\ c.updated => check_notify_idle(c, hit).updated
<1>1. "probe" \in Item /\ "limit" \in Item /\ "timer" \in Item
  BY DEF Item
<1> DEFINE skip(d, i) == IF d.notify[i].req THEN ItemAction(d, i) ELSE d
           p == skip(c, "probe")
           l == skip(p, "limit")
<1>2. ASSUME NEW d \in Control, NEW i \in Item
      PROVE  skip(d, i) \in Control /\ (d.updated => skip(d, i).updated)
  BY ItemActionType
<1> HIDE DEF skip
<1>3. p \in Control /\ (c.updated => p.updated)
  BY <1>1, <1>2
<1>4. l \in Control /\ (c.updated => l.updated)
  BY <1>1, <1>2, <1>3
<1> HIDE DEF l, p
<1>5. /\ CheckOnce(l, "timer", hit, {}) \in Control
      /\ c.updated => CheckOnce(l, "timer", hit, {}).updated
  BY <1>1, <1>4, CheckOnceType
<1> QED BY <1>5 DEF check_notify_idle, l, p, skip

-----------------------------------------------------------------------------
(* The control process's own changes to the structure.                     *)

\* What main() holds after a call is a control structure.
LEMMA KeptType == \A c \in Control : Kept(c) \in Control
BY ZenonT(40), DefaultControlType DEF Kept, Control

\* So is the structure after a pending change of units.
LEMMA ChangeUnitsType ==
    ASSUME NEW c \in Control
    PROVE  /\ ChangeUnits(c) \in Control
           /\ [ChangeUnits(c) EXCEPT !.status = "active"] \in Control
<1>1. CASE c.units_change
  BY ZenonT(40), <1>1 DEF ChangeUnits, Control, Mode
<1>2. CASE ~c.units_change
  BY <1>2 DEF ChangeUnits, Control
<1> QED BY <1>1, <1>2

\* main()'s own look at the timer neither makes nor withdraws a request.
LEMMA ExpireTimerType ==
    ASSUME NEW c \in Control
    PROVE  ExpireTimer(c) \in Control /\ ExpireTimer(c).updated = c.updated
<1>1. c.notify \in [Item -> Notification] /\ "timer" \in Item
  BY DEF Control, Item
<1> DEFINE off == [c.notify["timer"] EXCEPT !.req = FALSE, !.shutdown = FALSE,
                                            !.keep_warm = FALSE]
<1>2. off \in Notification
  BY <1>1 DEF Notification
<1> HIDE DEF off
<1>3. [c.notify EXCEPT !["timer"] = off] \in [Item -> Notification]
  BY <1>1, <1>2
<1>4. ExpireTimer(c) = [c EXCEPT !.notify = [c.notify EXCEPT !["timer"] = off]]
  BY <1>1 DEF ExpireTimer, off, Control
<1> QED BY <1>3, <1>4 DEF Control

\* A flameout makes a request, and takes a retry only when there is one left.
LEMMA FlameoutType ==
    ASSUME TypeOK, NEW c \in Control, cycle \in Mode
    PROVE  Flameout(c) \in Control /\ Flameout(c).updated
<1>1. CASE c.reigniteretries = 0
  BY <1>1 DEF Flameout, Control, Mode
<1>2. CASE c.reigniteretries # 0
  <2>1. c.reigniteretries - 1 \in Nat
    <3>1. c.reigniteretries \in Nat
      BY DEF Control
    <3>2. \A n \in Nat : n # 0 => n - 1 \in Nat
      OBVIOUS
    <3> QED BY <1>2, <3>1, <3>2
  <2>2. Flameout(c) = [c EXCEPT !.reigniteretries = c.reigniteretries - 1,
                               !.reignitelaststate = cycle, !.mode = "Reignite",
                               !.updated = TRUE]
    BY <1>2 DEF Flameout, Control
  <2> QED BY ZenonT(40), <2>1, <2>2 DEF Control, Mode
<1> QED BY <1>1, <1>2

\* Arming a recipe step's triggers changes notify_data only.
LEMMA ArmTriggersType ==
    ASSUME TypeOK, NEW c \in Control
    PROVE  ArmTriggers(c) \in Control
<1> DEFINE armed == [i \in Item |->
            IF i \notin Awaited(c) THEN c.notify[i]
            ELSE IF i = "timer"
            THEN [c.notify[i] EXCEPT !.req = TRUE, !.shutdown = FALSE, !.keep_warm = FALSE]
            ELSE [c.notify[i] EXCEPT !.req = TRUE]]
<1>1. c.notify \in [Item -> Notification]
  BY DEF Control
<1>2. ASSUME NEW n \in Notification
      PROVE  /\ [n EXCEPT !.req = TRUE, !.shutdown = FALSE, !.keep_warm = FALSE] \in Notification
             /\ [n EXCEPT !.req = TRUE] \in Notification
  BY DEF Notification
<1>3. armed \in [Item -> Notification]
  BY <1>1, <1>2
<1> HIDE DEF armed
<1>4. [c EXCEPT !.notify = armed] \in Control
  BY <1>3 DEF Control
<1> QED BY <1>4 DEF ArmTriggers, armed

\* The bound a flameout is recognised by is a number.
LEMMA StartupTempType == \A t \in Int : StartupTemp(t) \in Int
BY GrillControlAssumption DEF StartupTemp

\* After _next_mode a request is pending, the one it found or its own.
LEMMA FollowingType ==
    ASSUME TypeOK, NEW c \in Control
    PROVE  Following(c) \in Control /\ Following(c).updated
<1>1. main.next_mode \in Mode /\ main.primary_setpoint \in Int
  BY DEF TypeOK, Control
<1>2. NextSetpoint \in Int
  BY <1>1, GrillControlAssumption DEF NextSetpoint
<1>3. CASE c.updated
  BY <1>3 DEF Following
<1>4. CASE ~c.updated
  <2> DEFINE setpoint == IF main.next_mode = "Hold" THEN NextSetpoint ELSE 0
  <2>1. setpoint \in Int
    BY <1>2
  <2>2. Following(c) = [c EXCEPT !.mode = main.next_mode, !.updated = TRUE,
                                !.primary_setpoint = setpoint]
    BY <1>4 DEF Following
  <2> HIDE DEF setpoint
  <2> QED BY <1>1, <2>1, <2>2 DEF Control
<1> QED BY <1>3, <1>4

\* At the end of a recipe a request is pending: the one that ended it, or Stop.
LEMMA RecipeOverType ==
    ASSUME NEW c \in Control
    PROVE  RecipeOver(c) \in Control /\ RecipeOver(c).updated
BY ZenonT(40) DEF RecipeOver, Control, Mode

\* A recipe step's data.
LEMMA StepType ==
    ASSUME NEW n \in DOMAIN RecipeSteps
    PROVE  RecipeSteps[n] \in RecipeStep /\ RecipeSteps[n].mode \in Mode
           /\ RecipeSteps[n].hold_temp \in Int /\ RecipeSteps[n].pause \in BOOLEAN
<1>1. RecipeSteps[n] \in RecipeStep
  BY GrillControlAssumption
<1> QED BY <1>1 DEF RecipeStep, Mode

-----------------------------------------------------------------------------
(* Type correctness.                                                       *)

\* The initial states are well typed.
LEMMA InitType == Init => TypeOK
<1> SUFFICES ASSUME Init PROVE TypeOK
  OBVIOUS
<1>1. control \in Control /\ main \in Control /\ local \in Control
  BY DefaultControlType DEF Init
<1>2. queue \in Seq(Patch)
  BY DEF Init
<1>3. pc \in Place /\ cycle \in Mode \cup {"none"}
      /\ caller \in {"none", "mode", "prime", "recipe", "recipeReignite"}
  BY DEF Init, Place, InCycle
<1>4. step \in Nat /\ ptemp \in Int /\ outputs \subseteq Outputs /\ reignites \in Nat
  BY DEF Init
<1>5. /\ monitor \in {"off", "counting", "fired"} /\ halting \in BOOLEAN
      /\ switch \in BOOLEAN /\ lastMain \in BOOLEAN /\ lastCycle \in BOOLEAN
  BY DEF Init
<1> QED BY <1>1, <1>2, <1>3, <1>4, <1>5 DEF TypeOK

\* The branches of main() are well typed.
LEMMA EnterModeType ==
    ASSUME TypeOK, NEW c \in Control, NEW stored \in Control, EnterMode(c, stored)
    PROVE  /\ control' \in Control /\ main' \in Control
           /\ pc' \in Place
           /\ cycle' \in Mode \cup {"none"}
           /\ caller' \in {"none", "mode", "prime", "recipe", "recipeReignite"}
           /\ outputs' \subseteq Outputs
<1> USE DEF Place, InCycle, Call
<1>1. /\ [c EXCEPT !.mode = "Prime"] \in Control
      /\ [c EXCEPT !.next_mode = AfterStartup] \in Control
      /\ [c EXCEPT !.next_mode = "Stop"] \in Control
      /\ [c EXCEPT !.status = "monitor"] \in Control
      /\ [c EXCEPT !.next_mode = c.reignitelaststate] \in Control
  BY ZenonT(40), GrillControlAssumption DEF Control, Mode
<1>2. /\ Kept([c EXCEPT !.mode = "Prime"]) \in Control
      /\ Kept([c EXCEPT !.next_mode = AfterStartup]) \in Control
      /\ Kept([c EXCEPT !.next_mode = "Stop"]) \in Control
      /\ Kept([c EXCEPT !.status = "monitor"]) \in Control
      /\ Kept([c EXCEPT !.next_mode = c.reignitelaststate]) \in Control
      /\ Kept(c) \in Control
  BY <1>1, KeptType
<1>3. StopOutputs(c) \subseteq Outputs
  BY DEF StopOutputs, Outputs
<1>4. control' \in Control /\ main' \in Control
  BY <1>1, <1>2 DEF EnterMode
<1>5. pc' \in Place
  BY DEF EnterMode
<1>6. outputs' \subseteq Outputs
  BY <1>3 DEF EnterMode, TypeOK
<1>7. cycle' \in Mode \cup {"none"}
  BY DEF EnterMode, TypeOK, Mode
<1>8. caller' \in {"none", "mode", "prime", "recipe", "recipeReignite"}
  BY DEF EnterMode, TypeOK
<1> QED BY <1>4, <1>5, <1>6, <1>7, <1>8

\* A step of main()'s loop.
LEMMA MainLoopType == TypeOK /\ MainLoop => TypeOK'
<1> SUFFICES ASSUME TypeOK, MainLoop PROVE TypeOK'
  OBVIOUS
<1>1. PICK expired, late \in BOOLEAN :
         LET armed == control.notify["timer"].req
             c == check_notify_idle(control, IF expired THEN {"timer"} ELSE {})
             d == IF late /\ c.notify["timer"].req THEN ExpireTimer(c) ELSE c
         IN  /\ armed \/ ~(expired \/ late)
             /\ IF armed /\ expired /\ control.mode = "Recipe"
                THEN /\ pc' \in {"dead", "boot"}
                     /\ UNCHANGED <<control, main, outputs, cycle, caller>>
                ELSE IF d.updated /\ ~d.critical_error
                THEN Dispatch(d)
                ELSE /\ main' = Kept(d) /\ control' = d /\ pc' = "main"
                     /\ UNCHANGED <<outputs, cycle, caller>>
  BY DEF MainLoop
<1> DEFINE c == check_notify_idle(control, IF expired THEN {"timer"} ELSE {})
           d == IF late /\ c.notify["timer"].req THEN ExpireTimer(c) ELSE c
<1>2. c \in Control
  BY CheckNotifyIdleType DEF TypeOK
<1>3. d \in Control
  BY <1>2, ExpireTimerType
<1> HIDE DEF c, d
<1>4. \/ pc' \in {"dead", "boot"} /\ UNCHANGED <<control, main, outputs, cycle, caller>>
      \/ Dispatch(d)
      \/ /\ main' = Kept(d) /\ control' = d /\ pc' = "main"
         /\ UNCHANGED <<outputs, cycle, caller>>
  BY <1>1 DEF c, d
<1> DEFINE Changed == /\ control' \in Control /\ main' \in Control
                      /\ pc' \in Place
                      /\ cycle' \in Mode \cup {"none"}
                      /\ caller' \in {"none", "mode", "prime", "recipe", "recipeReignite"}
                      /\ outputs' \subseteq Outputs
<1>5. ASSUME Dispatch(d) PROVE Changed
  <2>1. /\ [d EXCEPT !.updated = FALSE] \in Control
        /\ [[d EXCEPT !.updated = FALSE] EXCEPT !.status = "active"] \in Control
    BY <1>3 DEF Control
  <2>2. /\ ChangeUnits([d EXCEPT !.updated = FALSE]) \in Control
        /\ [ChangeUnits([d EXCEPT !.updated = FALSE]) EXCEPT !.status = "active"] \in Control
    BY <2>1, ChangeUnitsType
  <2>3. PICK e, stored \in Control : EnterMode(e, stored)
    BY <1>5, <2>1, <2>2 DEF Dispatch
  <2> QED BY <2>3, EnterModeType
<1>6. ASSUME pc' \in {"dead", "boot"} /\ UNCHANGED <<control, main, outputs, cycle, caller>>
      PROVE  Changed
  BY <1>6 DEF TypeOK, Place
<1>7. ASSUME /\ main' = Kept(d) /\ control' = d /\ pc' = "main"
             /\ UNCHANGED <<outputs, cycle, caller>>
      PROVE  Changed
  BY <1>3, <1>7, KeptType DEF TypeOK, Place
<1>8. Changed
  BY <1>4, <1>5, <1>6, <1>7
<1> QED BY <1>8 DEF MainLoop, TypeOK, inputs

\* The start of a work cycle.
LEMMA StartCycleType == TypeOK /\ StartCycle => TypeOK'
<1> SUFFICES ASSUME TypeOK, StartCycle PROVE TypeOK'
  OBVIOUS
<1>1. PICK t \in PitTemps :
         LET c == ArmTriggers(control)
             out == /\ cycle \in {"Smoke", "Hold"}
                    /\ c.afterstarttemp < c.startuptemp
         IN  /\ ptemp' = t
             /\ control' = IF cycle \in {"Startup", "Reignite"}
                           THEN [c EXCEPT !.startuptemp = StartupTemp(t), !.afterstarttemp = t]
                           ELSE IF out THEN Flameout(c) ELSE c
             /\ IF out THEN CountReignite(c) ELSE UNCHANGED reignites
             /\ IF out \/ (cycle = "Hold" /\ ~ControllerLoads)
                THEN pc' = "cleanup" /\ local' = control'
                ELSE pc' = "top" /\ local' = default_control
  BY DEF StartCycle
<1> DEFINE c == ArmTriggers(control)
<1>2. c \in Control
  BY ArmTriggersType DEF TypeOK
<1> HIDE DEF c
<1>3. t \in Int /\ StartupTemp(t) \in Int
  BY GrillControlAssumption, StartupTempType
<1>4. [c EXCEPT !.startuptemp = StartupTemp(t), !.afterstarttemp = t] \in Control
  BY <1>2, <1>3 DEF Control
<1>5. cycle \in {"Smoke", "Hold"} => Flameout(c) \in Control
  BY <1>2, FlameoutType DEF Mode
<1>6. control' \in Control /\ local' \in Control /\ pc' \in Place
  BY <1>1, <1>2, <1>4, <1>5, DefaultControlType DEF c, Place, InCycle
<1>7. reignites' \in Nat
  BY <1>1 DEF CountReignite, TypeOK
<1>8. outputs' \subseteq Outputs
  BY DEF StartCycle, StartOutputs, Outputs
<1> QED BY <1>1, <1>3, <1>6, <1>7, <1>8 DEF StartCycle, TypeOK

\* The two halves of an iteration of a work cycle.
LEMMA IterationTopType == TypeOK /\ IterationTop => TypeOK'
<1> SUFFICES ASSUME TypeOK, IterationTop PROVE TypeOK'
  OBVIOUS
<1>1. SwitchedOff(control) \in Control
  BY ZenonT(40) DEF SwitchedOff, TypeOK, Control, Mode
<1>2. [control EXCEPT !.manual = [change |-> "none", output |-> FALSE]] \in Control
  BY DEF TypeOK, Control, Manual
<1>3. control' \in Control
  BY <1>1, <1>2 DEF IterationTop, TypeOK
<1>4. local' \in Control
  BY <1>1, <1>3 DEF IterationTop, TypeOK
<1>5. ManualChange(control) => Overridden(control.manual) \subseteq Outputs
  <2>1. control.manual \in Manual
    BY DEF TypeOK, Control
  <2> QED BY <2>1 DEF ManualChange, Overridden, TypeOK, Manual
<1>6. outputs' \subseteq Outputs
  BY <1>5 DEF IterationTop, TypeOK
<1>7. pc' \in Place /\ ptemp' \in Int /\ lastCycle' \in BOOLEAN
  BY GrillControlAssumption DEF IterationTop, TypeOK, Place, InCycle
<1> QED BY <1>3, <1>4, <1>6, <1>7 DEF IterationTop, TypeOK

\* The second half: whatever the iteration finds, what it writes back and keeps
\* is a control structure.
LEMMA IterationBottomType == TypeOK /\ IterationBottom => TypeOK'
<1> SUFFICES ASSUME TypeOK, IterationBottom PROVE TypeOK'
  OBVIOUS
<1>1. PICK hit \in SUBSET {i \in Item : local.notify[i].req}, elapsed \in BOOLEAN :
         LET n == check_notify(local, hit, Awaited(local))
             noticed == IF NotifyWrites(local) THEN n ELSE control
             hot == [n EXCEPT !.mode = "Error", !.updated = TRUE]
             Leave(c, stored) == local' = c /\ control' = stored /\ pc' = "cleanup"
         IN  IF cycle \in {"Smoke", "Hold"} /\ ptemp < n.startuptemp
             THEN Leave(Flameout(n), Flameout(n)) /\ CountReignite(n)
             ELSE /\ UNCHANGED reignites
                  /\ IF elapsed /\ cycle \in {"Startup", "Reignite", "Shutdown", "Prime"}
                     THEN Leave(n, noticed)
                     ELSE IF ptemp > MaxTemp
                     THEN Leave(hot, hot)
                     ELSE IF StepOver(n)
                     THEN Leave(n, noticed)
                     ELSE local' = default_control /\ control' = noticed /\ pc' = "top"
  BY DEF IterationBottom
<1> DEFINE n == check_notify(local, hit, Awaited(local))
<1>2. n \in Control
  BY CheckNotifyType DEF TypeOK
<1> HIDE DEF n
<1>3. [n EXCEPT !.mode = "Error", !.updated = TRUE] \in Control
  BY <1>2 DEF Control, Mode
<1>4. cycle \in {"Smoke", "Hold"} => Flameout(n) \in Control
  BY <1>2, FlameoutType DEF Mode
<1>5. control \in Control /\ reignites \in Nat
  BY DEF TypeOK
<1>6. control' \in Control /\ local' \in Control
  BY <1>1, <1>2, <1>3, <1>4, <1>5, DefaultControlType DEF n
<1>7. pc' \in Place
  BY <1>1 DEF Place, InCycle
<1>8. reignites' \in Nat
  BY <1>1, <1>5 DEF CountReignite
<1> QED BY <1>6, <1>7, <1>8 DEF IterationBottom, TypeOK, inputs

\* The steps of _recipe_mode.
LEMMA RecipeType ==
    TypeOK /\ (RecipeBegin \/ RunStep \/ RecipeNext \/ RecipeResume) => TypeOK'
<1> USE DEF Place, InCycle
<1>1. ASSUME TypeOK, RecipeBegin PROVE TypeOK'
  <2>1. Len(RecipeSteps) \in Nat
    BY GrillControlAssumption
  <2>2. local' \in Control /\ step' \in Nat /\ pc' \in Place
    BY <1>1, <2>1 DEF RecipeBegin, TypeOK
  <2> QED BY <1>1, <2>2 DEF RecipeBegin, TypeOK, store, inputs
<1>2. ASSUME TypeOK, NEW c \in Control, EndRecipe(c)
      PROVE  /\ control' \in Control /\ local' \in Control /\ pc' \in Place
             /\ cycle' \in Mode \cup {"none"} /\ step' \in Nat
             /\ caller' \in {"none", "mode", "prime", "recipe", "recipeReignite"}
  BY <1>2, RecipeOverType, DefaultControlType DEF EndRecipe
<1>3. ASSUME TypeOK, RunStep PROVE TypeOK'
  <2>1. CASE step \in DOMAIN RecipeSteps
    <3> DEFINE now == RecipeSteps[step]
    <3>1. now.mode \in Mode /\ now.hold_temp \in Int /\ now.pause \in BOOLEAN
      BY <2>1, StepType
    <3>2. local' = [local EXCEPT !.triggered = FALSE, !.pause = now.pause,
                       !.primary_setpoint = now.hold_temp, !.updated = FALSE]
      BY <1>3, <2>1 DEF RunStep
    <3>3. pc' = "start" /\ cycle' = now.mode /\ caller' = "recipe" /\ step' = step
          /\ control' = local'
      BY <1>3, <2>1 DEF RunStep, Call
    <3> HIDE DEF now
    <3>4. local' \in Control
      BY <1>3, <3>1, <3>2 DEF TypeOK, Control
    <3> QED BY <1>3, <3>1, <3>3, <3>4 DEF RunStep, TypeOK, inputs
  <2>2. CASE step \notin DOMAIN RecipeSteps
    <3>1. EndRecipe(local)
      BY <1>3, <2>2 DEF RunStep
    <3> QED BY <1>2, <1>3, <3>1 DEF RunStep, TypeOK, inputs
  <2> QED BY <2>1, <2>2
<1>4. ASSUME TypeOK, RecipeNext PROVE TypeOK'
  <2>1. [control EXCEPT !.updated = FALSE, !.mode = "Recipe"] \in Control
    BY <1>4 DEF TypeOK, Control, Mode
  <2>2. CASE control.mode = "Reignite" /\ control.updated
    <3>1. /\ local' \in Control /\ control' \in Control /\ pc' = "start"
          /\ cycle' = "Reignite" /\ caller' = "recipeReignite" /\ step' = step
      BY <1>4, <2>1, <2>2 DEF RecipeNext, Call
    <3> QED BY <1>4, <3>1 DEF RecipeNext, TypeOK, Mode, inputs
  <2>3. CASE ~(control.mode = "Reignite" /\ control.updated) /\ Cancelled(control)
    <3>1. EndRecipe(control)
      BY <1>4, <2>3 DEF RecipeNext
    <3> QED BY <1>2, <1>4, <3>1 DEF RecipeNext, TypeOK, inputs
  <2>4. CASE ~(control.mode = "Reignite" /\ control.updated) /\ ~Cancelled(control)
    <3>1. /\ step' = step + 1 /\ local' = control /\ pc' = "recipeStep"
          /\ UNCHANGED <<control, cycle, caller>>
      BY <1>4, <2>4 DEF RecipeNext
    <3>2. step' \in Nat
      BY <1>4, <3>1 DEF TypeOK
    <3> QED BY <1>4, <3>1, <3>2 DEF RecipeNext, TypeOK, inputs
  <2> QED BY <2>2, <2>3, <2>4
<1>5. ASSUME TypeOK, RecipeResume PROVE TypeOK'
  <2>1. CASE Cancelled(control)
    <3>1. EndRecipe(control)
      BY <1>5, <2>1 DEF RecipeResume
    <3> QED BY <1>2, <1>5, <3>1 DEF RecipeResume, TypeOK, inputs
  <2>2. CASE ~Cancelled(control)
    BY <1>5, <2>2 DEF RecipeResume, TypeOK, inputs
  <2> QED BY <2>1, <2>2
<1> QED BY <1>1, <1>3, <1>4, <1>5

\* The steps in which nothing but the control process's own fields change.
LEMMA MainType ==
    TypeOK /\ (Boot \/ CheckSwitch \/ FinishStop \/ Cleanup \/ NextMode \/ AfterPriming)
        => TypeOK'
<1> USE DEF Place, InCycle
<1>1. ASSUME TypeOK, Boot PROVE TypeOK'
  <2>1. [default_control EXCEPT !.mode = "Monitor"] \in Control
    BY DefaultControlType DEF Control, Mode
  <2>2. control' \in Control /\ main' \in Control /\ queue' \in Seq(Patch)
    BY <1>1, <2>1, DefaultControlType, KeptType DEF Boot, flush_control
  <2>3. /\ local' = default_control /\ pc' = "main" /\ outputs' = {} /\ monitor' = "off"
        /\ reignites' = 0 /\ lastMain' = switch /\ cycle' = "none" /\ caller' = "none"
        /\ step' = 0 /\ ptemp' = 0 /\ UNCHANGED <<switch, lastCycle, halting>>
    BY <1>1 DEF Boot, InitialOutputs
  <2>4. step' \in Nat /\ ptemp' \in Int /\ reignites' \in Nat
    BY <2>3
  <2> QED BY <1>1, <2>2, <2>3, <2>4, DefaultControlType DEF TypeOK
<1>2. ASSUME TypeOK, CheckSwitch PROVE TypeOK'
  <2>1. [main EXCEPT !.updated = TRUE, !.mode = "Stop"] \in Control
    BY <1>2 DEF TypeOK, Control, Mode
  <2>2. control' \in Control /\ main' \in Control /\ lastMain' \in BOOLEAN
    BY <1>2, <2>1 DEF CheckSwitch, TypeOK
  <2> QED BY <1>2, <2>2 DEF CheckSwitch, TypeOK
<1>3. ASSUME TypeOK, FinishStop PROVE TypeOK'
  <2> DEFINE c == [default_control EXCEPT !.mode = main.mode, !.updated = FALSE]
  <2>1. c \in Control /\ [c EXCEPT !.status = "inactive"] \in Control
    BY <1>3, DefaultControlType DEF TypeOK, Control
  <2>2. control' \in Control /\ main' \in Control /\ queue' \in Seq(Patch)
    <3> HIDE DEF c
    <3>1. CASE main.mode = "Stop"
      <4>1. control' = c /\ queue' = <<>> /\ main' = Kept(c)
        BY <1>3, <3>1 DEF FinishStop, flush_control, c
      <4> QED BY <2>1, <4>1, KeptType
    <3>2. CASE main.mode # "Stop"
      <4>1. control' = [c EXCEPT !.status = "inactive"] /\ main' = Kept(control')
            /\ UNCHANGED queue
        BY <1>3, <3>2 DEF FinishStop, c
      <4> QED BY <1>3, <2>1, <4>1, KeptType DEF TypeOK
    <3> QED BY <3>1, <3>2
  <2> QED BY <1>3, <2>2 DEF FinishStop, TypeOK, inputs
<1>4. ASSUME TypeOK, Cleanup PROVE TypeOK'
  <2>1. [local EXCEPT !.afterstarttemp = ptemp] \in Control
    BY <1>4 DEF TypeOK, Control
  <2>2. control' \in Control /\ local' \in Control
    BY <1>4, <2>1, DefaultControlType DEF Cleanup, TypeOK
  <2>3. outputs' \subseteq Outputs
    BY <1>4 DEF Cleanup, EndOutputs, TypeOK
  <2>4. pc' \in Place
    BY <1>4 DEF Cleanup
  <2>5. ptemp' \in Int
    BY <1>4 DEF Cleanup
  <2>6. monitor' \in {"off", "counting", "fired"}
    BY <1>4 DEF Cleanup
  <2>7. UNCHANGED <<queue, main, cycle, caller, step, switch, lastMain, lastCycle, halting,
                    reignites>>
    BY <1>4 DEF Cleanup, inputs
  <2> QED BY <1>4, <2>2, <2>3, <2>4, <2>5, <2>6, <2>7 DEF TypeOK
<1>5. ASSUME TypeOK, NextMode PROVE TypeOK'
  <2>1. control' \in Control
    BY <1>5, FollowingType DEF NextMode, TypeOK
  <2>2. halting' \in BOOLEAN
    BY <1>5 DEF NextMode
  <2> QED BY <1>5, <2>1, <2>2 DEF NextMode, TypeOK, inputs
<1>6. ASSUME TypeOK, AfterPriming PROVE TypeOK'
  <2>1. [control EXCEPT !.updated = FALSE, !.mode = "Startup", !.next_mode = AfterStartup]
            \in Control
    <3>1. AfterStartup \in Mode /\ control \in Control
      BY <1>6, GrillControlAssumption DEF TypeOK, Mode
    <3> QED BY <3>1 DEF Control, Mode
  <2>2. control' \in Control /\ main' \in Control
    BY <1>6, <2>1, KeptType DEF AfterPriming, TypeOK
  <2>3. pc' \in Place /\ cycle' \in Mode \cup {"none"}
        /\ caller' \in {"none", "mode", "prime", "recipe", "recipeReignite"}
    BY <1>6 DEF AfterPriming, Call, TypeOK, Mode
  <2> QED BY <1>6, <2>2, <2>3 DEF AfterPriming, TypeOK, inputs
<1> QED BY <1>1, <1>2, <1>3, <1>4, <1>5, <1>6

\* The outside world's steps, and the merge of a patch.
LEMMA OutsideType ==
    TypeOK /\ (\/ Merge \/ Client \/ ToggleSwitch \/ Hang \/ Resume \/ Exception
               \/ HeartbeatLost \/ Restart \/ RedisRestart)
        => TypeOK'
<1> USE DEF Place, InCycle
<1>1. ASSUME TypeOK, Merge PROVE TypeOK'
  <2>1. Head(queue) \in Patch /\ Tail(queue) \in Seq(Patch)
    BY <1>1 DEF Merge, MergeWrite, TypeOK
  <2>2. control' \in Control /\ queue' \in Seq(Patch)
    BY <1>1, <2>1, DeepUpdateType DEF Merge, MergeWrite, TypeOK
  <2> QED BY <1>1, <2>2 DEF Merge, TypeOK, thread, inputs
<1>2. ASSUME TypeOK, Client PROVE TypeOK'
  <2>1. PICK cmd \in ClientCommands : execute(cmd, AllowManual)
    BY <1>2 DEF Client
  <2>2. PatchOf(cmd) \in Patch
    BY <1>2, <2>1, ControlStoreAssumption, PatchOfType DEF TypeOK
  <2>3. queue' \in Seq(Patch) /\ control' \in Control
    BY <1>2, <2>1, <2>2 DEF execute, TypeOK
  <2> QED BY <1>2, <2>3 DEF Client, TypeOK, thread, inputs
<1>3. ASSUME TypeOK, ToggleSwitch PROVE TypeOK'
  BY <1>3 DEF ToggleSwitch, TypeOK, store, thread
<1>4. ASSUME TypeOK, Hang \/ Resume \/ Exception \/ Restart PROVE TypeOK'
  BY ZenonT(40), <1>4 DEF Hang, Resume, Exception, Restart, TypeOK, store, inputs
<1>5. ASSUME TypeOK, HeartbeatLost PROVE TypeOK'
  <2>1. control' \in Control
    BY ZenonT(40), <1>5 DEF HeartbeatLost, TypeOK, Control, Mode
  <2> QED BY <1>5, <2>1 DEF HeartbeatLost, TypeOK, inputs
<1>6. ASSUME TypeOK, RedisRestart PROVE TypeOK'
  BY <1>6, DefaultControlType DEF RedisRestart, flush_control, TypeOK, thread, inputs
<1> QED BY <1>1, <1>2, <1>3, <1>4, <1>5, <1>6

\* Type correctness is inductive.
LEMMA TypeStep == TypeOK /\ [Next]_vars => TypeOK'
<1>1. TypeOK /\ Next => TypeOK'
  BY MainLoopType, StartCycleType, IterationTopType, IterationBottomType, RecipeType,
     MainType, OutsideType DEF Next
<1>2. TypeOK /\ UNCHANGED vars => TypeOK'
  BY DEF TypeOK, vars
<1> QED BY <1>1, <1>2

\* Every state the control process can be in is well typed: in particular the
\* retries never go below zero, and everything queued is a patch.
THEOREM TypeCorrect == Spec => []TypeOK
BY InitType, TypeStep, PTL DEF Spec

-----------------------------------------------------------------------------
(* Fuel is watched.  FuelIsWatched alone is not inductive: the monitor      *)
(* stops at the end of a cycle, so the strengthening says where fuel may be *)
(* on at all, and that a monitor which has fired takes the process with it  *)
(* unless its command does nothing.                                        *)

\* Where the igniter and the auger may be on, and the monitor is not off.
FuelInv ==
    /\ monitor \in {"off", "counting", "fired"}
    /\ pc \in InCycle => monitor # "off"
    /\ outputs \cap Fuel # {} => pc \in InCycle \cup {"boot", "dead"}
    /\ pc = "dead" => monitor # "off" \/ outputs \cap Fuel = {}
    /\ monitor = "fired" => ~RestartWorks \/ pc = "boot"

\* The invariant is strong enough.
LEMMA FuelInvImplies == FuelInv => FuelIsWatched
BY DEF FuelInv, FuelIsWatched, InCycle

\* It holds before the control process has started.
LEMMA FuelInit == Init => FuelInv
BY DEF Init, FuelInv, InCycle

\* The steps of the work cycle keep the monitor counting while fuel is on.
LEMMA FuelInCycle ==
    FuelInv /\ (StartCycle \/ IterationTop \/ IterationBottom \/ Cleanup) => FuelInv'
<1>1. ASSUME FuelInv, StartCycle PROVE FuelInv'
  <2>1. monitor' = "counting" /\ pc' \in {"cleanup", "top"}
    BY <1>1 DEF StartCycle
  <2> QED BY <2>1 DEF FuelInv, InCycle
<1>2. ASSUME FuelInv, IterationTop PROVE FuelInv'
  <2>1. pc = "top" /\ monitor' = monitor /\ pc' \in {"cleanup", "bottom"}
    BY <1>2 DEF IterationTop
  <2> QED BY <1>2, <2>1 DEF FuelInv, InCycle
<1>3. ASSUME FuelInv, IterationBottom PROVE FuelInv'
  <2>1. pc = "bottom" /\ monitor' = monitor /\ pc' \in {"cleanup", "top"}
    BY <1>3 DEF IterationBottom
  <2> QED BY <1>3, <2>1 DEF FuelInv, InCycle
<1>4. ASSUME FuelInv, Cleanup PROVE FuelInv'
  <2>1. outputs' \cap Fuel = {} /\ monitor' = "off"
    BY <1>4 DEF Cleanup, EndOutputs, Fuel
  <2>2. pc' \in {"primed", "recipeNext", "recipeResume", "main", "next"}
    BY <1>4 DEF Cleanup
  <2> QED BY <2>1, <2>2 DEF FuelInv, InCycle
<1> QED BY <1>1, <1>2, <1>3, <1>4

\* Outside a work cycle nothing turns fuel on.
LEMMA FuelOutsideCycle ==
    FuelInv /\ (\/ Boot \/ CheckSwitch \/ Merge \/ MainLoop \/ FinishStop \/ NextMode
                \/ AfterPriming \/ RecipeBegin \/ RunStep \/ RecipeNext \/ RecipeResume)
        => FuelInv'
<1> DEFINE Off == {"main", "merge", "stopping", "next", "primed", "recipe", "recipeStep",
                   "recipeNext", "recipeResume"}
           After == Off \cup {"start", "dead", "boot"}
<1>1. ASSUME FuelInv, Boot PROVE FuelInv'
  BY <1>1 DEF Boot, InitialOutputs, FuelInv, InCycle
<1>2. ASSUME FuelInv, Merge PROVE FuelInv'
  BY <1>2 DEF Merge, thread, FuelInv
<1>3. ASSUME FuelInv, pc \in Off, pc' \in After, monitor' = monitor,
             outputs' = outputs \/ outputs' \cap Fuel = {}
      PROVE  FuelInv'
  <2>1. outputs' \cap Fuel = {}
    BY <1>3 DEF FuelInv, InCycle
  <2> QED BY <1>3, <2>1 DEF FuelInv, InCycle
<1>4. ASSUME FuelInv, MainLoop PROVE FuelInv'
  <2>1. \/ pc' \in {"dead", "boot"} /\ UNCHANGED outputs
        \/ pc' = "main" /\ UNCHANGED outputs
        \/ \E c, stored : EnterMode(c, stored)
    BY <1>4 DEF MainLoop, Dispatch
  <2>2. ASSUME NEW c, NEW stored, EnterMode(c, stored)
        PROVE  /\ pc' \in {"stopping", "start", "recipe"}
               /\ outputs' = outputs \/ outputs' \cap Fuel = {}
    <3>1. StopOutputs(c) \cap Fuel = {}
      BY DEF StopOutputs, Fuel
    <3> QED BY <2>2, <3>1 DEF EnterMode, Call
  <2>3. pc' \in After /\ (outputs' = outputs \/ outputs' \cap Fuel = {})
    BY <2>1, <2>2
  <2> QED BY <1>3, <1>4, <2>3 DEF MainLoop
<1>5. ASSUME FuelInv, CheckSwitch \/ FinishStop \/ NextMode \/ AfterPriming PROVE FuelInv'
  <2>1. pc \in Off /\ pc' \in After /\ UNCHANGED <<outputs, monitor>>
    BY <1>5 DEF CheckSwitch, FinishStop, NextMode, AfterPriming, Call
  <2> QED BY <1>3, <1>5, <2>1
<1>6. ASSUME FuelInv, RecipeBegin \/ RunStep \/ RecipeNext \/ RecipeResume PROVE FuelInv'
  <2>1. pc \in Off /\ pc' \in After /\ UNCHANGED <<outputs, monitor>>
    BY <1>6 DEF RecipeBegin, RunStep, RecipeNext, RecipeResume, EndRecipe, Call
  <2> QED BY <1>3, <1>6, <2>1
<1> QED BY <1>1, <1>2, <1>4, <1>5, <1>6

\* The outside world: a lost heartbeat stops the monitor, and where the restart
\* works it takes the process with it.
LEMMA FuelOutside ==
    FuelInv /\ (\/ Client \/ ToggleSwitch \/ Hang \/ Resume \/ Exception
                \/ HeartbeatLost \/ Restart \/ RedisRestart)
        => FuelInv'
<1>1. ASSUME FuelInv, Client \/ ToggleSwitch \/ RedisRestart PROVE FuelInv'
  BY <1>1 DEF Client, ToggleSwitch, RedisRestart, thread, FuelInv
<1>2. ASSUME FuelInv, Hang \/ Resume PROVE FuelInv'
  BY <1>2 DEF Hang, Resume, FuelInv, InCycle
<1>3. ASSUME FuelInv, Exception PROVE FuelInv'
  BY <1>3 DEF Exception, FuelInv, InCycle
<1>4. ASSUME FuelInv, HeartbeatLost PROVE FuelInv'
  <2>1. monitor' = "fired" /\ outputs' = outputs
    BY <1>4 DEF HeartbeatLost
  <2>2. CASE RestartWorks
    <3>1. pc' = "boot"
      BY <1>4, <2>2 DEF HeartbeatLost
    <3> QED BY <2>1, <3>1 DEF FuelInv, InCycle
  <2>3. CASE ~RestartWorks
    <3>1. pc' = pc
      BY <1>4, <2>3 DEF HeartbeatLost
    <3> QED BY <1>4, <2>1, <2>3, <3>1 DEF FuelInv, InCycle
  <2> QED BY <2>2, <2>3
<1>5. ASSUME FuelInv, Restart PROVE FuelInv'
  BY <1>5 DEF Restart, FuelInv, InCycle
<1> QED BY <1>1, <1>2, <1>3, <1>4, <1>5

\* The igniter and the auger are never on without the process monitor counting,
\* however the control process hangs, dies or is restarted and whatever is asked of
\* it, under any name the monitor may give supervisorctl: only where that name is
\* wrong do they outlast the monitor, and then it has fired first.
THEOREM FuelWatched == Spec => []FuelIsWatched
<1>1. FuelInv /\ [Next]_vars => FuelInv'
  <2>1. FuelInv /\ Next => FuelInv'
    BY FuelInCycle, FuelOutsideCycle, FuelOutside DEF Next
  <2>2. FuelInv /\ UNCHANGED vars => FuelInv'
    BY DEF FuelInv, vars
  <2> QED BY <2>1, <2>2
<1> QED BY <1>1, FuelInit, FuelInvImplies, PTL DEF Spec

-----------------------------------------------------------------------------
(* An idle main loop keeps no output on.  Inductive together with what the  *)
(* two ways back into the loop have switched off, and with the fact that    *)
(* what prime-on-startup waits for is a Prime cycle.                        *)

\* IdleIsOff, and the outputs at the places the main loop is entered from.
IdleInv ==
    /\ IdleIsOff
    /\ pc = "stopping" => outputs \subseteq {"power"}
    /\ pc = "primed" => outputs = {}
    /\ caller = "prime" => cycle = "Prime"

\* It holds before the control process has started.
LEMMA IdleInit == Init => IdleInv
BY DEF Init, IdleInv, IdleIsOff, Idle

\* Entering a mode leaves the main loop, for Stop and Error with the outputs off.
LEMMA IdleEnterMode ==
    ASSUME IdleInv, NEW c, NEW stored, EnterMode(c, stored)
    PROVE  IdleInv'
<1>1. StopOutputs(c) \subseteq {"power"}
  BY DEF StopOutputs
<1>2. \/ pc' = "stopping" /\ outputs' = StopOutputs(c) /\ caller' = caller /\ cycle' = cycle
      \/ /\ pc' = "start"
         /\ caller' = "mode" \/ (caller' = "prime" /\ cycle' = "Prime")
      \/ pc' = "recipe" /\ caller' = caller /\ cycle' = cycle
  BY DEF EnterMode, Call
<1> QED BY <1>1, <1>2 DEF IdleInv, IdleIsOff, Idle

\* Nothing in an iteration of the main loop withdraws a request, so a loop that
\* is idle afterwards was idle before.
LEMMA IdleMainLoop == TypeOK /\ IdleInv /\ MainLoop => IdleInv'
<1> SUFFICES ASSUME TypeOK, IdleInv, MainLoop PROVE IdleInv'
  OBVIOUS
<1>1. PICK expired, late \in BOOLEAN :
         LET armed == control.notify["timer"].req
             c == check_notify_idle(control, IF expired THEN {"timer"} ELSE {})
             d == IF late /\ c.notify["timer"].req THEN ExpireTimer(c) ELSE c
         IN  /\ armed \/ ~(expired \/ late)
             /\ IF armed /\ expired /\ control.mode = "Recipe"
                THEN /\ pc' \in {"dead", "boot"}
                     /\ UNCHANGED <<control, main, outputs, cycle, caller>>
                ELSE IF d.updated /\ ~d.critical_error
                THEN Dispatch(d)
                ELSE /\ main' = Kept(d) /\ control' = d /\ pc' = "main"
                     /\ UNCHANGED <<outputs, cycle, caller>>
  BY DEF MainLoop
<1> DEFINE c == check_notify_idle(control, IF expired THEN {"timer"} ELSE {})
           d == IF late /\ c.notify["timer"].req THEN ExpireTimer(c) ELSE c
<1>2. c \in Control /\ (control.updated => c.updated)
  BY CheckNotifyIdleType DEF TypeOK
<1>3. control.updated => d.updated
  BY <1>2, ExpireTimerType
<1> HIDE DEF c, d
<1>4. \/ pc' \in {"dead", "boot"} /\ UNCHANGED <<control, main, outputs, cycle, caller>>
      \/ Dispatch(d)
      \/ /\ main' = Kept(d) /\ control' = d /\ pc' = "main"
         /\ UNCHANGED <<outputs, cycle, caller>>
  BY <1>1 DEF c, d
<1>5. ASSUME pc' \in {"dead", "boot"} /\ UNCHANGED <<control, main, outputs, cycle, caller>>
      PROVE  IdleInv'
  BY <1>5 DEF IdleInv, IdleIsOff, Idle
<1>6. ASSUME Dispatch(d) PROVE IdleInv'
  <2>1. PICK e, stored : EnterMode(e, stored)
    BY <1>6 DEF Dispatch
  <2> QED BY <2>1, IdleEnterMode
<1>7. ASSUME control' = d, pc' = "main", UNCHANGED <<outputs, cycle, caller>>
      PROVE  IdleInv'
  <2>1. pc = "merge"
    BY DEF MainLoop
  <2> QED BY <1>3, <1>7, <2>1 DEF IdleInv, IdleIsOff, Idle
<1> QED BY <1>4, <1>5, <1>6, <1>7

\* The other steps of main(): the switch only adds a request, Stop and
\* prime-on-startup come back with the outputs off, a cycle's end makes a request.
LEMMA IdleMain ==
    TypeOK /\ IdleInv /\ (Boot \/ CheckSwitch \/ Merge \/ FinishStop \/ NextMode \/ AfterPriming)
        => IdleInv'
<1>1. ASSUME IdleInv, Boot PROVE IdleInv'
  BY <1>1 DEF Boot, InitialOutputs, IdleInv, IdleIsOff, Idle
<1>2. ASSUME TypeOK, IdleInv, CheckSwitch PROVE IdleInv'
  <2>1. control' = control \/ control'.updated
    <3>1. [main EXCEPT !.updated = TRUE, !.mode = "Stop"].updated
      BY <1>2 DEF TypeOK, Control
    <3> QED BY <1>2, <3>1 DEF CheckSwitch
  <2>2. pc = "main" /\ pc' = "merge" /\ UNCHANGED <<outputs, cycle, caller>>
    BY <1>2 DEF CheckSwitch
  <2> QED BY <1>2, <2>1, <2>2 DEF IdleInv, IdleIsOff, Idle
<1>3. ASSUME TypeOK, IdleInv, Merge PROVE IdleInv'
  <2>1. Head(queue) \in Patch /\ control \in Control
    BY <1>3 DEF Merge, MergeWrite, TypeOK
  <2>2. control.updated => control'.updated
    BY <1>3, <2>1, DeepUpdateType DEF Merge, MergeWrite
  <2>3. UNCHANGED <<pc, outputs, cycle, caller>>
    BY <1>3 DEF Merge, thread
  <2> QED BY <1>3, <2>2, <2>3 DEF IdleInv, IdleIsOff, Idle
<1>4. ASSUME IdleInv, FinishStop PROVE IdleInv'
  <2>1. pc = "stopping" /\ pc' = "main" /\ UNCHANGED <<outputs, cycle, caller>>
    BY <1>4 DEF FinishStop
  <2> QED BY <1>4, <2>1 DEF IdleInv, IdleIsOff, Idle
<1>5. ASSUME TypeOK, IdleInv, NextMode PROVE IdleInv'
  <2>1. Following(control).updated
    BY <1>5, FollowingType DEF TypeOK
  <2>2. pc' = "main" /\ caller' = "none" /\ control' = Following(control)
    BY <1>5 DEF NextMode
  <2> QED BY <2>1, <2>2 DEF IdleInv, IdleIsOff, Idle
<1>6. ASSUME IdleInv, AfterPriming PROVE IdleInv'
  <2>1. \/ pc' = "start" /\ caller' = "mode"
        \/ pc' = "main" /\ caller' = "none"
    BY <1>6 DEF AfterPriming, Call
  <2>2. outputs' = {}
    BY <1>6 DEF AfterPriming, IdleInv
  <2> QED BY <2>1, <2>2 DEF IdleInv, IdleIsOff, Idle
<1> QED BY <1>1, <1>2, <1>3, <1>4, <1>5, <1>6

\* A work cycle ends with every output off before main() is idle again.
LEMMA IdleCycle ==
    IdleInv /\ (StartCycle \/ IterationTop \/ IterationBottom \/ Cleanup) => IdleInv'
<1>1. ASSUME IdleInv, StartCycle \/ IterationTop \/ IterationBottom PROVE IdleInv'
  <2>1. pc' \in {"top", "bottom", "cleanup"} /\ UNCHANGED <<cycle, caller>>
    BY <1>1 DEF StartCycle, IterationTop, IterationBottom
  <2> QED BY <1>1, <2>1 DEF IdleInv, IdleIsOff, Idle
<1>2. ASSUME IdleInv, Cleanup PROVE IdleInv'
  <2>1. UNCHANGED <<cycle, caller>> /\ outputs' = EndOutputs
    BY <1>2 DEF Cleanup
  <2>2. pc' \in {"primed", "recipeNext", "recipeResume", "main", "next"}
    BY <1>2 DEF Cleanup
  <2>3. ASSUME pc' = "main" PROVE outputs' = {}
    <3>1. cycle \in {"Monitor", "Manual"}
      BY <1>2, <2>3 DEF Cleanup
    <3> QED BY <2>1, <3>1 DEF EndOutputs
  <2>4. ASSUME pc' = "primed" PROVE outputs' = {}
    <3>1. cycle = "Prime"
      BY <1>2, <2>4 DEF Cleanup, IdleInv
    <3> QED BY <2>1, <3>1 DEF EndOutputs
  <2> QED BY <1>2, <2>1, <2>2, <2>3, <2>4 DEF IdleInv, IdleIsOff, Idle
<1> QED BY <1>1, <1>2

\* A recipe that could be read leaves with a request pending.
LEMMA IdleRecipe ==
    ASSUME RecipeLoads
    PROVE  TypeOK /\ IdleInv /\ (RecipeBegin \/ RunStep \/ RecipeNext \/ RecipeResume)
               => IdleInv'
<1>1. ASSUME NEW c \in Control, EndRecipe(c) PROVE IdleInv'
  <2>1. control'.updated /\ caller' = "none" /\ pc' = "main"
    BY <1>1, RecipeOverType DEF EndRecipe
  <2> QED BY <2>1 DEF IdleInv, IdleIsOff, Idle
<1>2. ASSUME IdleInv, pc' \in {"start", "recipeStep", "dead"},
             (caller' = caller /\ cycle' = cycle) \/ caller' \in {"recipe", "recipeReignite"}
      PROVE  IdleInv'
  BY <1>2 DEF IdleInv, IdleIsOff, Idle
<1>3. ASSUME IdleInv, RecipeBegin PROVE IdleInv'
  BY <1>2, <1>3, RecipeLoads DEF RecipeBegin
<1>4. ASSUME TypeOK, IdleInv, RunStep PROVE IdleInv'
  <2>1. EndRecipe(local) \/ (pc' = "start" /\ caller' = "recipe")
    BY <1>4 DEF RunStep, Call
  <2> QED BY <1>1, <1>2, <1>4, <2>1 DEF TypeOK
<1>5. ASSUME TypeOK, IdleInv, RecipeNext \/ RecipeResume PROVE IdleInv'
  <2>1. \/ EndRecipe(control)
        \/ pc' = "start" /\ caller' = "recipeReignite"
        \/ pc' \in {"recipeStep", "dead"} /\ UNCHANGED <<caller, cycle>>
    BY <1>5 DEF RecipeNext, RecipeResume, Call
  <2> QED BY <1>1, <1>2, <1>5, <2>1 DEF TypeOK
<1> QED BY <1>3, <1>4, <1>5

\* The outside world touches no output, and what it stores is a request.
LEMMA IdleOutside ==
    IdleInv /\ (\/ Client \/ ToggleSwitch \/ Hang \/ Resume \/ Exception
                \/ HeartbeatLost \/ Restart \/ RedisRestart)
        => IdleInv'
<1>1. ASSUME IdleInv, Client \/ ToggleSwitch PROVE IdleInv'
  BY <1>1 DEF Client, execute, ToggleSwitch, store, thread, IdleInv, IdleIsOff, Idle
<1>2. ASSUME IdleInv, Hang \/ Resume \/ Exception \/ Restart PROVE IdleInv'
  BY <1>2 DEF Hang, Resume, Exception, Restart, IdleInv, IdleIsOff, Idle
<1>3. ASSUME IdleInv, HeartbeatLost PROVE IdleInv'
  BY <1>3 DEF HeartbeatLost, IdleInv, IdleIsOff, Idle
<1>4. ASSUME IdleInv, RedisRestart PROVE IdleInv'
  <2>1. control'.updated
    BY <1>4 DEF RedisRestart, flush_control, default_control
  <2> QED BY <1>4, <2>1 DEF RedisRestart, thread, IdleInv, IdleIsOff, Idle
<1> QED BY <1>1, <1>2, <1>3, <1>4

\* Where recipe files can be read, a main loop with nothing to do has the fan,
\* the igniter and the auger off, whatever was asked for and whatever failed.
THEOREM IdleOff ==
    ASSUME RecipeLoads
    PROVE  Spec => []IdleIsOff
<1>1. TypeOK /\ IdleInv /\ [Next]_vars => IdleInv'
  <2>1. TypeOK /\ IdleInv /\ Next => IdleInv'
    BY RecipeLoads, IdleMainLoop, IdleMain, IdleCycle, IdleRecipe, IdleOutside DEF Next
  <2>2. IdleInv /\ UNCHANGED vars => IdleInv'
    BY DEF IdleInv, IdleIsOff, Idle, vars
  <2> QED BY <2>1, <2>2
<1>2. IdleInv => IdleIsOff
  BY DEF IdleInv
<1> QED BY <1>1, <1>2, IdleInit, TypeCorrect, PTL DEF Spec

=============================================================================
