----------------------------- MODULE GrillControl -----------------------------
(***************************************************************************)
(* The control process (control.py): main() and the functions it calls     *)
(* with the grill's outputs in hand, together with the clients that queue  *)
(* patches for it, the ON/OFF switch, and the process monitor's thread.    *)
(*                                                                         *)
(* An action runs from one place where the outside world can interfere to  *)
(* the next: a merge of the write queue, a probe reading, the flush of     *)
(* Stop.  Between two such places only the control thread touches the      *)
(* control structure, so the finer steps cannot be told apart.             *)
(*                                                                         *)
(* Elapsed time is a choice: a Startup, Reignite, Shutdown or Prime cycle  *)
(* may find its duration over at any iteration, an armed timer or probe    *)
(* target may be met at any iteration, and a reading of the pit may be any *)
(* member of PitTemps.                                                     *)
(***************************************************************************)
EXTENDS Notify

CONSTANTS
    PitTemps,         \* the readings of the primary probe
    MinStartupTemp, MaxStartupTemp, MaxTemp, \* settings['safety']
    AfterStartup,     \* settings['startup']['start_to_mode']['after_startup_mode']
    StartSetpoint,    \* ... ['primary_setpoint']
    PrimeOnStartup,   \* settings['startup']['prime_on_startup'] > 0
    PrimeIgnition,    \* settings['globals']['prime_ignition']
    AutoPowerOff,     \* settings['shutdown']['auto_power_off']
    AllowManual,      \* settings['safety']['allow_manual_changes']
    Standalone,       \* settings['platform']['standalone']: there is no switch
    BootToMonitor,    \* settings['globals']['boot_to_monitor']
    ControllerLoads,  \* the selected controller module can be imported
    RecipeLoads,      \* the recipe file is there and can be read
    RecipeSteps,      \* its steps: [mode, hold_temp, awaits, pause]
    RealHardware,     \* is_real_hardware()
    RestartTarget,    \* the program name Process_Monitor gives supervisorctl
    SupervisedProgram,\* the name supervisord knows the control process by
    Failures          \* which failures a run allows

VARIABLES
    pc,        \* where the control thread is
    main,      \* main()'s own dictionary `control`
    local,     \* the dictionary of the running _work_cycle or _recipe_mode,
               \* reset where the code is about to read it anew
    cycle,     \* the mode of the running work cycle
    caller,    \* who called it: main's mode branch, prime-on-startup, a recipe
    step,      \* index of the recipe step
    ptemp,     \* the cycle's last reading of the pit
    outputs,   \* the outputs that may be on: a cycled one stays a member
    monitor,   \* the cycle's process monitor: off, counting, or it has fired
    switch, lastMain, lastCycle, \* the ON/OFF input and the two remembered states
    halting,   \* "shutdown -h now" has been issued
    reignites  \* automatic reignitions since the last Stop or Error

thread == <<pc, cycle, caller, step>>
inputs == <<switch, lastMain, lastCycle>>
vars == <<control, queue, pc, main, local, cycle, caller, step, ptemp, outputs,
          monitor, switch, lastMain, lastCycle, halting, reignites>>

RecipeStep == [mode: {"Startup", "Smoke", "Hold", "Shutdown"},
               hold_temp: Nat, awaits: SUBSET {"probe", "timer"}, pause: BOOLEAN]

ASSUME GrillControlAssumption ==
    /\ PitTemps \subseteq Int /\ PitTemps # {}
    /\ MinStartupTemp \in Int /\ MaxStartupTemp \in Int /\ MaxTemp \in Int
    /\ AfterStartup \in {"Smoke", "Hold"} /\ StartSetpoint \in Nat \ {0}
    /\ {PrimeOnStartup, PrimeIgnition, AutoPowerOff, AllowManual, Standalone,
        BootToMonitor, ControllerLoads, RecipeLoads, RealHardware} \subseteq BOOLEAN
    /\ RecipeSteps \in Seq(RecipeStep)
    /\ Failures \subseteq {"hang", "exception", "redis", "restart"}

Fuel == {"igniter", "auger"}

\* The places of the control thread.  In InCycle a work cycle has the outputs.
InCycle == {"top", "bottom", "hung", "cleanup"}
Place == InCycle \cup {"boot", "main", "merge", "stopping", "start", "next", "primed",
                       "recipe", "recipeStep", "recipeNext", "recipeResume", "dead"}

TypeOK ==
    /\ control \in Control /\ main \in Control /\ local \in Control
    /\ queue \in Seq(Patch)
    /\ pc \in Place
    /\ cycle \in Mode \cup {"none"}
    /\ caller \in {"none", "mode", "prime", "recipe", "recipeReignite"}
    /\ step \in Nat
    /\ ptemp \in Int
    /\ outputs \subseteq Outputs
    /\ monitor \in {"off", "counting", "fired"} /\ halting \in BOOLEAN
    /\ switch \in BOOLEAN /\ lastMain \in BOOLEAN /\ lastCycle \in BOOLEAN
    /\ reignites \in Nat

Init ==
    /\ control = default_control /\ main = default_control /\ local = default_control
    /\ queue = <<>>
    /\ pc = "boot"
    /\ cycle = "none" /\ caller = "none" /\ step = 0 /\ ptemp = 0
    /\ outputs = {}
    /\ monitor = "off" /\ halting = FALSE
    /\ switch = TRUE /\ lastMain = TRUE /\ lastCycle = TRUE
    /\ reignites = 0

-----------------------------------------------------------------------------
(* Starting up and the idle loop.                                          *)

\* What of main()'s dictionary is read again after a call: all of it where there
\* is a switch (CheckSwitch), these three fields where there is none.
Kept(c) ==
    IF Standalone
    THEN [default_control EXCEPT !.mode = c.mode, !.next_mode = c.next_mode,
                                 !.primary_setpoint = c.primary_setpoint]
    ELSE c

\* Mutant: the pins keep the level they had.
InitialOutputsKept == outputs

\* The platform object drives every output low when it is made.
InitialOutputs == {}

\* _initialize() and the head of main(): the platform object is made, and the
\* control structure starts from its defaults.
Boot ==
    /\ pc = "boot"
    /\ LET c == IF BootToMonitor THEN [default_control EXCEPT !.mode = "Monitor"]
                                 ELSE default_control
       IN  flush_control(c) /\ main' = Kept(c)
    /\ pc' = "main"
    /\ outputs' = InitialOutputs /\ monitor' = "off" /\ reignites' = 0
    /\ lastMain' = switch
    /\ local' = default_control /\ cycle' = "none" /\ caller' = "none"
    /\ step' = 0 /\ ptemp' = 0
    /\ UNCHANGED <<switch, lastCycle, halting>>

\* Top of the main loop: the switch.  The dictionary written back is the one
\* main() happens to hold, which a work cycle has left behind.
CheckSwitch ==
    /\ pc = "main"
    /\ pc' = "merge"
    /\ IF ~Standalone /\ lastMain # switch
       THEN /\ lastMain' = switch
            /\ IF switch
               THEN UNCHANGED <<main, control>>
               ELSE /\ main' = [main EXCEPT !.updated = TRUE, !.mode = "Stop"]
                    /\ control' = main'
       ELSE UNCHANGED <<lastMain, main, control>>
    /\ UNCHANGED <<queue, cycle, caller, step, local, ptemp, outputs, monitor,
                   switch, lastCycle, halting, reignites>>

\* execute_control_writes, wherever the control thread calls it.
Merge ==
    /\ pc \in {"merge", "top", "next", "recipeNext"}
    /\ MergeWrite
    /\ UNCHANGED <<thread, main, local, ptemp, outputs, monitor, inputs, halting, reignites>>

\* Set up a call of _work_cycle(mode).
Call(mode, by) ==
    /\ pc' = "start" /\ cycle' = mode /\ caller' = by

\* Mutant: Stop forgets the fan.
StopOutputsFanLeft(c) == outputs \cap {"fan"}

\* The Stop and Error branch: fire and fan off, and the power relay too unless
\* the error came up in Monitor mode.
StopOutputs(c) == IF c.status = "monitor" /\ c.mode = "Error" THEN {"power"} ELSE {}

\* The mode branches of main(): `c` is main()'s dictionary, with `updated`
\* already cleared, and `stored` what the store holds of it.
EnterMode(c, stored) ==
    LET ToStore(d) == main' = Kept(d) /\ control' = d
        Keep == main' = Kept(c) /\ control' = stored
    IN  /\ \/ /\ c.mode \in {"Stop", "Error"}
              /\ outputs' = StopOutputs(c)
              /\ Keep /\ pc' = "stopping" /\ UNCHANGED <<cycle, caller>>
           \/ /\ c.mode \in {"Prime", "Smoke", "Hold", "Manual"}
              /\ Keep /\ Call(c.mode, "mode") /\ UNCHANGED outputs
           \/ /\ c.mode = "Startup" /\ UNCHANGED outputs
              /\ IF PrimeOnStartup
                 THEN ToStore([c EXCEPT !.mode = "Prime"]) /\ Call("Prime", "prime")
                 ELSE ToStore([c EXCEPT !.next_mode = AfterStartup]) /\ Call("Startup", "mode")
           \/ /\ c.mode = "Shutdown" /\ UNCHANGED outputs
              /\ ToStore([c EXCEPT !.next_mode = "Stop"]) /\ Call("Shutdown", "mode")
           \/ /\ c.mode = "Monitor" /\ UNCHANGED outputs
              /\ ToStore([c EXCEPT !.status = "monitor"]) /\ Call("Monitor", "mode")
           \/ /\ c.mode = "Reignite" /\ UNCHANGED outputs
              /\ ToStore([c EXCEPT !.next_mode = c.reignitelaststate]) /\ Call("Reignite", "mode")
           \/ /\ c.mode = "Recipe" /\ UNCHANGED outputs
              /\ Keep /\ pc' = "recipe" /\ UNCHANGED <<cycle, caller>>

\* Mutant: the mode is looked at before the units.
ChangeUnitsLate(c) == c

\* A pending change of units turns whatever was asked for into Stop.
ChangeUnits(c) ==
    IF c.units_change THEN [c EXCEPT !.mode = "Stop", !.units_change = FALSE] ELSE c

\* A request is pending: clear the flag, change the units, mark the status, and
\* enter the mode.
Dispatch(c) ==
    LET cleared == [c EXCEPT !.updated = FALSE]
        units == ChangeUnits(cleared)
    IN  IF units.status # "monitor" /\ units.mode # "Error"
        THEN LET active == [units EXCEPT !.status = "active"] IN EnterMode(active, active)
        ELSE EnterMode(units, cleared)

\* main()'s own look at the timer: it also clears what the timer was to do.
ExpireTimer(c) ==
    [c EXCEPT !.notify["timer"] =
        [@ EXCEPT !.req = FALSE, !.shutdown = FALSE, !.keep_warm = FALSE]]

\* The rest of an iteration of the main loop.  check_notify looks up the timer
\* of the current recipe step, and outside _recipe_mode there is none: if a
\* recipe is pending when the timer runs out, the KeyError ends main().  The
\* monitor threads of earlier cycles, which nothing ends, keep the process; if
\* there are none it exits, and the supervisor starts it again.
MainLoop ==
    /\ pc = "merge" /\ WritesExecuted
    /\ \E expired, late \in BOOLEAN :
         LET armed == control.notify["timer"].req
             c == check_notify_idle(control, IF expired THEN {"timer"} ELSE {})
             d == IF late /\ c.notify["timer"].req THEN ExpireTimer(c) ELSE c
         IN  /\ armed \/ ~(expired \/ late)
             /\ IF armed /\ expired /\ control.mode = "Recipe"
                THEN /\ pc' \in {"dead", "boot"}
                     /\ UNCHANGED <<control, main, outputs, cycle, caller>>
                ELSE IF d.updated /\ ~d.critical_error
                THEN Dispatch(d)
                ELSE /\ main' = Kept(d) /\ control' = d /\ pc' = "main"
                     /\ UNCHANGED <<outputs, cycle, caller>>
    /\ UNCHANGED <<queue, local, step, ptemp, monitor, inputs, halting, reignites>>

\* The end of the Stop and Error branches.  Stop flushes the control keys,
\* the write queue among them; Error rewrites the structure only.
FinishStop ==
    /\ pc = "stopping"
    /\ LET c == [default_control EXCEPT !.mode = main.mode, !.updated = FALSE]
       IN  IF main.mode = "Stop"
           THEN flush_control(c) /\ main' = Kept(c)
           ELSE /\ control' = [c EXCEPT !.status = "inactive"] /\ main' = Kept(control')
                /\ UNCHANGED queue
    /\ pc' = "main"
    /\ reignites' = 0
    /\ UNCHANGED <<cycle, caller, step, local, ptemp, outputs, monitor, inputs, halting>>

-----------------------------------------------------------------------------
(* The work cycle.                                                         *)

\* 90% of the pit's temperature, kept between the two configured bounds.
StartupTemp(t) ==
    LET raised == IF (t * 9) \div 10 > MinStartupTemp THEN (t * 9) \div 10 ELSE MinStartupTemp
    IN  IF raised < MaxStartupTemp THEN raised ELSE MaxStartupTemp

\* Mutant: tries again for ever.
FlameoutUnlimited(c) ==
    [c EXCEPT !.reigniteretries = @ - 1, !.reignitelaststate = cycle,
              !.mode = "Reignite", !.updated = TRUE]

\* Mutant: a retry is not counted.
FlameoutUncounted(c) ==
    IF c.reigniteretries = 0
    THEN [c EXCEPT !.mode = "Error", !.updated = TRUE]
    ELSE [c EXCEPT !.reignitelaststate = cycle, !.mode = "Reignite", !.updated = TRUE]

\* Mutant: the mode to return to is not remembered.
FlameoutForgets(c) ==
    IF c.reigniteretries = 0
    THEN [c EXCEPT !.mode = "Error", !.updated = TRUE]
    ELSE [c EXCEPT !.reigniteretries = @ - 1, !.mode = "Reignite", !.updated = TRUE]

\* The fire seems to be out: try again while there are retries, else give up.
Flameout(c) ==
    IF c.reigniteretries = 0
    THEN [c EXCEPT !.mode = "Error", !.updated = TRUE]
    ELSE [c EXCEPT !.reigniteretries = @ - 1, !.reignitelaststate = cycle,
                   !.mode = "Reignite", !.updated = TRUE]

CountReignite(c) ==
    reignites' = IF Flameout(c).mode = "Reignite" THEN reignites + 1 ELSE reignites

\* The items the recipe step waits for, and arming them before the cycle.
Awaited(c) ==
    IF c.mode = "Recipe" /\ step \in DOMAIN RecipeSteps THEN RecipeSteps[step].awaits ELSE {}

ArmTriggers(c) ==
    IF cycle \notin {"Smoke", "Hold"}
    THEN c
    ELSE [c EXCEPT !.notify = [i \in Item |->
            IF i \notin Awaited(c) THEN c.notify[i]
            ELSE IF i = "timer"
            THEN [c.notify[i] EXCEPT !.req = TRUE, !.shutdown = FALSE, !.keep_warm = FALSE]
            ELSE [c.notify[i] EXCEPT !.req = TRUE]]]

\* "Set Starting Configuration for Igniter, Fan, Auger".
StartOutputs(c) ==
    CASE cycle \in {"Startup", "Reignite"} -> Outputs
      [] cycle \in {"Smoke", "Hold"} -> {"power", "fan", "auger"}
      [] cycle = "Shutdown" -> {"power", "fan"}
      [] cycle = "Prime" -> {"power", "auger"} \cup
            (IF PrimeIgnition /\ c.next_mode = "Startup" THEN {"igniter"} ELSE {})
      [] OTHER -> {}

\* _work_cycle up to its loop.  A Smoke or Hold cycle that finds the fire out,
\* or a Hold cycle without a controller, skips the loop.
StartCycle ==
    /\ pc = "start"
    /\ outputs' = StartOutputs(control)
    /\ monitor' = "counting"
    /\ lastCycle' = switch
    /\ \E t \in PitTemps :
         LET c == ArmTriggers(control)
             out == /\ cycle \in {"Smoke", "Hold"}
                    /\ c.afterstarttemp < c.startuptemp
         IN  /\ ptemp' = t
             /\ control' = IF cycle \in {"Startup", "Reignite"}
                           THEN [c EXCEPT !.startuptemp = StartupTemp(t), !.afterstarttemp = t]
                           ELSE IF out THEN Flameout(c) ELSE c
             /\ IF out THEN CountReignite(c) ELSE UNCHANGED reignites
             /\ IF out \/ (cycle = "Hold" /\ ~ControllerLoads)
                THEN pc' = "cleanup" /\ local' = control'
                ELSE pc' = "top" /\ local' = default_control
    /\ UNCHANGED <<queue, main, cycle, caller, step, switch, lastMain, halting>>

\* What the cycle's own logic switches on again by itself.
Driven ==
    CASE cycle \in {"Smoke", "Hold"} -> {"auger", "fan"}
      [] cycle \in {"Startup", "Reignite", "Prime"} -> {"auger"}
      [] OTHER -> {}

\* A manual change of an output, if there is one and the mode allows it.
ManualChange(c) ==
    /\ c.manual.change # "none"
    /\ cycle = "Manual" \/ AllowManual

Overridden(m) ==
    IF m.output THEN outputs \cup {m.change} ELSE outputs \ ({m.change} \ Driven)

\* Mutant: the wrong edge of the switch.
SwitchTurnedOn == ~Standalone /\ lastCycle # switch /\ switch

\* The switch was on at the last look and is off now.
SwitchTurnedOff == ~Standalone /\ lastCycle # switch /\ ~switch

\* Mutant: the request is not marked.
SwitchedOffQuietly(c) == [c EXCEPT !.mode = "Stop", !.status = "active"]

\* "Switch set to off, going to stop mode."
SwitchedOff(c) == [c EXCEPT !.updated = TRUE, !.mode = "Stop", !.status = "active"]

\* An iteration from its merge of the write queue to its probe reading.
IterationTop ==
    /\ pc = "top" /\ WritesExecuted
    /\ IF control.updated
       THEN /\ local' = control /\ pc' = "cleanup"
            /\ UNCHANGED <<control, outputs, ptemp, lastCycle>>
       ELSE /\ lastCycle' = IF Standalone THEN lastCycle ELSE switch
            /\ IF SwitchTurnedOff
               THEN /\ local' = SwitchedOff(control)
                    /\ control' = local' /\ pc' = "cleanup"
                    /\ UNCHANGED <<outputs, ptemp>>
               ELSE /\ IF ManualChange(control)
                       THEN /\ outputs' = Overridden(control.manual)
                            /\ control' = [control EXCEPT !.manual =
                                             [change |-> "none", output |-> FALSE]]
                       ELSE UNCHANGED <<outputs, control>>
                    /\ local' = control' /\ pc' = "bottom"
                    /\ ptemp' \in PitTemps
    /\ UNCHANGED <<queue, main, cycle, caller, step, monitor, switch, lastMain,
                   halting, reignites>>

\* Mutant: a paused step goes on when it is triggered.
StepOverWhilePaused(c) == c.mode = "Recipe" /\ c.triggered

\* "Check if a recipe step was triggered": and does not wait for the user.
StepOver(c) == c.mode = "Recipe" /\ c.triggered /\ ~c.pause

\* The rest of the iteration, on the dictionary read at its top: notifications,
\* the flameout check, the cycle's duration, the maximum temperature, and the
\* trigger of a recipe step, in this order.
IterationBottom ==
    /\ pc = "bottom"
    /\ \E hit \in SUBSET {i \in Item : local.notify[i].req}, elapsed \in BOOLEAN :
         LET n == check_notify(local, hit, Awaited(local))
             noticed == IF NotifyWrites(local) THEN n ELSE control
             hot == [n EXCEPT !.mode = "Error", !.updated = TRUE]
             Leave(c, stored) == local' = c /\ control' = stored /\ pc' = "cleanup"
         IN  IF cycle \in {"Smoke", "Hold"} /\ ptemp < n.startuptemp
             THEN Leave(Flameout(n), Flameout(n)) /\ CountReignite(n)
             ELSE /\ UNCHANGED reignites
                  /\ IF elapsed /\ cycle \in {"Startup", "Reignite", "Shutdown", "Prime"}
                     THEN Leave(n, noticed)
                     ELSE IF ptemp > MaxTemp
                     THEN Leave(hot, hot)
                     ELSE IF StepOver(n)
                     THEN Leave(n, noticed)
                     ELSE local' = default_control /\ control' = noticed /\ pc' = "top"
    /\ UNCHANGED <<queue, main, cycle, caller, step, ptemp, outputs, monitor, inputs, halting>>

\* Mutant: the auger is left as it was.
EndOutputsAugerLeft ==
    IF cycle \in {"Shutdown", "Monitor", "Manual", "Prime"} THEN {} ELSE outputs \ {"igniter"}

\* Mutant: the igniter is left as it was.
EndOutputsIgniterLeft ==
    IF cycle \in {"Shutdown", "Monitor", "Prime"} THEN {} ELSE outputs \ {"auger"}

\* "Clean-up and Exit": fire off, and in the modes that are not followed by
\* another one fan and power too.
EndOutputs ==
    IF cycle \in {"Shutdown", "Monitor", "Manual", "Prime"} THEN {} ELSE outputs \ Fuel

\* "Clean-up and Exit", and the return to whoever called the cycle.
Cleanup ==
    /\ pc = "cleanup"
    /\ outputs' = EndOutputs
    /\ control' = IF cycle \in {"Startup", "Reignite"}
                  THEN [local EXCEPT !.afterstarttemp = ptemp] ELSE control
    /\ monitor' = "off"
    /\ pc' = CASE caller = "prime" -> "primed"
               [] caller = "recipe" -> "recipeNext"
               [] caller = "recipeReignite" -> "recipeResume"
               [] OTHER -> IF cycle \in {"Monitor", "Manual"} THEN "main" ELSE "next"
    /\ local' = default_control /\ ptemp' = 0
    /\ UNCHANGED <<queue, main, cycle, caller, step, inputs, halting, reignites>>

\* Mutant: no setpoint is handed over after Startup.
NextSetpointMissing == IF cycle = "Reignite" THEN main.primary_setpoint ELSE 0

\* The setpoint each branch of main() hands to _next_mode.
NextSetpoint ==
    CASE cycle \in {"Prime", "Startup"} -> StartSetpoint
      [] cycle = "Reignite" -> main.primary_setpoint
      [] OTHER -> 0

\* Mutant: moves on whatever was asked for.
FollowingAlways(c) ==
    [c EXCEPT !.mode = main.next_mode, !.updated = TRUE,
              !.primary_setpoint = IF main.next_mode = "Hold" THEN NextSetpoint ELSE 0]

\* Mutant: the next mode is not marked as a request.
FollowingQuietly(c) ==
    IF c.updated
    THEN c
    ELSE [c EXCEPT !.mode = main.next_mode,
                   !.primary_setpoint = IF main.next_mode = "Hold" THEN NextSetpoint ELSE 0]

\* _next_mode: move on unless something else was asked for.
Following(c) ==
    IF c.updated
    THEN c
    ELSE [c EXCEPT !.mode = main.next_mode, !.updated = TRUE,
                   !.primary_setpoint = IF main.next_mode = "Hold" THEN NextSetpoint ELSE 0]

\* The call of _next_mode, and after a Shutdown the power-off.  What _next_mode
\* returns is dropped: main() keeps the dictionary it had before the cycle.
NextMode ==
    /\ pc = "next" /\ WritesExecuted
    /\ control' = Following(control)
    /\ halting' = (halting \/ (cycle = "Shutdown" /\ AutoPowerOff))
    /\ pc' = "main" /\ cycle' = "none" /\ caller' = "none"
    /\ UNCHANGED <<queue, main, local, step, ptemp, outputs, monitor, inputs, reignites>>

\* After prime-on-startup: go on to Startup unless the mode has changed.
AfterPriming ==
    /\ pc = "primed"
    /\ IF control.mode \in {"Prime", "Startup"}
       THEN /\ control' = [control EXCEPT !.updated = FALSE, !.mode = "Startup",
                                          !.next_mode = AfterStartup]
            /\ main' = Kept(control') /\ Call("Startup", "mode")
       ELSE /\ main' = Kept(control) /\ pc' = "main" /\ cycle' = "none" /\ caller' = "none"
            /\ UNCHANGED control
    /\ UNCHANGED <<queue, local, step, ptemp, outputs, monitor, inputs, halting, reignites>>

-----------------------------------------------------------------------------
(* _recipe_mode.                                                           *)

\* Read the recipe.  Without the file the function returns and leaves the
\* control structure and the outputs as they are.
RecipeBegin ==
    /\ pc = "recipe"
    /\ IF RecipeLoads
       THEN /\ local' = control /\ pc' = "recipeStep"
            /\ step' \in 1..(Len(RecipeSteps) + 1)
       ELSE pc' = "main" /\ UNCHANGED <<local, step>>
    /\ UNCHANGED <<store, main, cycle, caller, ptemp, outputs, monitor, inputs,
                   halting, reignites>>

\* Mutant: the end of a recipe is not turned into Stop.
RecipeOverQuietly(c) == [c EXCEPT !.triggered = FALSE, !.pause = FALSE]

\* Step 5: clear the recipe; when it ran to its end, or nothing else was asked
\* for, stop.
RecipeOver(c) ==
    LET clean == [c EXCEPT !.triggered = FALSE, !.pause = FALSE]
    IN  IF ~c.updated \/ step = Len(RecipeSteps) + 1
        THEN [clean EXCEPT !.updated = TRUE, !.mode = "Stop"]
        ELSE clean

EndRecipe(c) ==
    /\ control' = RecipeOver(c)
    /\ pc' = "main" /\ cycle' = "none" /\ caller' = "none" /\ step' = 0
    /\ local' = default_control

\* Mutant: only an error ends the recipe.
CancelledByError(c) == c.mode = "Error" /\ c.updated

\* Another mode was requested, or an error occurred.
Cancelled(c) == c.mode # "Recipe" /\ c.updated

\* 4a, 4b: write the step's data and run its work cycle.
RunStep ==
    /\ pc = "recipeStep"
    /\ IF step \in DOMAIN RecipeSteps
       THEN /\ local' = [local EXCEPT !.triggered = FALSE, !.pause = RecipeSteps[step].pause,
                             !.primary_setpoint = RecipeSteps[step].hold_temp,
                             !.updated = FALSE]
            /\ control' = local'
            /\ Call(RecipeSteps[step].mode, "recipe") /\ UNCHANGED step
       ELSE EndRecipe(local)
    /\ UNCHANGED <<queue, main, ptemp, outputs, monitor, inputs, halting, reignites>>

\* 4c, 4d, 4e: reignite and retry the step, leave for another mode, or go on.
RecipeNext ==
    /\ pc = "recipeNext" /\ WritesExecuted
    /\ IF control.mode = "Reignite" /\ control.updated
       THEN /\ local' = [control EXCEPT !.updated = FALSE, !.mode = "Recipe"]
            /\ control' = local'
            /\ Call("Reignite", "recipeReignite") /\ UNCHANGED step
       ELSE IF Cancelled(control)
       THEN EndRecipe(control)
       ELSE /\ step' = step + 1 /\ local' = control /\ pc' = "recipeStep"
            /\ UNCHANGED <<control, cycle, caller>>
    /\ UNCHANGED <<queue, main, ptemp, outputs, monitor, inputs, halting, reignites>>

\* After the reignite cycle: leave, or run the current step again.  The step's
\* trigger_temps were replaced, in the recipe itself, when it was first run; looking
\* its probes up in them again raises a KeyError, which ends main().
RecipeResume ==
    /\ pc = "recipeResume"
    /\ IF Cancelled(control)
       THEN EndRecipe(control)
       ELSE pc' = "dead" /\ UNCHANGED <<control, local, cycle, caller, step>>
    /\ UNCHANGED <<queue, main, ptemp, outputs, monitor, inputs, halting, reignites>>

-----------------------------------------------------------------------------
(* The outside world.                                                      *)

Client ==
    /\ \E cmd \in ClientCommands : execute(cmd, AllowManual)
    /\ UNCHANGED <<thread, main, local, ptemp, outputs, monitor, inputs, halting, reignites>>

ToggleSwitch ==
    /\ ~Standalone
    /\ switch' = ~switch
    /\ UNCHANGED <<store, thread, main, local, ptemp, outputs, monitor, lastMain, lastCycle,
                   halting, reignites>>

\* A probe driver, a notification service or a store write blocks the cycle,
\* for any time, between its top and its bottom.
Hang ==
    /\ "hang" \in Failures /\ pc = "bottom" /\ pc' = "hung"
    /\ UNCHANGED <<store, main, local, cycle, caller, step, ptemp, outputs, monitor,
                   inputs, halting, reignites>>

Resume ==
    /\ pc = "hung" /\ pc' = "bottom"
    /\ UNCHANGED <<store, main, local, cycle, caller, step, ptemp, outputs, monitor,
                   inputs, halting, reignites>>

\* An exception leaves the cycle and ends the main thread.  The monitor's
\* thread is no daemon: it keeps the process, and so the outputs, as they are.
Exception ==
    /\ "exception" \in Failures /\ pc \in {"top", "bottom"} /\ pc' = "dead"
    /\ UNCHANGED <<store, main, local, cycle, caller, step, ptemp, outputs, monitor,
                   inputs, halting, reignites>>

\* Mutant: the restart runs in the simulator and not on real hardware.
RestartWorksInverted == ~RealHardware /\ RestartTarget = SupervisedProgram

\* The restart command does something: it runs on real hardware only, and
\* supervisorctl must know the name it is given.
RestartWorks == RealHardware /\ RestartTarget = SupervisedProgram

\* Process_Monitor._heartbeat_check after 30 s without a heartbeat.
HeartbeatLost ==
    /\ monitor = "counting" /\ pc \in {"hung", "dead"}
    /\ control' = [control EXCEPT !.updated = TRUE, !.mode = "Error", !.critical_error = TRUE]
    /\ monitor' = "fired"
    /\ pc' = IF RestartWorks THEN "boot" ELSE pc
    /\ UNCHANGED <<queue, main, local, cycle, caller, step, ptemp, outputs, inputs,
                   halting, reignites>>

\* The control process is restarted: the supervisor's kill runs no cleanup.
Restart ==
    /\ "restart" \in Failures /\ pc # "boot" /\ pc' = "boot"
    /\ monitor' = "off"
    /\ UNCHANGED <<store, main, local, cycle, caller, step, ptemp, outputs, inputs,
                   halting, reignites>>

\* redis-server restarts.  It keeps nothing on disk, and a missing structure
\* reads as default_control().
RedisRestart ==
    /\ "redis" \in Failures
    /\ flush_control(default_control)
    /\ UNCHANGED <<thread, main, local, ptemp, outputs, monitor, inputs, halting, reignites>>

Next ==
    \/ Boot \/ CheckSwitch \/ Merge \/ MainLoop \/ FinishStop
    \/ StartCycle \/ IterationTop \/ IterationBottom \/ Cleanup \/ NextMode \/ AfterPriming
    \/ RecipeBegin \/ RunStep \/ RecipeNext \/ RecipeResume
    \/ Client \/ ToggleSwitch
    \/ Hang \/ Resume \/ Exception \/ HeartbeatLost \/ Restart \/ RedisRestart

Spec == Init /\ [][Next]_vars

-----------------------------------------------------------------------------
(* Properties.                                                             *)

Idle == pc \in {"main", "merge"} /\ ~control.updated

Merging == queue # <<>> /\ queue' = Tail(queue)

\* The igniter and the auger are on only while the process monitor is counting, or
\* while a restart that will drive every output low is under way; where the restart
\* command does nothing, also once the monitor has fired for this very cycle.
\* (_work_cycle starts the monitor first and stops it last.)
FuelIsWatched ==
    outputs \cap Fuel # {} =>
        monitor = "counting" \/ pc = "boot" \/ (monitor = "fired" /\ ~RestartWorks)

\* A main loop with nothing to do keeps no output on, bar the power relay:
\* nothing looks at the pit's temperature any more.
IdleIsOff == Idle => outputs \subseteq {"power"}

\* Between two stops the control process lights the fire again by itself at
\* most as often as settings['safety']['reigniteretries'] allows.
ReigniteBudget == reignites <= ReigniteRetries

\* A Hold cycle that main() runs has a setpoint to hold.
HoldHasSetpoint ==
    cycle = "Hold" /\ caller = "mode" /\ pc = "bottom" => local.primary_setpoint > 0

\* The units command stops the cook: no work cycle starts while a change of
\* units is pending.
UnitsStopTheCook == pc = "start" => ~control.units_change

\* Only a client's request takes the grill out of Stop or Error; no timer,
\* safety check, recipe or end of a cycle overrides a Stop somebody asked for.
RestEndsOnRequest ==
    [][control.mode \in {"Stop", "Error"} /\ control'.mode \notin {"Stop", "Error"}
        => Merging]_vars

\* A recipe goes on from a Smoke or Hold step only when what the step waits for
\* has happened and, if the step pauses, the user has continued the recipe, or
\* when a client has asked for something else.
StepsWaitForTheirTrigger ==
    [][pc = "recipeNext" /\ step' = step + 1 /\ cycle \in {"Smoke", "Hold"}
        => control.updated \/ (control.triggered /\ ~control.pause)]_vars

\* "If reignite is required, run a reignite cycle and retry current step": after it
\* the recipe runs the same step, unless another mode has been asked for.
ReignitedStepRunsAgain ==
    [][pc = "recipeResume" /\ pc' # pc =>
         \/ Cancelled(control) \/ pc' = "boot"
         \/ pc' \in {"recipeStep", "start"} /\ step' = step]_vars

\* Reignite, once it has run, returns to the mode the grill was in.
ReigniteReturns ==
    [][main.mode \in {"Smoke", "Hold"} /\ main'.mode = "Reignite"
        => main'.next_mode = main.mode]_vars

\* While the control process runs, a command leaves the write queue only by
\* being merged into the control structure.
CommandsAreMerged ==
    [][pc # "boot" /\ Len(queue') < Len(queue)
        => Merging /\ control' = deep_update(control, Head(queue))]_vars

\* The Raspberry Pi is powered off when the burn-off finishes, not when the
\* user has turned the Shutdown into a new cook.
PowerOffAfterShutdown ==
    [][halting' /\ ~halting => control'.mode \in {"Stop", "Error"}]_vars

\* Fairness: the control thread is never preempted for ever; its loops poll the
\* write queue every 0.1 s or less and so find it empty again and again; one
\* iteration is not held up again and again; the monitor's thread ticks every
\* second.  Nothing is assumed of clients, of failures, or of a hang's end.
Fairness ==
    /\ WF_vars(Boot) /\ WF_vars(CheckSwitch) /\ WF_vars(Merge) /\ WF_vars(FinishStop)
    /\ WF_vars(StartCycle) /\ WF_vars(Cleanup) /\ WF_vars(AfterPriming)
    /\ WF_vars(RecipeBegin) /\ WF_vars(RunStep) /\ WF_vars(RecipeResume)
    /\ WF_vars(HeartbeatLost)
    /\ SF_vars(MainLoop) /\ SF_vars(IterationTop) /\ SF_vars(IterationBottom)
    /\ SF_vars(NextMode) /\ SF_vars(RecipeNext)

FairSpec == Spec /\ Fairness

\* A Stop that is pending turns every output off, unless something else is
\* asked for: whatever hangs, dies or restarts meanwhile.  The monitor's Error, with
\* which it resets the process, is such a request; it too ends with the outputs off.
StopTakesEffect ==
    (control.updated /\ control.mode = "Stop") ~> (outputs = {} \/ control.mode # "Stop")

\* Turning the switch off during a work cycle ends the cycle, unless it is
\* turned back on first.
SwitchOffStops ==
    (pc = "top" /\ lastCycle /\ ~switch) ~> (pc \notin {"top", "bottom"} \/ switch)

\* A control process that hangs or dies with the auger or the igniter on gets
\* going again or is reset: it does not leave them on.
HungGrillIsReset ==
    (pc \in {"hung", "dead"} /\ outputs \cap Fuel # {})
        ~> (outputs \cap Fuel = {} \/ pc = "bottom")

=============================================================================
