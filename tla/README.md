# FireAI: a TLA+ model of the grill's control system

FireAI drives a wood-pellet smoker from a Raspberry Pi: an auger feeds pellets, an igniter lights
them, a fan and a power relay complete the outputs, probes are the inputs.  What can go wrong is
physical: pellets fed into a fire that is out, an igniter left on, a grill that lights itself after
somebody said stop, a temperature on the screen that nobody measures any more.  Around the control
process are a cloud bridge, a web server, displays, an updater and files, each with its own way to
lose a request.  This directory holds the specifications of these parts, the TLC runs that check
them, and the theorems TLAPS proves about them.

Names of files and line numbers refer to `src/`.

## 1. Inventory

| Part | State it keeps | Operations | Interacts with | Hard behaviour |
|---|---|---|---|---|
| **Control process** `control.py` | the outputs; local copies of the control structure; retry counters, startup temperature | `main()` dispatches a mode to `_work_cycle`, `_recipe_mode` or the Stop branch | reads and writes the store; starts a process monitor per cycle | every function holds its own dictionary and writes it back whole; requests arrive at any time; six ways out of a cycle |
| **Shared store** `common/common.py`, `core/redis_client.py`, `common/redis_queue.py` | `control:general`, `control:write`, settings, history, metrics | `read_control`, `write_control`, `execute_control_writes`, flush | all processes | read-modify-write without a transaction; nothing survives a restart of redis-server |
| **Command registry** `core/commands.py` | none | about thirty commands; each queues a patch | called by the API server, the bridge, displays | some patches carry whole lists read earlier |
| **Notifications** `notify/notifications.py`, `core/events.py` | `notify_data` inside the control structure; an event stream | `check_notify` once per iteration | called with the caller's dictionary, writes it back | may itself request Shutdown, Hold or Reignite |
| **Process monitor** `common/process_mon.py` | active flag, last heartbeat | start, stop, heartbeat, timeout | a thread of the control process; `supervisorctl` | acts on a process it is part of |
| **Grill platform** `grillplat/*` | pins | on/off of four outputs, switch input | control process | outputs keep their level until somebody changes it |
| **Cloud bridge** `bridge/sync.py`, `bridge/main.py` | nonces, cook tracker, cursors: all in memory | publish state, handle commands, archive the cook | Firebase; `execute()` | commands delivered more than once; restarts; failed writes |
| **Pairing** `bridge/pairing.py`, `server/cloud.py`, `firebase/functions` | a pairing document, a poll thread | start, poll, cancel, claim | three parties | cancel against a poll under way |
| **API server** `server/*`, `core/state.py`, `common.process_command` | sockets, tokens | HTTP and WebSocket over `execute()`; the older API writes the whole structure | store | a read and a write of everything, with others between them |
| **Settings** `common/common.py`, `core/settings_schema.py`, `core/library.py` | `settings.json`, its backups | read, rewrite, back up, upgrade, restore, import, reset | every process | whole-file rewrites that truncate first; versions up and down |
| **Updater** `core/updater.py`, `deploy/install.sh` | a lock, a status key, release directories, a link | check, download, extract, install | shell script, supervisor | failure half way; a restart that ends the thread |
| **Library, cook files** `core/library.py`, `file_mgmt/*` | zip archives | requests that rewrite one part after another | control process at Stop | the file is away while a part is rewritten |
| **Auger cycle, fan** `control.py` 739-1039 | clocks, lid event, overrides | a pass of the loop | outputs, controller | five features that switch the same fan |
| **Controllers** `controller/*` | PID state | `update(temp)` once a cycle | Hold cycle | an integral that winds up |
| **Probes** `probes/*` | device objects, averaging queues | connect, sense, read | control process; radio, a vendor's cloud | a reading that outlives its connection |
| **Displays** `display/*` | menu, dialog, timeout | touch, key, draw | queue commands; are told by the control process | fields set by two threads |
| **Telemetry** `notify/mqtt_handler.py`, `notify/wled_handler.py` | what was last told | publish by exception | broker, lights | a request that is lost is not repeated |
| **Web client** `web/src` | none of the system's | | API | |

What makes each modelled part correct:

- *Control process*: fire is on only in a watched cycle; an idle loop has everything off; rest ends
  only when somebody asks; the retries bound the automatic ignitions; a recipe waits for what its
  step waits for; a pending Stop and the switch always win in the end.
- *Store and commands*: a command is merged exactly as queued, or refused.
- *Process monitor*: a hung or dead process with fire on is reset.
- *Cloud bridge*: a command is accepted only while it is fresh and runs at most once; what is
  reported is what happened; no row of a cook and no notification is lost on the way.
- *API, settings, library, updater*: what was asked for is what is stored, through versions,
  failures and crashes; two updates never touch the releases together.
- *Auger, controllers*: never more fuel than the largest share of a cycle; a fan that stands still
  comes back; an integral that cannot wind up.
- *Probes, displays, telemetry*: what is shown is current; a menu closes and a screen sleeps.

## 2. Modules

Three groups.  The control system:

`ControlStore` (the structure, the patches, `execute`, the merge, the flush) is extended by `Notify`
(`check_notify` as a function of the caller's dictionary), which is extended by `GrillControl` (the
control thread, the switch, the process monitor, failures, clients, the properties).  `MCGrill`
instantiates it for TLC.  `GrillControl_proofs` holds the types and the theorems about the outputs;
`GrillRequests_proofs` and `GrillModes_proofs` build on it, for what becomes of requests and of modes.

The cloud: `CommandLedger` is the abstract promise (accept while fresh, run at most once);
`CloudBridge` is the code (bridge processes and objects, main loop and listener thread, drain,
stream, nonces, acknowledgements, failing requests), which implements it under the refinement mapping
`accepted[b] <- Range(nonces[b])`.  `MCCloud` instantiates it; `CloudBridge_proofs` holds the theorems.

The parts around the control process, one module each, all of them composed by `Appliance`.
`Appliance_proofs` holds the theorems about it; the longer arguments are in modules about one part,
`WorkCycle_proofs`, `CookArchive_proofs` and `LibraryFile_proofs`, which it instantiates:

| Module | Code | State and steps |
|---|---|---|
| `CookArchive` | `bridge/sync.py` 97-217, `core/events.py` | publishers of state, cook tracker, chunks, documents; the capped event stream, its cursor; one step per network request; the grill's change of mode and main()'s clearing of the status are two steps |
| `LibraryFile` | `core/library.py`, `file_mgmt/common.py`, `server/library.py` | the parts of an archive and what they refer to; a request is a plan of part rewrites, each of five steps; a `PUT` of a part or a `PATCH` of the cover brings any content |
| `SettingsFile` | `common/common.py`, `core/settings_schema.py` | `settings.json`, backups by version; read, hold, truncate, fill; install and crash |
| `Updater` | `core/updater.py`, `deploy/install.sh` | lock, status, release directories, link; one step per stage, each of which may fail |
| `LegacyApi` | `server/legacy.py`, `common.process_command` | the structure, the writes a request has still to queue, the write queue; each write carries what it was read from and what it asks for |
| `WorkCycle` | `control.py` 400-1039 | outputs and loop variables; `Pass` is one pass, its parts are operators in the order of the code |
| `Controllers` | `controller/pid*.py` | the controller object and the options it was made with (gains, center, `Clamping`); `Cycle` asks for a ratio, `Reconfigure` makes the object anew |
| `WirelessProbes` | `probes/bt_*.py`, `probes/cloud_thermomaven.py` | a driver's device object, link, threads; the number of the session a reading came over |
| `Probes` | `probes/main.py`, `temp_queue.py`, `virtual_*.py` | the averaging queue; one round of reading all devices |
| `FlatDisplay` | `display/base_240x240.py`, `ssd1306b.py` and copies | menu, message, timeout; input and output half of a turn |
| `FlexDisplay` | `display/base_flex.py`, `flexobject.py`, `dsi_800x480t.py` | active screen, object list, timeout; fetch, event, draw |
| `Telemetry` | `notify/mqtt_handler.py`, `wled_handler.py`, `wled_profiles.py` | what each handler remembers, and what its listener was told |

What follows is about the control system; each of the other modules begins with a comment that says
what is kept and what is abstracted.

### State

| Variable | In the code |
|---|---|
| `control`, `queue` | Redis keys `control:general` and `control:write` |
| `main` | the global `control` of `main()`; `local` is the local one of `_work_cycle` and `_recipe_mode` |
| `pc`, `cycle`, `caller`, `step` | where the control thread is, which mode's cycle runs, who called it, the recipe's step |
| `outputs` | the outputs that may be on: an output a cycle toggles (auger, fan) is a member throughout |
| `monitor` | the cycle's `Process_Monitor`: `off`, `counting`, or it has `fired` |
| `switch`, `lastMain`, `lastCycle` | the ON/OFF input; `last` of `main()` and of `_work_cycle` |
| `halting` | `shutdown -h now` was issued |
| `reignites` | history: automatic reignitions since the last Stop, Error or start |

`main` and `local` are separate from `control` because the program writes them back: when `main()`
sees the switch go off it stores the dictionary it last read before the cycle that has just ended
(control.py:1307-1315).  Where there is no switch, only three fields of `main` are ever read again
before it is re-read, and `Kept` drops the others so that the state space stays small.

### Actions

| Action | Code |
|---|---|
| `Boot` | `_initialize`, head of `main()` |
| `CheckSwitch`, `Merge`, `MainLoop`, `FinishStop` | one turn of `main()`: switch, `execute_control_writes`, notifications, timer, dispatch (`Dispatch`, `EnterMode`), and the second half of the Stop branch, after the cook file |
| `StartCycle`, `IterationTop`, `IterationBottom`, `Cleanup` | `_work_cycle`: what precedes the loop; an iteration up to its probe reading; the rest of it; "Clean-up and Exit" |
| `NextMode`, `AfterPriming` | `_next_mode`; the end of prime-on-startup |
| `RecipeBegin`, `RunStep`, `RecipeNext`, `RecipeResume` | `_recipe_mode` |
| `Client` | `execute()` in any other process |
| `HeartbeatLost`, `Hang`, `Resume`, `Exception`, `Restart`, `RedisRestart`, `ToggleSwitch` | the process monitor's thread, and the outside world |

An action ends where another process can make a difference: at a merge, a probe reading (a driver may
block there), and inside the Stop branch, where a cook file is written between reading the structure
and flushing it.  `execute_control_writes` is one `Merge` per patch, so that clients interleave.

### Abstractions

- Time.  A duration (startup, shutdown, prime, timer) may be over at any iteration.  This includes
  every real timing and more; a property that needs a lower bound on time is not stated.
- Temperature.  A reading is any member of `PitTemps`.  `startuptemp` is computed with the code's
  formula and bounds.
- `notify_data` has one probe target, one limit and the timer, in the order of the real list; the
  hopper's entry, which only makes the dictionary be written back, is the constant `HopperWarning`.
- Flags that only make the control process re-read something are dropped; they change no mode and no
  output.
- The auger's and fan's toggling inside a cycle is "may be on".  Hence what is proved of `outputs`
  bounds what the pins do.
- `Exception` is an uncaught error inside a work cycle's iteration.  Exceptions elsewhere leave no
  fire on and are not modelled, except two `KeyError`s that end `main()`: that of `check_notify` in
  `MainLoop`, and that of a recipe step which is retried after a reignition (`RecipeResume`).

## 3. Runs

Six runs pass; between them every action fires.

| Run | Instance | Distinct states | Shows |
|---|---|---|---|
| `cook` | no switch, six commands, queue of 2, pit 60/200/600, one retry | about 2.4 million | `TypeOK`, `FuelIsWatched`, `IdleIsOff`, `ReigniteBudget`, `HoldHasSetpoint`, `UnitsStopTheCook`, `RestEndsOnRequest`, `ReigniteReturns` |
| `recipe` | a recipe Startup / Smoke until the probe / Hold until the timer and the user, queue of 1; a flameout ends `main()` | about 130 thousand | `IdleIsOff`, `RestEndsOnRequest`, `StepsWaitForTheirTrigger` |
| `switch` | a switch, prime-on-startup with igniter, Manual, Monitor, Prime, manual override in every mode | about 405 thousand | `FuelIsWatched`, `IdleIsOff`, `RestEndsOnRequest` |
| `failures` | fair; hang, exception, restart of either process, switch | about 13 thousand | `FuelIsWatched`, `StopTakesEffect`, `SwitchOffStops`, `HungGrillIsReset` |
| `cloud` | fair; two commands for one Bridge object, or one command for two and an owner who unpairs | about 175 thousand | `TypeOK`, `LedgerKept` (the refinement), `RunsOnceOverall`, `ReportsAreTrue`, `CommandsAreSeen` |
| `appliance` | fair; the twelve modules of the table above, `CookArchive` twice | about 363 thousand | see below |

`appliance` composes parts that share no state, so their product would show nothing more than each of
them: every behaviour belongs to one of thirteen parts, chosen by `Init`, and the part's variables are `x1` to
`x18`.  Each property of `Appliance` is the part's own, looked at in that part's behaviours:

| Property | Part | What it says |
|---|---|---|
| `CookIsArchived` | `CookArchive` | whichever request fails or loses its answer, no row is lost or out of order, until the process restarts or a mode is begun before the status of the last stop is cleared |
| `MembersAreTold` | `CookArchive` | likewise no notification is skipped or overtaken, until the process restarts, but what the stream's cap has dropped |
| `FileIsWhole` | `LibraryFile` | between requests every part is there, the registered photos are those in the file, and no reference dangles but to a photo a client has named itself |
| `SettingsAreTheOwners`, `FileIsMended` | `SettingsFile` | update, roll-back, import, reset keep what the owner chose; a torn file is replaced |
| `OneUpdateAtATime` | `Updater` | two requests never work on the releases together, whatever fails |
| `WritesDoWhatTheySay` | `LegacyApi` | whatever comes between a request's reading and its merge, the write does what was asked, and of the rest it puts back only what changed in between |
| `AugerIsBounded`, `FanComesBack` | `WorkCycle` | see section 1 |
| `WindupIsBounded` | `Controllers` | where a center or the clamp bounds it, the integral term stays within what the output can use |
| `OldReadingsGo` | `WirelessProbes` | a reading of a connection that is gone disappears |
| `SettledReadingIsShown` | `Probes` | a temperature measured as often as the queue is long is the one reported |
| `MenuIsUsable` | `FlatDisplay` | the option is always one of the menu's; an untouched menu closes |
| `ScreenSleeps`, `LastWordIsTheButtons` | `FlexDisplay` | a stopped grill's screen goes dark; the last request written is the button's |
| `ListenersCatchUp` | `Telemetry` | lights and broker end up with the mode, unless the one request that said so was lost; a notification says nothing of the mode |

Bounds and why they suffice:

- `QueueLimit` 2 in `cook`: one patch overtaken by another is the shortest case in which the order
  of merging matters (Startup then Stop, Hold then units); patches are applied one at a time and
  each overwrites fields, so a third repeats a pair.  The other runs look at the control thread
  against one request and use 1.
- Pit temperatures 60, 200, 600: below `MinStartupTemp` (the fire is out), between the bounds (it
  burns), above `MaxTemp`.  60 also makes `startuptemp` its lower bound, 200 its upper one.
- `ReigniteRetries` 1: reaches retry, exhaustion, and reset by Stop.  The program compares with zero
  and decrements; no other value is tested.
- One recipe of three steps has a first step, a step with a probe, and a last step with a timer and
  a pause; `RecipeBegin` may start at any of them or past the end, as `start_step` allows.
- `cloud`: one Bridge object with two commands has everything one listener can do (order, nonces of a
  memory of 2, the opt-in switched between check and check); two objects with one command have what
  needs two (a listener that outlives its object, a second process).  `Bounds` keeps the two apart.
- `appliance`: the constants are in `appliance.cfg`.  They are the smallest at
  which every action of the part fires and each of its mutants is caught: chunks of two rows and three
  rows (a full chunk and the next) of one cook, two notifications in a stream that keeps one and is
  read two at a time, two photos and one comment, two versions, two installs and two uses of the
  settings, two threads for the updater, two requests for the older API, a cycle of three passes
  with the auger on for one or two and smoke plus on for one pass and off for two, controllers with
  and without an integral gain, a center and clamping over seven temperatures, a link lost twice, a
  queue of three readings.  The theorems about the same properties have no such bounds: in
  particular `CooksAreComplete` is about any number of cooks.
- Faults are budgets (`MaxFaults`, `Faults`, `Drops`): one fault at every place, and two where a second
  one meets the recovery from the first.

`recipe`, `switch` and `appliance` do not check for deadlock where the program really may stop: the
`KeyError`s above end the main thread, and without failures nothing restarts it; in `appliance` a part
has done what its bounds allow.

Fairness (`failures`, `restart_name`).  The control thread is one loop that is never preempted for
ever: weak fairness of its steps.  Steps that wait for an empty write queue are disabled again by
every new patch, but the loop polls every 0.1 s or less and drains faster than clients type: strong
fairness.  `IterationBottom` too, since a `Hang` disables it; strong fairness says an iteration that
is not hung for good ends.  The monitor's thread ticks each second: weak fairness of `HeartbeatLost`.
Nothing is assumed of clients, failures, or of the end of a hang.

Fairness (`cloud`).  The bridge's threads run (weak fairness of their steps), and a stream does not
end again and again before its first event is looked at (strong fairness of `Check`).  Nothing is
assumed of members, of the owner or of the network.

Fairness (`appliance`).  Displays' and the settings' loops run, and time passes (weak); the touch
screen fetches the status every 200 ms whatever the frame rate (strong, `Fetch`); a wireless driver
notices that its link is gone (weak) and a probe that is connected keeps sending (strong, `Heard`); the
control loop goes on telling MQTT and the lights (weak).  Since one part takes steps in a behaviour, a
fairness condition of `Appliance` stands for one of each part.  Nothing else is fair: no user, no
fault, no change of mode has to happen.

### Disagreements with what the repository says

Each is a run that TLC ends with a counterexample to one property.

| Run | The repository says | The code does |
|---|---|---|
| `restart_name` | `process_mon.py:94`: the process "is being reset" | `supervisorctl restart fireai-control` names a program that `deploy/supervisor/fireai.conf` puts in the group `fireai`; supervisord knows `fireai:fireai-control`.  Nothing is restarted. |
| `stop_drops_queue` | `core/commands.py:8-10`: the control process merges the queue on its next loop iteration | Stop's flush deletes the queue; a command queued during the writing of the cook file is lost |
| `update` | `core/updater.py:3-7`: install.sh `--from-dir` will "install dependencies and swap the current symlink" | `deploy/install.sh:53` removes `releases/$VERSION`, the directory it was given, before copying from it: every update from the app fails |
| `reignite_in_recipe` | `control.py:1218`: "run a reignite cycle and retry current step"; 1231: "Rerun current step" | the step's `trigger_temps` were replaced in the recipe itself when it was first run (1204-1210); looking them up again raises `KeyError` and `main()` ends, with fan and power on and no monitor |
| `power_off` | `settings_ui.py:135`: powers off "when the burn-off finishes" | also when a new Startup has interrupted the burn-off |
| `units_in_recipe` | `core/commands.py:270`: "Stops the current cook." | a recipe skips to its next step and goes on |

## 4. Theorems

Every proof is checked by TLAPS, for every value of the constants that meets the named assumptions
of the modules (`ControlStoreAssumption`, `GrillControlAssumption`, `CloudBridgeAssumption`, ...)
and the hypotheses of the theorem.  The proof modules extend the modules the runs check, so both speak of
the same definitions.

| Theorem | Says | Hypotheses |
|---|---|---|
| `GrillControl_proofs!TypeCorrect` | `[]TypeOK` | none |
| `GrillControl_proofs!FuelWatched` | `[]FuelIsWatched` | none |
| `GrillControl_proofs!IdleOff` | `[]IdleIsOff` | recipe files can be read |
| `GrillRequests_proofs!BudgetKept` | `[]ReigniteBudget` | no switch, the store does not restart |
| `GrillRequests_proofs!UnitsStop` | `[]UnitsStopTheCook` | no recipes, no prime-on-startup |
| `GrillRequests_proofs!HoldSetpoint` | `[]HoldHasSetpoint` | no client asks for Reignite; a recipe's Hold steps have a temperature; the controller loads |
| `GrillModes_proofs!RestEnds` | `RestEndsOnRequest` | no start in Monitor; the store does not restart; a process that can hang is really reset |
| `GrillModes_proofs!ReigniteComesBack` | `ReigniteReturns` | no client asks for Reignite or arms it; a process that can hang is really reset |
| `GrillModes_proofs!RecipeWaits` | `StepsWaitForTheirTrigger` | the controller loads |
| `CloudBridge_proofs!TypesKept` | `[]TypeOK` | none |
| `CloudBridge_proofs!NothingRunsTwice` | `[]RunsOnceOverall` | none (the property is about a network that has been good) |
| `CloudBridge_proofs!MembersAreToldTheTruth` | `[]ReportsAreTrue` | none |
| `CloudBridge_proofs!BridgesKeepTheLedger` | `CloudBridge` implements `CommandLedger` | the memory of nonces holds all commands |
| `Appliance_proofs!TypesHold` | `[]TypeOK` | `Hypotheses`: those of the parts below that are about ranges |
| `Appliance_proofs!CooksAreComplete` | `[]CookIsArchived` | one publisher; bounds are numbers |
| `Appliance_proofs!NotificationsArrive` | `[]MembersAreTold` | bounds are numbers; any publishers |
| `Appliance_proofs!FilesAreWhole` | `[]FileIsWhole` | one worker |
| `Appliance_proofs!OwnersKeepTheirSettings` | `[]SettingsAreTheOwners` | versions are numbers; the control process is no thread of the server |
| `Appliance_proofs!UpdatesExclude` | `[]OneUpdateAtATime` | the value for "nobody" is no thread |
| `Appliance_proofs!WritesKeepTheRest` | `WritesDoWhatTheySay` | none |
| `Appliance_proofs!AugerGoesOff` | `[]AugerIsBounded` | `WorkP!Settings`: the bounds are shares of the cycle, an override lasts at least one pass |
| `Appliance_proofs!FanStarts` | `[]FanComesBack` | `WorkP!Settings` |
| `Appliance_proofs!IntegralsAreBounded` | `[]WindupIsBounded` | `PidHypotheses`: gains and centers are numbers, the range is positive |
| `Appliance_proofs!SettledReadingsAreShown` | `[]SettledReadingIsShown` | a queue of two or more, a positive deviation, temperatures are numbers |
| `Appliance_proofs!ButtonsHaveTheLastWord` | `[]LastWordIsTheButtons` | none |
| `Appliance_proofs!CursorsStayOnAnOption` | `[]` of the safety half of `MenuIsUsable` | none |

`Appliance_proofs!Hypotheses` is true of the constants of `appliance.cfg`; the hypotheses about the
control system are conditions of the deployment, and what happens without each is said below.
Every invariant and every action property of a passing run has its theorem.

How they are proved:

- `TypeCorrect`.  `TypeOK` is inductive.  The work is in the lemmas about the operators on the control
  structure (`DeepUpdateType`, `ItemActionType`, `CheckNotifyType`, ...), which also say that none of them
  withdraws a pending request; `FlameoutType` shows that the retries stay natural.
- `FuelWatched`.  `FuelInv` says that throughout a cycle the monitor counts or has fired, that it is left
  fired only where the restart command does nothing, that fire is off everywhere else except between a
  kill and the next start, and that a dead process with fire on is still watched.  The
  property names the deployment in which the restart does nothing (`restart_name`) instead of excluding it:
  there the monitor fires once for the cycle, and the fire stays on.
- `IdleOff`.  `IdleInv` adds what the outputs are in the Stop branch and after a Prime cycle, and that
  prime-on-startup runs a Prime cycle; no step of the idle loop withdraws a request, and every other way
  into it leaves one.  Without the hypothesis a missing recipe file leaves fan and power on.
- `BudgetKept`.  The bound must hold of every copy of the structure that is still to be written back:
  `BudgetInv` says that retries left plus reignitions made are at most `ReigniteRetries` in the store and in
  the cycle's or recipe's dictionary, wherever that may be written; lemmas say that no patch and no
  notification changes the retries.  With a switch the property is false, and TLC shows it: `CheckSwitch` writes
  back main()'s dictionary of before the cycle, with the retries spent since.
  A restart of the store gives them back too.
- `UnitsStop`.  Under its hypotheses only `EnterMode` leads into a cycle, and `UnitsInv` adds that the other
  ways (priming, a recipe's steps) are closed; `main()` turns a pending change into a Stop before it
  dispatches.  Both hypotheses are needed: the startup after priming and a recipe's next step do not look.
- `HoldSetpoint`.  A setpoint is handed from dictionary to dictionary, so `HoldInv` says of each of
  them that it is `Fit`: if its mode is Hold, or Reignite that returns to Hold, its setpoint is positive.  The
  rest says which mode each dictionary is in at each place of the control thread, and what `main()` hands
  to `_next_mode` after Startup and Reignite.  With a client that asks for Reignite it
  is false, and TLC shows it: after an automatic reignition in Hold and a Smoke, which clears the
  setpoint, Reignite returns to Hold.
- `RestEnds`.  A process that writes a mode marks it as a request, and a cycle that finds a request does
  nothing else.  So `RestInv` says that while the control thread is at work, no Stop or Error without
  its mark is in a dictionary that may be written back.  Two failures break this, and TLC shows both: a
  redis-server that loses the structure under a running cycle, which then writes its own back, and a
  hang whose reset does not happen, after which the cycle does the same.
- `ReigniteComesBack`.  The mode to return to is written into the store by the cycle that finds the fire
  out, crosses the clean-up, the merges and the notifications there, and is read by `main()`, whose own
  dictionary still says which mode the grill was in; `ReigniteInv` says at each place where the two agree.  A
  client that asks for Reignite writes no mode to return to, hence the hypothesis.
- `RecipeWaits`.  The decision is taken on the cycle's own dictionary and looked at again, after the
  clean-up and a merge, in the store's: `StepInv` follows it from one to the other.  A step is entered
  once: after a reignition `main()` ends or leaves the recipe, so that no second run of it has to wait.  A Hold
  step without a controller does not wait, its cycle is skipped.
- `CloudBridge_proofs`.  `Inv` adds to the types the shape of the inbox and the stage (a
  command in hand is in the inbox, only a running listener has one) and that a command whose document
  says done or failed was run.  `GoodInv` is the part for a good network: one object at a time is at work, a
  document in its inbox is pending, or acknowledged if it is the one in hand, and what is pending has
  not been run by anybody.  The refinement needs `Remembered` (a command an object has run is among its
  nonces, each of them once), and nonces are forgotten when they are too many, hence its hypothesis.
- The appliance.  A behaviour belongs to one part, so an invariant of a part is inductive for the
  whole (`PartsStep`), and `TypesHold` is the conjunction of the parts' invariants.  Parts proved about in a
  module of their own are instantiated (`WorkP`, `ArchiveP`, `AlertsP`, `FileP`): lemmas such as
  `ArchiveInitIsP` say that the instance has the same initial states and steps, and its lemmas hold.
- `AugerGoesOff`.  One lemma per part of the pass (`ManualLoop`, `RatioLoop`, `AugerLoop`, `LidLoop`,
  `FanLoop`, ...) says what it leaves of the auger; composed in `PassLoop`, they give the
  invariant: an auger nobody has touched has been on no longer than its clock says, and the clock is
  below its share, which `Ratio` keeps between the bounds.
- `FanStarts`.  An override, an open lid, smoke plus and a ratio below its bound hold the fan off, each with a
  clock of its own.  `FanInv` says that an override's and a lid's clock and how long the fan has stood still
  add up to at most that clock's length; that the fan's own cycle, if nothing else holds it, is at least as
  old as the fan has stood still; and that once the temperature drives its speed it waits at most for the
  controller's next cycle after its longest phase off.
- `CooksAreComplete`, `NotificationsArrive`.  `CookInv` is about a bridge that runs on and a grill that has not
  been hurried.  What was sampled into a cook is in its chunks and, for the current cook, in the buffer,
  of which the current chunk's document is an earlier state (`Whole`); a name is fresh when a cook is
  begun, because the status was cleared in between (`Fresh`); and it says what has been written at each
  place the publisher may be at (`InPlace`).  With a second publisher, or a mode begun before the status
  is cleared, it is false (section 6).  `NoteInv` adds how far the last push is from the cursor, and that the
  entries a tick has read begin right after the cursor, or where the stream began.
- `FilesAreWhole`.  A request is a plan of rewrites, and between two of them the parts disagree.  `FileInv`
  says that they agree but for what is left of the plan: a photo being deleted may be referred to in
  the parts still to do, one being added may have its entry and not its image.  What a client names in a
  `PUT` or a `PATCH` is remembered in a history variable, and is all that may dangle.
- `OwnersKeepTheirSettings`.  `SettingsGoodInv` has three cases: nobody is at work; one process holds a copy
  that says what the owner has asked for; or one has written an import and reads the file once more.  In
  each, every version's backup says what the owner was told in that version.
- `SettledReadingsAreShown`.  `PortsInv` says that the newest places of the queue, as many as the value was
  measured in a row, hold it.  That their average is the value needs an argument by induction over
  the recursive functions that add them up, which the library's induction theorems cannot be
  instantiated for; `Least`, the least-number principle from `NatLessThanWellFounded`, does it.
- `ButtonsHaveTheLastWord` is inductive.  `CursorsStayOnAnOption` adds the types of the display's fields, with
  a lemma that every menu has an option.
- `IntegralsAreBounded`, for all gains and every change of controller and options.  Beside the bound
  the invariant says that the object knows the pit it was asked about last, so that the derivative
  never sees more than one cycle's change; the bound is what proportional and derivative term can oppose
  before clamping takes an update back.
- `WritesKeepTheRest`: `LegacyInv` says of every write, queued or still to be queued, that it agrees with what
  its request has read except where it was asked for something.  What the merge then changes follows,
  whatever became of the structure since.  `UpdatesExclude`: whoever works holds the lock.

Only model-checked is what the prover does not reach: liveness.  These are `StopTakesEffect`,
`SwitchOffStops`, `HungGrillIsReset`, `CommandsAreSeen`, `ScreenSleeps`, `FileIsMended`, `OldReadingsGo`,
`ListenersCatchUp`, and that an untouched menu closes (the other half of `MenuIsUsable`).

## 5. Plan

1. *Done*: the control system (`ControlStore`, `Notify`, `GrillControl`); the cloud's command path and its
   refinement; the archive, files, settings, updater, older API, work cycle, controllers, probes, displays
   and telemetry; a theorem for every safety invariant and every action property of the passing runs.
2. `GrillPromise`: an abstract state machine of the grill (rest, lighting, cooking, burning off) that
   `GrillControl` implements under a refinement mapping, proved from `RestInv` and `ReigniteInv`.
3. `Pairing`: the Pi's poll thread, the admin's cancel and the cloud functions.

## 6. Not modelled, and known limits

Not modelled:

- Pairing and the cloud functions and rules, half of it TypeScript in hosted transactions; of these
  only `sendCommand` is modelled (`CloudBridge!Send`).
- Drawing and layout; the panels that are copies of a modelled one; distance sensors; the web client.
- The wired converters' registers and the resistance formula; the fuzzy and the ml controller.
- One-shot notification services, InfluxDB, history and metrics, Wi-Fi and hardware wizards, tuner and
  simulator, authentication and access rules: pure computation, device input and output, or single-key
  documents without a protocol.
- The failure of a module to load at start: it ends in `critical_error` or in a fallback module.
- Code nothing calls: `file_mgmt/media.py`, most of `file_mgmt/recipes.py`, the cook file upgrade, the
  controllers' `set_config` and `set_gains`, WLED's `push_all_profiles` and presets.

Where a property is narrower than one would wish, because the code is:

- `ReigniteBudget` is about a grill without a switch, `UnitsStopTheCook` about cooks that are neither recipes nor
  primed first, `HoldHasSetpoint` about clients that leave Reignite to the control process (section 4).
- `FuelIsWatched` and `StopTakesEffect` accept the process monitor's Error and the reset that follows.  They
  are checked where the name that the monitor restarts is that of the program; the deployed one is not
  (`restart_name`).
- An edge of the switch between `main()`'s look and the start of a cycle is consumed by the cycle's
  first reading of the level (control.py:672): `SwitchOffStops` does not claim it.
- The process monitor's Error can be lost when the hung call returns and `check_notify` writes the older
  dictionary back (notifications.py:148).  It is in the model; no property is about it, since the
  restart that the monitor orders ends with the outputs off all the same.
- A recipe step that loses its fire is not retried but ends `main()` (`reignite_in_recipe`), with the fan
  and power on; `StepsWaitForTheirTrigger` and `IdleIsOff` say nothing of a program that has ended.
- `CookIsArchived` and `MembersAreTold` hold until the bridge restarts.  After a restart in a cook the
  chunk index is 0 again and the first chunk is overwritten (`docs/CLOUD.md:37`: "long cooks are never
  truncated"), and notifications fired meanwhile are skipped.  A second publisher (the listener thread
  publishes after a command) shares the tracker without a lock and can lose a row; the run has one.
- Nor does `CookIsArchived` hold when a mode is begun before `main()` has cleared the status of the stop
  before (control.py:1427, after the cook file is written; not at all if a Startup is merged first).  The
  bridge has ended the cook at the Stop it saw, begins one of the same name `c_<ts>`, and overwrites chunk
  `k0000`.  The model does the same, and `hurried` says that it may have happened.
- The stream keeps 500 notifications (`core/events.py:17`): what it drops before the bridge reads it
  is never pushed.
- A command whose handler raises something else than `CommandError` leaves its document at `acked` for good,
  and the listener starts over (`StartOver`).
- `RunsOnceOverall` assumes requests arrive.  With a lost acknowledgement a new Bridge object runs a
  fresh command again.
- The bridge takes no notice of unpairing before its loop ends by itself (`bridge/main.py:5-6`: it
  "takes effect without a restart").
- `FileIsWhole` and `SettingsAreTheOwners` are about changes that do not overlap; two whole-file
  rewrites lose one change, and a crash between `os.remove` and `os.rename` loses a library file.  A photo
  that a client names in a `PUT` or as the cover need not be in the file.  Imports are of archives the program
  has exported; one that lacks a part, or whose parts disagree, is taken as it is.  A
  roll-back brings back the password its version was left with.
- `WritesDoWhatTheySay` lets a write put back what changed between its reading and its merge, since the
  code does: a request read before a Stop and queued after it undoes the Stop.  In Celsius
  `set/notify/<label>/target` changes the grill's setpoint as well (common.py:2893-2896), and the property
  counts that as asked.
- With `Clamping` off (pid_parallel.py:102), or a center of 0 (pid.py:93), nothing bounds the integral and
  `WindupIsBounded` claims nothing.  Where it clamps, the integral is compared with the output and not with
  the input (pid_clamping.py:108), so that an input which would unwind it is taken back as well, although the
  comment above (103-105) has integration resume then.
- `FanComesBack` leaves out the Hold that has not reached its set point while smoke plus is on: closing
  the lid by hand there starts the fan only when the set point is reached.
- `OldReadingsGo` is claimed for the drivers that clear or age their values.  `bt_meater`,
  `bt_meater_alt` and `bt_meater_exp` keep the last value for good, and after a change of units
  every Bluetooth driver runs two device objects that compete for the probe.  That ThermoMaven's driver is
  given its first values by the last status it sent (cloud_thermomaven.py:344-349) is left out.
- `ScreenSleeps`: a menu opened in the very frame in which the status woke the screen escapes it.
- In `Telemetry` a publication handed to a link that is up arrives.
- `ListenersCatchUp` excepts the request that was lost, since none is repeated, and the profile
  scheme's test, after which the lights wait for the next change of mode.  Requests to IFTTT, OneSignal
  and WLED's commands have no timeout and block the control loop, which is `GrillControl`'s `Hang`.
- An updater failure after the link was changed is reported as "the previous version is still
  installed", and the restart of the server leaves the status at "installing".
