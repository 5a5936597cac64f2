----------------------------- MODULE ControlStore -----------------------------
(***************************************************************************)
(* The state the FireAI processes share through Redis: the control         *)
(* structure (key control:general) and the queue of patches clients push   *)
(* for it (key control:write).                                             *)
(*                                                                         *)
(* Only the fields of the control structure that decide what the control   *)
(* process does next are kept.  Flags that only make it reload settings,   *)
(* re-read the hopper or redraw (settings_update, distance_update,         *)
(* hopper_check, probe_profile_update, s_plus, ...) change no mode and no  *)
(* output and are left out; lid_open_toggle belongs to AugerCycle.         *)
(***************************************************************************)
EXTENDS Integers, Sequences

CONSTANTS
    ReigniteRetries, \* settings['safety']['reigniteretries']
    Setpoints,       \* the setpoints a client may ask for, all positive
    ClientCommands,  \* the commands clients issue
    QueueLimit       \* bound of the model: patches waiting in control:write

VARIABLES
    control,  \* key control:general
    queue     \* key control:write

store == <<control, queue>>

-----------------------------------------------------------------------------
(* The control structure.                                                  *)

Outputs == {"power", "igniter", "fan", "auger"}

Mode == {"Stop", "Startup", "Smoke", "Hold", "Shutdown", "Monitor", "Manual",
         "Reignite", "Prime", "Recipe", "Error"}

\* The entries of notify_data that matter: a probe target and a timer fire
\* once and are disarmed, a limit stays armed and latches 'triggered'.
Item == {"probe", "limit", "timer"}

Notification == [req: BOOLEAN, shutdown: BOOLEAN, keep_warm: BOOLEAN,
                 reignite: BOOLEAN, triggered: BOOLEAN]

Disarmed == [req |-> FALSE, shutdown |-> FALSE, keep_warm |-> FALSE,
             reignite |-> FALSE, triggered |-> FALSE]

Manual == [change: Outputs \cup {"none"}, output: BOOLEAN]

Control ==
    [mode: Mode, updated: BOOLEAN, critical_error: BOOLEAN, next_mode: Mode,
     primary_setpoint: Int, status: {"", "active", "inactive", "monitor"},
     units_change: BOOLEAN, reigniteretries: Nat, reignitelaststate: Mode,
     startuptemp: Int, afterstarttemp: Int, notify: [Item -> Notification],
     triggered: BOOLEAN, pause: BOOLEAN, manual: Manual]

default_control ==
    [mode |-> "Stop", updated |-> TRUE, critical_error |-> FALSE,
     next_mode |-> "Stop", primary_setpoint |-> 0, status |-> "",
     units_change |-> FALSE, reigniteretries |-> ReigniteRetries,
     reignitelaststate |-> "Smoke", startuptemp |-> 0, afterstarttemp |-> 0,
     notify |-> [i \in Item |-> Disarmed], triggered |-> FALSE,
     pause |-> FALSE, manual |-> [change |-> "none", output |-> FALSE]]

-----------------------------------------------------------------------------
(* The patches: what each command of core/commands.py queues.  A patch     *)
(* carries the fields it overwrites; notify_data is a list, so a patch      *)
(* that has it replaces it whole.                                          *)

ModePatch == [kind: {"mode"},
              mode: {"Startup", "Smoke", "Shutdown", "Stop", "Monitor",
                     "Manual", "Reignite", "Recipe"}]
HoldPatch == [kind: {"hold"}, setpoint: Setpoints]
PrimePatch == [kind: {"prime"}, next_mode: {"Stop", "Startup", "Monitor"}]
UnitsPatch == [kind: {"units"}]
ContinuePatch == [kind: {"continue"}]
ManualPatch == [kind: {"manual"}, output: Outputs, on: BOOLEAN]
NotifyPatch == [kind: {"notify"}, notify: [Item -> Notification]]

PlainPatch == ModePatch \cup HoldPatch \cup PrimePatch \cup UnitsPatch
                \cup ContinuePatch \cup ManualPatch
Patch == PlainPatch \cup NotifyPatch

\* notify.set and the timer commands change one entry of notify_data.
NotifyCommand == [kind: {"notify.set"}, item: Item, entry: Notification]

Command == PlainPatch \cup NotifyCommand

ASSUME ControlStoreAssumption ==
    /\ ReigniteRetries \in Nat
    /\ Setpoints \subseteq Nat \ {0}
    /\ ClientCommands \subseteq Command
    /\ QueueLimit \in Nat \ {0}

\* What deep_update makes of the control structure `c` and the patch `p`.
deep_update(c, p) ==
    CASE p.kind = "mode" -> [c EXCEPT !.mode = p.mode, !.updated = TRUE]
      [] p.kind = "hold" -> [c EXCEPT !.mode = "Hold", !.updated = TRUE,
                                      !.primary_setpoint = p.setpoint]
      [] p.kind = "prime" -> [c EXCEPT !.mode = "Prime", !.updated = TRUE,
                                       !.next_mode = p.next_mode]
      [] p.kind = "units" -> [c EXCEPT !.updated = TRUE, !.units_change = TRUE]
      [] p.kind = "continue" -> [c EXCEPT !.pause = FALSE]
      [] p.kind = "manual" ->
            [c EXCEPT !.manual = [change |-> p.output, output |-> p.on]]
      [] p.kind = "notify" -> [c EXCEPT !.notify = p.notify]

-----------------------------------------------------------------------------
(* Commands.  execute() runs in the API, the bridge or a display: it looks *)
(* at the control structure and queues a patch.                            *)

\* The state checks the handlers make before they queue anything.
Accepted(cmd, allow_manual) ==
    /\ cmd.kind = "continue" => control.mode = "Recipe"
    /\ cmd.kind = "manual" => control.mode = "Manual" \/ allow_manual

\* notify.set and the timer commands read notify_data, change one entry and
\* queue the whole list; the other commands queue fixed fields.
PatchOf(cmd) ==
    IF cmd.kind = "notify.set"
    THEN [kind |-> "notify",
          notify |-> [control.notify EXCEPT ![cmd.item] = cmd.entry]]
    ELSE cmd

execute(cmd, allow_manual) ==
    /\ Accepted(cmd, allow_manual)
    /\ Len(queue) < QueueLimit
    /\ queue' = Append(queue, PatchOf(cmd))
    /\ UNCHANGED control

\* One turn of the loop of execute_control_writes.
MergeWrite ==
    /\ queue # <<>>
    /\ control' = deep_update(control, Head(queue))
    /\ queue' = Tail(queue)

\* The control process found the queue empty: execute_control_writes is over.
WritesExecuted == queue = <<>>

\* read_control(flush=True): every key of the control structure is deleted and
\* the structure starts again from its defaults.
flush_control(c) ==
    /\ control' = c
    /\ queue' = <<>>

=============================================================================
