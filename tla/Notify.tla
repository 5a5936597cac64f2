-------------------------------- MODULE Notify --------------------------------
(***************************************************************************)
(* check_notify: the pass over notify_data that every iteration of a work  *)
(* cycle, and of the main loop, makes.  It is a function of the caller's   *)
(* control dictionary and of which conditions hold: `hit` is the set of    *)
(* items whose target, limit or end time is met at this moment.            *)
(***************************************************************************)
EXTENDS ControlStore

CONSTANTS
    KeepWarmTemp, \* settings['keep_warm']['temp']
    HopperWarning \* settings['pelletlevel']['warning_enabled']: the hopper's
                  \* item, which has no action of its own, is always armed

ASSUME NotifyAssumption == KeepWarmTemp \in Nat \ {0} /\ HopperWarning \in BOOLEAN

\* "Do Shutdown or Keep Warm if Requested": what follows an armed item.
ItemAction(c, i) ==
    LET item == c.notify[i]
    IN  IF /\ item.shutdown /\ ~item.req
           /\ c.mode \in {"Reignite", "Startup", "Smoke", "Hold"}
        THEN [c EXCEPT !.mode = "Shutdown", !.updated = TRUE,
                       !.notify[i].shutdown = FALSE]
        ELSE IF item.keep_warm /\ ~item.req /\ c.mode \in {"Smoke", "Hold"}
        THEN [c EXCEPT !.mode = "Hold", !.updated = TRUE,
                       !.primary_setpoint = KeepWarmTemp,
                       !.notify[i].keep_warm = FALSE]
        ELSE IF item.reignite /\ item.triggered /\ c.mode \in {"Smoke", "Hold"}
        THEN [c EXCEPT !.mode = "Reignite", !.updated = TRUE,
                       !.reignitelaststate = c.mode]
        ELSE c

\* A probe target or the timer: once it fires the request is cleared, and in a
\* recipe the step's trigger is set if the step waits for it.
CheckOnce(c, i, hit, awaited) ==
    IF ~c.notify[i].req
    THEN c
    ELSE ItemAction(IF i \in hit
                    THEN [c EXCEPT !.notify[i].req = FALSE,
                                   !.triggered = @ \/ (c.mode = "Recipe" /\ i \in awaited)]
                    ELSE c, i)

\* A limit keeps its request: it latches while the condition holds.
CheckLimit(c, i, hit) ==
    IF ~c.notify[i].req
    THEN c
    ELSE ItemAction([c EXCEPT !.notify[i].triggered = i \in hit], i)

\* The items in the order of the list default_notify builds; `awaited` are the
\* ones the running recipe step waits for.
check_notify(c, hit, awaited) ==
    CheckOnce(CheckLimit(CheckOnce(c, "probe", hit, awaited), "limit", hit),
              "timer", hit, awaited)

\* The main loop calls it without probe readings: only the timer is looked at,
\* the probe and limit items just run their action.
check_notify_idle(c, hit) ==
    LET skip(d, i) == IF d.notify[i].req THEN ItemAction(d, i) ELSE d
    IN  CheckOnce(skip(skip(c, "probe"), "limit"), "timer", hit, {})

\* The dictionary is written back once per armed item, so over whatever another
\* thread or process has stored since the caller read it; the hopper's item is
\* passed over in Stop.
NotifyWrites(c) ==
    \/ \E i \in Item : c.notify[i].req
    \/ HopperWarning /\ c.mode # "Stop"

=============================================================================
