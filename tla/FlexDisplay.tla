------------------------------ MODULE FlexDisplay ------------------------------
(***************************************************************************)
(* The displays laid out by a JSON file (base_flex.py, flexobject.py and   *)
(* dsi_800x480t.py, whose loop the other flexible panels repeat): one      *)
(* process that fetches the grill's status, handles a touch or a key, and  *)
(* draws a list of objects, the dash, a menu or a number dialog.           *)
(*                                                                         *)
(* Of an object the model keeps which list it belongs to and the buttons   *)
(* it carries; of a temperature, the digits that can be typed; of time,    *)
(* whether the ten seconds of a lit screen have passed.                    *)
(***************************************************************************)
EXTENDS Integers, Sequences, FiniteSets

CONSTANTS
    Touches, \* bound of the model: touches and keys
    Changes  \* bound of the model: changes of the grill's mode

VARIABLES
    grill,   \* the mode in the status the control process writes
    f,       \* the display object's fields
    phase,   \* where the loop is
    asked,   \* the requests written by the last command, in order
    said,    \* that command
    left     \* touches and changes left

vars == <<grill, f, phase, asked, said, left>>

Modes == {"Stop", "Startup", "Hold", "Monitor"}

\* The layout: what each menu offers, and the command of each dialog.
Buttons ==
    [main |-> {"menu_prime", "menu_startup", "cmd_monitor", "menu_system", "menu_close"},
     main_active_normal |->
        {"cmd_lid_open", "input_hold", "cmd_shutdown", "cmd_stop", "cmd_smoke", "cmd_splus",
         "menu_pmode", "menu_system", "menu_close"},
     main_active_monitor |-> {"cmd_stop", "menu_system", "menu_close"},
     system |-> {"menu_main_reboot", "menu_close"},
     main_reboot |-> {"cmd_reboot", "menu_close"},
     prime |-> {"menu_prime_startup", "menu_prime_only"},
     prime_startup |-> {"cmd_primestartup"},
     prime_only |-> {"cmd_primeonly"},
     startup |-> {"cmd_startup", "menu_close"},
     pmode |-> {"cmd_pmode"},
     hold |-> {"cmd_hold", "button_up", "button_5", "button_DEL", "menu_close"}]
Menus == DOMAIN Buttons
Dialogs == {"hold"}
MenuOf(button) ==
    CHOOSE m \in Menus : button \in {"menu_" \o m, "input_" \o m}
Opens(button) == \E m \in Menus : button \in {"menu_" \o m, "input_" \o m}

\* The control panel of the dash, and the icons that are always there.
DashButtons(mode) ==
    {"menu_main", "menu_pmode", "cmd_splus"} \cup
        CASE mode = "Startup" -> {"cmd_startup", "cmd_smoke", "input_hold", "cmd_stop"}
          [] mode = "Hold" -> {"cmd_smoke", "input_hold", "cmd_stop", "cmd_shutdown"}
          [] OTHER -> {"menu_prime", "menu_startup", "cmd_monitor", "cmd_stop"}

TypeOK ==
    /\ grill \in Modes /\ f.status \in Modes /\ f.last \in Modes \cup {"None"}
    /\ f.active \in {"off", "dash"} \cup Menus
    /\ f.objects \in {"none", "dash"} \cup Menus
    /\ f.stored \in {"none", "dash"} \cup Menus
    /\ f.timeout \in {"none", "running", "over"}
    /\ f.init \in BOOLEAN /\ f.value \in Nat /\ f.panel \in Modes
    /\ phase \in {"fetch", "event", "draw", "crashed", "ended"}

\* The loop begins after the splash screen.
Init ==
    /\ grill \in Modes
    /\ f = [active |-> "off", objects |-> "none", stored |-> "none", timeout |-> "none",
            init |-> TRUE, status |-> "Stop", last |-> "None", value |-> 200, panel |-> "Stop"]
    /\ phase = "fetch" /\ asked = <<>> /\ said = "none"
    /\ left = [touches |-> Touches, changes |-> Changes]

GrillChanges ==
    /\ left.changes > 0
    /\ grill' \in Modes \ {grill}
    /\ left' = [left EXCEPT !.changes = @ - 1]
    /\ UNCHANGED <<f, phase, asked, said>>

TenSeconds ==
    /\ f.timeout = "running" /\ phase \notin {"crashed", "ended"}
    /\ f' = [f EXCEPT !.timeout = "over"]
    /\ UNCHANGED <<grill, phase, asked, said, left>>

-----------------------------------------------------------------------------
(* Fetching the status, every 200 ms: it wakes a dark screen when the      *)
(* grill is at work.                                                       *)

Fetched(g) ==
    IF g.active = "off" /\ grill # "Stop"
    THEN [g EXCEPT !.status = grill, !.active = "dash", !.init = TRUE, !.timeout = "none"]
    ELSE [g EXCEPT !.status = grill]

Fetch ==
    /\ phase = "fetch"
    /\ f' = Fetched(f)
    /\ phase' = "event"
    /\ UNCHANGED <<grill, asked, said, left>>

\* (The first turn of the loop always fetches.)
TooSoonToFetch ==
    /\ phase = "fetch" /\ f.objects # "none"
    /\ phase' = "event"
    /\ UNCHANGED <<grill, f, asked, said, left>>

-----------------------------------------------------------------------------
(* Touches and keys.                                                       *)

\* The number dialog: three digits at most can be typed, an arrow steps by
\* five, and the last digit deleted leaves a zero.  The value stays in the
\* layout, for the next time the dialog is opened.
Typed(value, input) ==
    CASE input = "button_up" -> value + 5
      [] input = "button_DEL" -> value \div 10
      [] input = "button_5" /\ value < 100 -> 10 * value + 5
      [] OTHER -> value

Goto(g, screen) == [g EXCEPT !.active = screen, !.init = TRUE]
WaitsTen(g) == [g EXCEPT !.timeout = "running"]

\* _init_framework reads the layout again.
LayoutRead(g) == [g EXCEPT !.value = 200]

\* Mutant: the prime requests are tested for before the others.
PrimeFirst(command, value) ==
    LET When(cond, request) == IF cond THEN <<request>> ELSE <<>>
    IN  When(command = "cmd_primestartup", "PrimeThenStartup")
        \o When(command = "cmd_primeonly", "PrimeThenStop")
        \o When(command \in {"cmd_startup", "cmd_primestartup"}, "Startup")
        \o When(command = "cmd_hold" /\ value # 0, "Hold")
        \o When(command \in {"cmd_stop", "cmd_reboot"}, "Stop")

\* What each test of the command's name writes to the control structure, in
\* the order of the tests: primestartup also has startup in its name.
Writes(command, value) ==
    LET When(cond, request) == IF cond THEN <<request>> ELSE <<>>
    IN  When(command = "cmd_monitor", "Monitor")
        \o When(command \in {"cmd_startup", "cmd_primestartup"}, "Startup")
        \o When(command = "cmd_smoke", "Smoke")
        \o When(command = "cmd_hold" /\ value # 0, "Hold")
        \o When(command = "cmd_shutdown", "Shutdown")
        \o When(command = "cmd_stop", "Stop")
        \o When(command = "cmd_splus", "s_plus")
        \o When(command = "cmd_primestartup", "PrimeThenStartup")
        \o When(command = "cmd_primeonly", "PrimeThenStop")
        \o When(command = "cmd_pmode", "settings_update")
        \o When(command = "cmd_reboot", "Stop")

\* The lid's button and the manual toggles go through the web server instead.
\* A stop clears the copy of the status before the grill has stopped.
AfterCommand(g, command) ==
    LET h == Goto(g, "dash")
    IN  IF command = "cmd_stop"
        THEN WaitsTen([LayoutRead(h) EXCEPT !.status = "Stop"]) ELSE h

Command(g, command) ==
    /\ f' = AfterCommand(g, command)
    /\ asked' = Writes(command, g.value)
    /\ said' = command
    /\ phase' = IF command = "cmd_reboot" THEN "ended" ELSE "draw"

Opened(g, screen) ==
    Goto(IF g.active = "dash" THEN [g EXCEPT !.stored = g.objects] ELSE g, screen)

\* The button under the finger, or the one selected when ENTER is pressed.
Chosen(g, button) ==
    \/ /\ SubSeq(button, 1, 4) = "cmd_"
       /\ Command(g, button)
    \/ /\ \/ /\ button = "menu_close"
             /\ f' = Goto(g, "dash")
          \/ /\ Opens(button)
             /\ f' = Opened(g, MenuOf(button))
          \/ /\ SubSeq(button, 1, 7) = "button_"
             /\ f' = [g EXCEPT !.value = Typed(@, button)]
       /\ phase' = "draw"
       /\ UNCHANGED <<asked, said>>

\* Any event lights a dark screen for ten seconds more.
Refreshed(g) == IF g.timeout = "none" THEN g ELSE WaitsTen(g)
Woken(g) == WaitsTen(Goto(g, "dash"))

\* A finger touches what the objects of the list cover.
_process_touch ==
    IF f.active = "off" THEN f' = Woken(f) /\ phase' = "draw" /\ UNCHANGED <<asked, said>>
    ELSE \E button \in (IF f.objects = "dash" THEN DashButtons(f.panel)
                        ELSE Buttons[f.objects]) : Chosen(Refreshed(f), button)

MainMenu(mode) ==
    CASE mode \in {"Startup", "Hold"} -> "main_active_normal"
      [] mode = "Monitor" -> "main_active_monitor"
      [] OTHER -> "main"

\* A key opens the main menu from the dash; in a menu the arrows select and
\* ENTER chooses (one step of the model), in a dialog the arrows count.
_process_button ==
    LET g == Refreshed(f)
    IN  \/ /\ f.active = "off" /\ f' = Woken(f)
           /\ phase' = "draw" /\ UNCHANGED <<asked, said>>
        \/ /\ f.active = "dash" /\ f' = Opened(g, MainMenu(f.status))
           /\ phase' = "draw" /\ UNCHANGED <<asked, said>>
        \/ /\ f.active \in Menus \ Dialogs
           /\ \E button \in Buttons[f.objects] : Chosen(g, button)
        \/ /\ f.active \in Dialogs /\ Command(g, "cmd_hold")
        \/ /\ f.active \in Dialogs /\ Chosen(g, "button_up")

Event ==
    /\ phase = "event" /\ left.touches > 0
    /\ f.objects # "none" \/ f.active = "off"
    /\ _process_touch \/ _process_button
    /\ left' = [left EXCEPT !.touches = @ - 1]
    /\ UNCHANGED grill

NoEvent ==
    /\ phase = "event"
    /\ phase' = "draw"
    /\ UNCHANGED <<grill, f, asked, said, left>>

-----------------------------------------------------------------------------
(* Drawing.                                                                *)

\* The dash's list, built while the screen goes dark and kept from then on.
_init_dash(g) == [LayoutRead(g) EXCEPT !.objects = "dash", !.stored = "dash", !.panel = "Stop"]

\* Mutant: the timeout is switched off for a grill at work and never again on.
OnlyCleared(g) ==
    IF g.status = g.last THEN g
    ELSE [g EXCEPT !.last = g.status, !.panel = g.status,
                   !.timeout = IF g.status = "Stop" THEN @ ELSE "none"]

\* _update_dash_objects: the timeout runs in Stop mode only, and is set when
\* the mode is seen to change.
Updated(g) ==
    IF g.status = g.last THEN g
    ELSE [g EXCEPT !.last = g.status, !.panel = g.status,
                   !.timeout = IF g.status = "Stop" THEN "running" ELSE "none"]

Dashed(g) ==
    IF ~g.init THEN g
    ELSE LET h == IF g.stored = "none" THEN _init_dash(g) ELSE g
         IN  [h EXCEPT !.objects = h.stored, !.init = FALSE]

TimedOut(g) ==
    IF g.active # "off" /\ g.timeout = "over"
    THEN [g EXCEPT !.timeout = "none", !.active = "off", !.init = TRUE] ELSE g

Drawn(g) ==
    CASE g.active = "dash" -> Updated(Dashed(g))
      [] g.active \in Menus /\ g.init -> [g EXCEPT !.objects = g.active, !.init = FALSE]
      [] OTHER -> g

\* Updating by the dash's map a list that is not the dash's raises.
Draw ==
    /\ phase = "draw"
    /\ LET g == TimedOut(f)
           h == Drawn(g)
       IN  IF f.active = "off"
           THEN /\ f' = IF f.init THEN [_init_dash(f) EXCEPT !.init = FALSE] ELSE f
                /\ phase' = "fetch"
           ELSE /\ f' = h
                /\ phase' = IF h.active = "dash" /\ h.objects # "dash" THEN "crashed"
                            ELSE "fetch"
    /\ UNCHANGED <<grill, asked, said, left>>

Next ==
    \/ GrillChanges \/ TenSeconds
    \/ Fetch \/ TooSoonToFetch
    \/ Event \/ NoEvent
    \/ Draw

\* The loop runs; the status is fetched every 200 ms whatever the frame rate.
Spec ==
    /\ Init /\ [][Next]_vars
    /\ WF_vars(TenSeconds)
    /\ WF_vars(TooSoonToFetch \/ NoEvent \/ Draw)
    /\ SF_vars(Fetch)

-----------------------------------------------------------------------------
(* Properties.                                                             *)

\* A stopped grill's screen goes dark: if the dash was on the screen while the
\* grill was at work, or was woken by a touch, then however the modes changed,
\* once the grill stays in Stop mode, nobody opens a menu and the process runs,
\* the ten seconds are counted and the display sleeps.  (A menu opened in the
\* very frame in which the fetched status woke the screen escapes this: back on
\* the dash the mode is the one last drawn, and no time is counted.)
Calm == grill = "Stop" /\ f.active \in {"off", "dash"} /\ phase \notin {"crashed", "ended"}
Timed == f.active = "dash" /\ (f.timeout # "none" \/ f.last \notin {"Stop", "None"})
Asleep == f.active = "off"
ScreenSleeps == Timed /\ []Calm ~> Asleep

\* The command handler tests the command's name for one word after another:
\* whatever other word the name contains, the last request it writes, the one
\* the control structure ends up with, is the one the button is for.
LastWordIsTheButtons ==
    asked # <<>> =>
        LET last == asked[Len(asked)]
        IN  /\ said \in {"cmd_startup"} => last = "Startup"
            /\ said = "cmd_primestartup" => last = "PrimeThenStartup"
            /\ said \in {"cmd_stop", "cmd_reboot"} => last = "Stop"
            /\ said = "cmd_hold" => last = "Hold"
=============================================================================
