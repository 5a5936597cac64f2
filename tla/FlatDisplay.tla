------------------------------ MODULE FlatDisplay ------------------------------
(***************************************************************************)
(* The displays with buttons or an encoder and a menu: the colour panels   *)
(* (base_240x240.py and its two larger copies) and the small monochrome    *)
(* one (ssd1306b.py).  A thread turns the input into menu steps and draws; *)
(* the control process hands it readings and messages and clears it, by    *)
(* setting fields the thread reads: nothing locks them.                    *)
(*                                                                         *)
(* What is drawn is left out but for which screen it is.  Of time the      *)
(* model keeps whether a message's timeout, and the menu's five seconds,   *)
(* have passed.                                                            *)
(***************************************************************************)
EXTENDS Integers, Sequences

CONSTANTS
    Presses, \* bound of the model: keys pressed
    Updates  \* bound of the model: calls of the control process

VARIABLES
    panel,  \* "colour" or "mono"
    mode,   \* control['mode']
    d,      \* the fields of the display object
    event,  \* input_event and input_counter
    phase,  \* where the thread is in its loop
    asked,  \* the last request written to the control structure
    left    \* keys and calls left

vars == <<panel, mode, d, event, phase, asked, left>>

Keys == {"UP", "DOWN", "ENTER"}
NoKey == [key |-> "none", counter |-> 0]
NoMenu == [at |-> "none", option |-> 0]
Modes == {"Stop", "Error", "Startup", "Hold", "Recipe"}

\* The options of each menu, in order.
ColourMenus ==
    [inactive |-> <<"Startup", "Prime", "Monitor", "Stop", "Network", "Power">>,
     active |-> <<"Hold", "Shutdown", "Smoke", "SmokePlus", "Stop", "Network">>,
     active_recipe |-> <<"NextStep", "Shutdown", "Stop", "SmokePlus", "Network">>,
     prime_selection |-> <<"Prime_10", "Prime_25", "Prime_50", "Prime_10_Start",
                           "Prime_25_Start", "Prime_50_Start", "Menu_Back">>,
     power_menu |-> <<"Power_Off", "Power_Restart", "Menu_Back">>]
MonoMenus ==
    [inactive |-> <<"Startup", "Monitor", "Stop", "Network">>,
     active |-> <<"Shutdown", "Hold", "Smoke", "Stop", "SmokePlus", "Network">>]
Menus == IF panel = "colour" THEN ColourMenus ELSE MonoMenus

TypeOK ==
    /\ panel \in {"colour", "mono"} /\ mode \in Modes
    /\ d.command \in {"none", "clear", "splash", "text", "network"}
    /\ d.timeout \in {"none", "running", "over"} /\ d.age \in {"fresh", "old"}
    /\ d.active \in BOOLEAN /\ d.opened \in BOOLEAN /\ d.data \in BOOLEAN
    /\ d.menu.at \in DOMAIN ColourMenus \cup {"none", "grill_hold_value"}
    /\ d.screen \in {"blank", "splash", "text", "network", "menu", "current"}
    /\ event.key \in Keys \cup {"none"} /\ phase \in {"input", "output", "drawn"}

Init ==
    /\ panel \in {"colour", "mono"} /\ mode = "Stop"
    /\ d = [command |-> "splash", timeout |-> "none", active |-> FALSE, data |-> FALSE,
            units |-> "F", setpoint |-> 0, menu |-> NoMenu, opened |-> FALSE, age |-> "old",
            screen |-> "blank"]
    /\ event = NoKey /\ phase = "input" /\ asked = <<>>
    /\ left = [presses |-> Presses, updates |-> Updates]

-----------------------------------------------------------------------------
(* The control process and the outside.                                    *)

Called(dd) ==
    /\ left.updates > 0
    /\ left' = [left EXCEPT !.updates = @ - 1]
    /\ d' = dd
    /\ UNCHANGED <<panel, mode, event, phase, asked>>

display_status(units, setpoint) ==
    Called([d EXCEPT !.units = units, !.active = TRUE, !.data = TRUE, !.setpoint = setpoint])
display_text == Called([d EXCEPT !.command = "text"])
clear_display == Called([d EXCEPT !.command = "clear"])

ModeChanges ==
    /\ left.updates > 0
    /\ left' = [left EXCEPT !.updates = @ - 1]
    /\ mode' \in Modes \ {mode}
    /\ UNCHANGED <<panel, d, event, phase, asked>>

\* A button, or the encoder, which counts its steps until they are handled.
Press(key, counter) ==
    /\ left.presses > 0
    /\ left' = [left EXCEPT !.presses = @ - 1]
    /\ event' = [key |-> key, counter |-> counter]
    /\ UNCHANGED <<panel, mode, d, phase, asked>>

TimePasses ==
    /\ d.timeout = "running" \/ d.age = "fresh"
    /\ d' = [d EXCEPT !.timeout = IF @ = "running" THEN "over" ELSE @, !.age = "old"]
    /\ UNCHANGED <<panel, mode, event, phase, asked, left>>

-----------------------------------------------------------------------------
(* _menu_display: each operator gives the fields after the key.            *)

Closed(dd) == [dd EXCEPT !.menu = NoMenu, !.opened = FALSE, !.age = "old"]
At(dd, menu) == [dd EXCEPT !.menu = [at |-> menu, option |-> 0]]

\* The menu for what the grill is doing.
MenuFor(m) ==
    IF panel = "colour"
    THEN IF m \in {"Stop", "Error", "Monitor", "Prime"} THEN "inactive"
         ELSE IF m = "Recipe" THEN "active_recipe" ELSE "active"
    ELSE IF m \in {"Stop", "Error", "Monitor"} THEN "inactive" ELSE "active"

\* The setpoint wraps around its range; faster turns take larger steps.
StepValue(units, counter) ==
    (IF units = "F" THEN 5 ELSE 2) * (IF counter < 3 THEN 1 ELSE IF counter < 7 THEN 4 ELSE 6)
Stepped(value, key, units, counter) ==
    LET low == IF units = "F" THEN 120 ELSE 50
        high == IF units = "F" THEN 500 ELSE 260
        step == StepValue(units, counter)
    IN  CASE key = "DOWN" -> IF value - step <= low THEN high ELSE value - step
          [] key = "UP" -> IF value + step > high THEN low ELSE value + step

\* UP and DOWN in a list of options wrap around.
Moved(dd, key) ==
    LET n == Len(Menus[dd.menu.at]) IN
    [dd EXCEPT !.menu.option = IF key = "UP" THEN (@ + 1) % n ELSE (@ + n - 1) % n]

\* Where the setpoint starts: the colour panel takes the one it last displayed.
HoldValue(dd) ==
    LET first == IF panel = "mono" THEN IF dd.units = "F" THEN 225 ELSE 100
                 ELSE IF ~dd.data \/ dd.setpoint = 0 THEN IF dd.units = "F" THEN 200 ELSE 100
                 ELSE dd.setpoint
    IN  [dd EXCEPT !.menu = [at |-> "grill_hold_value", option |-> first], !.active = TRUE]

\* Mutant: a menu opens at the option that led to it.
OptionStays(dd, item) ==
    [dd EXCEPT !.menu.at = IF item = "Menu_Back" THEN "inactive"
                           ELSE IF item = "Prime" THEN "prime_selection" ELSE "power_menu"]

\* Options that lead to another menu.
Submenu(dd, item) ==
    CASE item = "Menu_Back" -> At(dd, "inactive")
      [] item = "Prime" -> At(dd, "prime_selection")
      [] item = "Power" -> At(dd, "power_menu")

\* ENTER on the colour panel.
ChosenColour(dd, item) ==
    CASE item \in {"Menu_Back", "Prime", "Power"} -> Submenu(dd, item)
      [] item = "Hold" -> [HoldValue(dd) EXCEPT !.opened = TRUE]
      [] item = "Network" -> [dd EXCEPT !.command = "network"]
      [] item = "Stop" -> [Closed(dd) EXCEPT !.data = FALSE]
      [] item \in {"SmokePlus", "Power_Off", "Power_Restart"} -> Closed(dd)
      [] OTHER -> [Closed(dd) EXCEPT !.active = TRUE]

\* ENTER on the monochrome one.
ChosenMono(dd, item) ==
    CASE item = "Hold" -> HoldValue(dd)
      [] item = "Network" -> [dd EXCEPT !.command = "network"]
      [] item \in {"Startup", "Monitor"} -> Closed(dd)
      [] OTHER -> [Closed(dd) EXCEPT !.command = "clear"]

Request(dd, item) ==
    IF item \in {"Hold", "Network", "Prime", "Power", "Menu_Back"} THEN asked ELSE <<item>>

\* The screen is redrawn, except after the requests that return at once.
Drawn(dd, item) ==
    IF panel = "colour" /\ item \in {"Startup", "Monitor", "Stop", "Smoke", "SmokePlus"}
    THEN dd
    ELSE IF panel = "mono" /\ dd.menu.at = "none" THEN dd ELSE [dd EXCEPT !.screen = "menu"]

Selected(dd) == Menus[dd.menu.at][dd.menu.option + 1]
InMenu(dd) ==
    dd.menu.at \in DOMAIN Menus => dd.menu.option \in 0..(Len(Menus[dd.menu.at]) - 1)

menu_display(dd, key, counter) ==
    IF dd.menu.at = "none" THEN
        /\ d' = Drawn(At(dd, MenuFor(mode)), "none") /\ UNCHANGED asked
    ELSE IF dd.menu.at = "grill_hold_value" THEN
        IF key = "ENTER"
        THEN /\ asked' = <<"Hold", dd.menu.option>>
             /\ d' = Drawn(IF panel = "mono" THEN [Closed(dd) EXCEPT !.command = "clear"]
                           ELSE Closed(dd), "none")
        ELSE /\ d' = Drawn([dd EXCEPT !.menu.option = Stepped(@, key, dd.units, counter)], "none")
             /\ UNCHANGED asked
    ELSE IF key # "ENTER" THEN
        /\ d' = Drawn(Moved(dd, key), "none") /\ UNCHANGED asked
    ELSE LET item == Selected(dd) IN
        /\ d' = Drawn(IF panel = "colour" THEN ChosenColour(dd, item) ELSE ChosenMono(dd, item), item)
        /\ asked' = Request(dd, item)

\* _event_detect: a key overrides what is displayed, and what was to be.
Input ==
    /\ phase = "input" /\ InMenu(d)
    /\ phase' = "output" /\ event' = NoKey
    /\ IF event.key = "none" THEN UNCHANGED <<d, asked>>
       ELSE menu_display([d EXCEPT !.timeout = "none", !.command = "none", !.opened = TRUE,
                            !.age = "fresh", !.active = IF panel = "mono" THEN TRUE ELSE @],
                         event.key, event.counter)
    /\ UNCHANGED <<panel, mode, left>>

-----------------------------------------------------------------------------
(* The rest of the loop.                                                   *)

\* A message whose time is over: a colour panel that has readings goes on with
\* them, every other case clears the display.
Expired(dd) ==
    IF dd.timeout # "over" THEN dd
    ELSE IF panel = "mono" THEN [dd EXCEPT !.command = "clear"]
    ELSE [dd EXCEPT !.timeout = "none", !.command = IF dd.active THEN @ ELSE "clear"]

Cleared(dd) == [dd EXCEPT !.active = FALSE, !.timeout = "none", !.command = "none", !.screen = "blank"]

\* Mutant: the menu closes only when there are readings to go back to.
CloseForReadings(dd) == IF dd.active THEN [Closed(dd) EXCEPT !.command = "clear"] ELSE dd

\* Five seconds without a key.
MenuTimedOut(dd) ==
    [Closed(dd) EXCEPT !.command = IF panel = "mono" \/ ~dd.active THEN "clear" ELSE @]

\* Mono: after its messages the loop goes on in the same turn; the last readings
\* stay.  Colour: readings are drawn once.
Shown(dd) ==
    IF dd.opened /\ dd.timeout = "none" THEN IF dd.age = "old" THEN MenuTimedOut(dd) ELSE dd
    ELSE IF dd.timeout = "none" /\ dd.active /\ dd.data
    THEN [dd EXCEPT !.screen = "current", !.data = (panel = "mono")] ELSE dd

\* Splash: colour asks for a clear when its three seconds are over.
Splash(dd) ==
    [dd EXCEPT !.screen = "splash", !.timeout = "running",
               !.active = IF panel = "mono" THEN TRUE ELSE @,
               !.command = IF panel = "mono" THEN "none" ELSE "clear"]

\* A turn of the loop; a message is drawn first and forgotten after.
Output ==
    /\ phase = "output"
    /\ LET dd == Expired(d) IN
       CASE dd.command = "clear" ->
              d' = (IF panel = "mono" THEN Shown(Cleared(dd)) ELSE Cleared(dd)) /\ phase' = "input"
         [] dd.command = "splash" -> d' = Splash(dd) /\ phase' = "input"
         [] dd.command \in {"text", "network"} ->
              d' = [dd EXCEPT !.screen = dd.command] /\ phase' = "drawn"
         [] OTHER -> d' = Shown(dd) /\ phase' = "input"
    /\ UNCHANGED <<panel, mode, event, asked, left>>

\* Without an address the network screen asks for a text instead.
NoAddress ==
    /\ phase = "output" /\ Expired(d).command = "network"
    /\ d' = [Expired(d) EXCEPT !.command = "text"] /\ phase' = "input"
    /\ UNCHANGED <<panel, mode, event, asked, left>>

\* display_command = None: whatever was asked for while the message was drawn is
\* forgotten with it.
Forget ==
    /\ phase = "drawn"
    /\ d' = [d EXCEPT !.command = "none", !.timeout = "running",
                      !.active = IF panel = "mono" THEN TRUE ELSE @]
    /\ phase' = "input"
    /\ UNCHANGED <<panel, mode, event, asked, left>>

Loop == Input \/ Output \/ NoAddress \/ Forget

Next ==
    \/ Loop \/ TimePasses
    \/ \E u \in {"F", "C"}, s \in {0, 230} : display_status(u, s)
    \/ display_text \/ clear_display \/ ModeChanges
    \/ \E k \in Keys, n \in {1, 8} : Press(k, n)

Spec == Init /\ [][Next]_vars /\ WF_vars(Loop) /\ WF_vars(TimePasses)

-----------------------------------------------------------------------------
(* Properties.                                                             *)

\* The option a menu is at is one of its options whatever menu led to it, so that
\* looking it up never ends the thread; and a menu nobody touches any more closes,
\* whatever messages came over it.
OnAnOption == InMenu(d)
MenuOpen == d.opened
MenuIsUsable == []OnAnOption /\ (MenuOpen ~> ~MenuOpen)

=============================================================================
