------------------------------- MODULE MCGrill -------------------------------
(* Instances of GrillControl for TLC: the commands clients issue in each    *)
(* run, and the recipes.                                                    *)
EXTENDS GrillControl

Request(m) == [kind |-> "mode", mode |-> m]
HoldAt(s) == [kind |-> "hold", setpoint |-> s]
PrimeThen(m) == [kind |-> "prime", next_mode |-> m]
Units == [kind |-> "units"]
Continue == [kind |-> "continue"]
Turn(out, on) == [kind |-> "manual", output |-> out, on |-> on]

Timer(shutdown, keep_warm) ==
    [kind |-> "notify.set", item |-> "timer",
     entry |-> [req |-> TRUE, shutdown |-> shutdown, keep_warm |-> keep_warm,
                reignite |-> FALSE, triggered |-> FALSE]]

NoRecipe == <<>>

\* Light the fire, smoke until the meat probe is hot, hold until the timer and
\* then until the user says so.
PorkRecipe ==
    << [mode |-> "Startup", hold_temp |-> 0, awaits |-> {}, pause |-> FALSE],
       [mode |-> "Smoke", hold_temp |-> 0, awaits |-> {"probe"}, pause |-> FALSE],
       [mode |-> "Hold", hold_temp |-> 225, awaits |-> {"timer"}, pause |-> TRUE] >>

CookCommands ==
    {Request("Startup"), Request("Stop"), HoldAt(225), Units,
     Timer(TRUE, FALSE), Timer(FALSE, TRUE)}

RecipeCommands == {Request("Recipe"), Request("Smoke"), Request("Stop"), Continue}

StartStop == {Request("Startup"), Request("Stop")}

ShutdownCommands == {Request("Startup"), Request("Shutdown")}

UnitsCommands == {Request("Recipe"), Units}

SwitchCommands ==
    {Request("Startup"), Request("Manual"), PrimeThen("Startup"), Request("Monitor"),
     Turn("igniter", TRUE)}

=============================================================================
