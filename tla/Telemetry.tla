------------------------------ MODULE Telemetry ------------------------------
(***************************************************************************)
(* What the control process tells the outside world on every pass and at   *)
(* every event: the MQTT broker (notify/mqtt_handler.py) and the WLED      *)
(* lights (notify/wled_handler.py), in the order notifications.py calls    *)
(* them.  MQTT publishes by exception and WLED on a change of mode, so     *)
(* each handler remembers what it last said; whether the listener heard it *)
(* is a different matter.  One call of a handler is one step: the process  *)
(* monitor's thread shares the handlers with the control loop, and its     *)
(* only call is the event Control_Process_Stopped.                         *)
(***************************************************************************)
EXTENDS Naturals

CONSTANTS
  Modes,          \* the modes of control['mode'] an instance visits
  Events,         \* the events an instance sends
  Changes,        \* bound: changes of mode
  Notices,        \* bound: events sent
  Faults          \* bound: requests lost, broken links, restarts

VARIABLES
  mode,           \* control['mode'], which another part of the program sets
  scheme,         \* get_control_mode(): settings read when the handler is made
  wled,           \* the WLED handler: last_mode, notify_duration, age of last_updated
  lights,         \* what the lights show
  adrift,         \* nothing will set the lights before the mode changes
  mqtt,           \* the MQTT handler: last values, last_mode, link, back-off
  heard,          \* control/mode as the broker has it
  unheard,        \* the last change of mode found no link and control was not sent since
  left            \* what remains of the bounds
vars == <<mode, scheme, wled, lights, adrift, mqtt, heard, unheard, left>>

None == "none"
Presets == {"Stop", "Startup", "Reignite", "Smoke", "Hold", "Shutdown", "Prime"}

Profile(m) ==
  CASE m \in {"Startup", "Prime"} -> "booting"
    [] m = "Reignite"             -> "preheat"
    [] m \in {"Smoke", "Hold"}    -> "cooking"
    [] m = "Shutdown"             -> "cooldown"
    [] OTHER                      -> "idle"

\* The profile of an event; "probe_alarm" is the suggested scheme's own.
EventProfile(e) ==
  CASE e \in {"Probe_Temp_Achieved", "Recipe_Step_Message"} -> "target_reached"
    [] e = "Probe_Temp_Limit_Alarm" ->
         IF scheme = "suggested" THEN "probe_alarm" ELSE "overshoot_alarm"
    [] e = "Timer_Expired"                         -> "timer_done"
    [] e \in {"Pellet_Level_Low", "Grill_Warning"} -> "low_pellets"
    [] OTHER                                       -> "error"

\* What the lights show for a mode: the traditional presets are numbered per
\* mode, and a mode without a preset sends nothing.
ModeLights(m) ==
  IF scheme # "traditional" THEN Profile(m)
  ELSE IF m \in Presets THEN m ELSE None

EventLights(e) ==
  IF e = "Test_Notify" THEN ModeLights("Startup")
  ELSE IF scheme = "traditional" THEN e ELSE EventProfile(e)

-----------------------------------------------------------------------------
\* A handler is made by the first notification after the process starts.
NewWled == [last_mode |-> None, duration |-> "short", age |-> "now"]
NewMqtt == [last |-> [mode |-> None, msg |-> None], last_mode |-> None,
            link |-> "down", wait |-> FALSE]

Init ==
  /\ mode \in Modes
  /\ scheme \in {"profiles", "suggested", "traditional"}
  /\ wled = NewWled
  /\ lights = None
  /\ mqtt = NewMqtt
  /\ heard = None
  /\ adrift = FALSE
  /\ unheard = FALSE
  /\ left = [changes |-> Changes, notices |-> Notices, faults |-> Faults]

\* requests.post: the request reaches the lights, or it is lost and only logged.
Post(shown, budget) ==
  \/ lights' = shown /\ left' = budget
  \/ /\ budget.faults > 0
     /\ left' = [budget EXCEPT !.faults = @ - 1]
     /\ UNCHANGED lights

Quiet == IF wled.duration = "short" THEN wled.age = "now" ELSE wled.age # "long"

\* GRILL_STATE: the memory is updated before the request is made.
WledState ==
  IF Quiet \/ mode = wled.last_mode
  THEN UNCHANGED <<wled, lights, adrift, left>>
  ELSE IF ModeLights(mode) = None
  THEN /\ wled' = [wled EXCEPT !.last_mode = mode, !.duration = "short"]
       /\ adrift' = FALSE
       /\ UNCHANGED <<lights, left>>
  ELSE /\ wled' = [last_mode |-> mode, duration |-> "short", age |-> "now"]
       /\ Post(ModeLights(mode), left)
       /\ adrift' = (left' # left)

\* Any other event: the lights show it for notify_duration (120 s), and
\* forgetting the mode is what brings the lights back.  The profile scheme's
\* test forgets nothing.
Remembered == [wled EXCEPT !.duration = "long", !.age = "now"]
Forgotten == [last_mode |-> None, duration |-> "long", age |-> "now"]

WledEvent(e, budget) ==
  /\ Post(EventLights(e), budget)
  /\ IF scheme = "profiles" /\ e = "Test_Notify"
     THEN wled' = [wled EXCEPT !.age = "now"] /\ adrift' = TRUE
     ELSE wled' = Forgotten /\ UNCHANGED adrift

-----------------------------------------------------------------------------
\* _publish_data: without a link nothing is sent, but a link is asked for, at
\* most once in five seconds.
Asked(m) ==
  IF m.h.link = "up" \/ m.h.wait THEN m
  ELSE [m EXCEPT !.h.link = "connecting", !.h.wait = TRUE]

\* _publish: a topic is sent when one of its values differs from the one
\* remembered, and what is to be said is remembered before it is sent.  The
\* topic notify_event carries a message alone.
Said(m, msg) ==
  IF msg = m.h.last.msg THEN m ELSE Asked([m EXCEPT !.h.last.msg = msg])

\* The topic control carries every value of CONTROL_SENSORS: `other' says that
\* one besides the mode has changed.
Controls(m, other) ==
  IF mode = m.h.last.mode /\ ~other THEN m
  ELSE IF m.h.link = "up"
  THEN [h |-> [m.h EXCEPT !.last.mode = mode], heard |-> mode, lost |-> FALSE]
  ELSE Asked([h |-> [m.h EXCEPT !.last.mode = mode], heard |-> m.heard,
              lost |-> m.lost \/ mode # m.h.last.mode])

\* _send_mqtt_notification after the event: the control data if the mode changed
\* or the update interval is over, then notify's message of a change of mode.
\* `more': a topic besides these has something to say.
Told(m, due, other, more) ==
  LET c == IF mode # m.h.last_mode
           THEN [Said(Controls(m, other), mode) EXCEPT !.h.last_mode = mode]
           ELSE IF due THEN Controls(m, other) ELSE m
  IN  IF more THEN Asked(c) ELSE c

Mqtt(m) ==
  /\ mqtt' = m.h
  /\ heard' = m.heard
  /\ unheard' = m.lost
Now == [h |-> mqtt, heard |-> heard, lost |-> unheard]

-----------------------------------------------------------------------------
\* check_notify's part of a pass of the control loop.
Pass ==
  /\ \E due, other, more \in BOOLEAN : Mqtt(Told(Now, due, other, more))
  /\ WledState
  /\ UNCHANGED <<mode, scheme>>

\* send_notifications.
Notice(e) ==
  /\ left.notices > 0
  /\ \E due, other, more \in BOOLEAN : Mqtt(Told(Said(Now, e), due, other, more))
  /\ WledEvent(e, [left EXCEPT !.notices = @ - 1])
  /\ UNCHANGED <<mode, scheme>>

SetMode(m) ==
  /\ left.changes > 0
  /\ m # mode
  /\ mode' = m
  /\ left' = [left EXCEPT !.changes = @ - 1]
  /\ UNCHANGED <<scheme, wled, lights, adrift, mqtt, heard, unheard>>

\* Time: 1 s and 120 s after last_updated, 5 s after a request to connect.
Elapse ==
  /\ wled.age # "long"
  /\ wled' = [wled EXCEPT !.age = IF @ = "now" THEN "second" ELSE "long"]
  /\ UNCHANGED <<mode, scheme, lights, adrift, mqtt, heard, unheard, left>>

BackedOff ==
  /\ mqtt.wait
  /\ mqtt' = [mqtt EXCEPT !.wait = FALSE]
  /\ UNCHANGED <<mode, scheme, wled, lights, adrift, heard, unheard, left>>

\* _on_connect, on the client's thread.
Connected ==
  /\ mqtt.link = "connecting"
  /\ mqtt' = [mqtt EXCEPT !.link = "up", !.wait = FALSE]
  /\ UNCHANGED <<mode, scheme, wled, lights, adrift, heard, unheard, left>>

\* The client's own thread goes on trying to connect.
LinkLost ==
  /\ left.faults > 0
  /\ mqtt.link = "up"
  /\ mqtt' = [mqtt EXCEPT !.link = "connecting"]
  /\ left' = [left EXCEPT !.faults = @ - 1]
  /\ UNCHANGED <<mode, scheme, wled, lights, adrift, heard, unheard>>

\* The control process is reset: both handlers are made again.
Restart ==
  /\ left.faults > 0
  /\ wled' = NewWled
  /\ mqtt' = NewMqtt
  /\ left' = [left EXCEPT !.faults = @ - 1]
  /\ UNCHANGED <<mode, scheme, lights, adrift, heard, unheard>>

Next ==
  \/ Pass
  \/ \E e \in Events : Notice(e)
  \/ \E m \in Modes : SetMode(m)
  \/ Elapse \/ BackedOff \/ Connected \/ LinkLost \/ Restart

Spec == Init /\ [][Next]_vars /\ WF_vars(Pass) /\ WF_vars(Elapse)

-----------------------------------------------------------------------------
TypeOK ==
  /\ mode \in Modes
  /\ scheme \in {"profiles", "suggested", "traditional"}
  /\ wled.last_mode \in Modes \cup {None}
  /\ wled.duration \in {"short", "long"} /\ wled.age \in {"now", "second", "long"}
  /\ mqtt.link \in {"down", "connecting", "up"}
  /\ mqtt.last_mode \in Modes \cup {None}
  /\ adrift \in BOOLEAN /\ unheard \in BOOLEAN

\* Once the grill settles, the lights show its mode again whatever events were
\* shown in between, unless the one request that said so was lost or it was the
\* profile scheme's test; and the broker has its mode, unless there was no link
\* when the mode was to be said and nothing else of the control data has
\* changed since (wled_handler.py:397-531, mqtt_handler.py:243-274).
CaughtUp ==
  /\ ModeLights(mode) \in {None, lights} \/ adrift
  /\ heard = mode \/ unheard
ListenersCatchUp == <>[]CaughtUp
=============================================================================
