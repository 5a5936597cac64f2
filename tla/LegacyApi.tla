------------------------------- MODULE LegacyApi -------------------------------
(***************************************************************************)
(* The PiFire-compatible API (server/legacy.py over common.process_command)*)
(* on the control structure: a request reads the whole structure, changes  *)
(* what it names, and queues the WHOLE structure it read, which the control*)
(* process later lays over its own.  The app's own commands queue only the *)
(* fields they change.                                                     *)
(*                                                                         *)
(* The server has one worker and serves one such request at a time; what   *)
(* lies between its reading and its being merged is the app, the control   *)
(* process, and requests that were queued and not merged yet.              *)
(*                                                                         *)
(* Temperatures are 0 or a target; of a timer the model keeps whether it   *)
(* runs, is paused or is off.                                              *)
(***************************************************************************)
EXTENDS Integers, Sequences

CONSTANT Requests \* bound of the model: requests, and steps of the control process

VARIABLES
    control, \* control:general
    queue,   \* control:write, whole structures and the app's partial ones
    held,    \* what the request being served has still to queue
    units,   \* settings['globals']['units']
    manual,  \* settings['safety']['allow_manual_changes']
    left

vars == <<control, queue, held, units, manual, left>>

Modes == {"Stop", "Startup", "Hold", "Smoke", "Prime", "Manual"}
Control ==
    [mode : Modes, updated : BOOLEAN, setpoint : {0, 1}, next : {"Stop", "Startup"},
     s_plus : BOOLEAN, target : {0, 1}, req : BOOLEAN, timer : {"off", "running", "paused"},
     after : BOOLEAN, change : {"none", "fan"}, output : BOOLEAN,
     hopper_check : BOOLEAN, settings_update : BOOLEAN, units_change : BOOLEAN]

\* default_control.
Fresh ==
    [mode |-> "Stop", updated |-> TRUE, setpoint |-> 0, next |-> "Stop", s_plus |-> FALSE,
     target |-> 0, req |-> FALSE, timer |-> "off", after |-> FALSE, change |-> "none",
     output |-> FALSE, hopper_check |-> FALSE, settings_update |-> FALSE, units_change |-> FALSE]

\* What the app writes.
Stop == [mode |-> "Stop", updated |-> TRUE]

\* A write: its document and, beside it, what the request asks for (a set of values for
\* each field it names) and the structure as the request read it.
IsWrite(w) ==
    w.doc \in Control \cup {Stop} /\ w.base \in Control /\ DOMAIN w.asks \subseteq DOMAIN w.base

TypeOK ==
    /\ control \in Control
    /\ \A i \in DOMAIN queue : IsWrite(queue[i])
    /\ \A i \in DOMAIN held : IsWrite(held[i])
    /\ units \in {"F", "C"} /\ manual \in BOOLEAN

\* The grill is at rest, or primes.
Init ==
    /\ control \in {Fresh, [Fresh EXCEPT !.mode = "Prime", !.updated = FALSE]}
    /\ queue = <<>> /\ held = <<>>
    /\ units \in {"F", "C"} /\ manual \in BOOLEAN
    /\ left = Requests

-----------------------------------------------------------------------------
(* The requests: what each asks for, and what its handler makes of the     *)
(* structure c it has read.  A request that is refused queues nothing,     *)
(* except where it is said.                                                *)

Made(doc, c, asks) == <<[doc |-> doc, base |-> c, asks |-> asks]>>
Nothing == [f \in {} |-> {}]

\* set/mode and set/psp.  A setpoint of zero is accepted; prime takes a next mode.
Mode(c, m) ==
    Made([c EXCEPT !.mode = m, !.updated = TRUE], c, [mode |-> {m}, updated |-> {TRUE}])
Hold(c, t) ==
    Made([c EXCEPT !.mode = "Hold", !.setpoint = t, !.updated = TRUE], c,
         [mode |-> {"Hold"}, setpoint |-> {t}, updated |-> {TRUE}])
Prime(c, n) ==
    Made([c EXCEPT !.mode = "Prime", !.next = n, !.updated = TRUE], c,
         [mode |-> {"Prime"}, next |-> {n}, updated |-> {TRUE}])

\* set/splus: anything but "true" switches it off.
SPlus(c, b) == Made([c EXCEPT !.s_plus = b], c, [s_plus |-> {b}])

\* set/notify/<label>/req and /target.  In Celsius the target goes to the grill's
\* setpoint instead.  An attribute that does not exist, or a target that is no number,
\* is refused, and the structure queued all the same.
NotifyReq(c, b) == Made([c EXCEPT !.req = b], c, [req |-> {b}])
Target(c, t) ==
    IF units = "F" THEN Made([c EXCEPT !.target = t], c, [target |-> {t}])
    ELSE Made([c EXCEPT !.setpoint = t], c, [target |-> {0, 1}, setpoint |-> {t}])
NotifyRefused(c) == Made(c, c, Nothing)

\* set/timer: starting a paused timer resumes it; pausing one that is off, like
\* stopping it, clears what it was to do when it ends.
TimerStart(c) == Made([c EXCEPT !.timer = "running"], c, [timer |-> {"running"}])
TimerStop(c) ==
    Made([c EXCEPT !.timer = "off", !.after = FALSE], c, [timer |-> {"off"}, after |-> {FALSE}])
TimerPause(c) ==
    IF c.timer = "off" THEN TimerStop(c)
    ELSE Made([c EXCEPT !.timer = "paused"], c, [timer |-> {"paused"}])
TimerAfter(c, b) == Made([c EXCEPT !.after = b], c, [after |-> {b}])

\* set/manual, allowed in Manual mode or when the settings allow it; an output that
\* does not exist is refused, but while another change waits the structure is queued.
Manual(c, b) ==
    IF c.mode = "Manual" \/ manual
    THEN Made([c EXCEPT !.change = "fan", !.output = b], c, [change |-> {"fan"}, output |-> {b}])
    ELSE <<>>
ManualRefused(c) ==
    IF (c.mode = "Manual" \/ manual) /\ c.change # "none" THEN Made(c, c, Nothing) ELSE <<>>

\* get/hopper asks the control process for a measurement, which is a write too.
Hopper(c) == Made([c EXCEPT !.hopper_check = TRUE], c, [hopper_check |-> {TRUE}])

\* set/units queues two, after it has written the settings file.
Units(c) ==
    LET once == [c EXCEPT !.settings_update = TRUE]
    IN  Made(once, c, [settings_update |-> {TRUE}])
        \o Made([once EXCEPT !.updated = TRUE, !.units_change = TRUE], c,
                [settings_update |-> {TRUE}, updated |-> {TRUE}, units_change |-> {TRUE}])

-----------------------------------------------------------------------------
(* The steps.                                                              *)

Spend == left > 0 /\ left' = left - 1

\* process_command reads the structure and changes its copy.
Request(writes) ==
    /\ held = <<>> /\ Spend
    /\ held' = writes
    /\ UNCHANGED <<control, queue, manual>>

SetMode == \E m \in {"Stop", "Smoke", "Manual"} : Request(Mode(control, m)) /\ UNCHANGED units
SetHold == \E t \in {0, 1} : Request(Hold(control, t)) /\ UNCHANGED units
SetPrime == \E n \in {"Stop", "Startup"} : Request(Prime(control, n)) /\ UNCHANGED units
SetNotify ==
    /\ \/ \E b \in BOOLEAN : Request(NotifyReq(control, b))
       \/ \E t \in {0, 1} : Request(Target(control, t))
       \/ Request(NotifyRefused(control))
    /\ UNCHANGED units
SetTimer ==
    /\ \/ Request(TimerStart(control)) \/ Request(TimerPause(control)) \/ Request(TimerStop(control))
       \/ \E b \in BOOLEAN : Request(TimerAfter(control, b))
    /\ UNCHANGED units
SetManual ==
    /\ (\E b \in BOOLEAN : Request(Manual(control, b))) \/ Request(ManualRefused(control))
    /\ UNCHANGED units
SetSPlus == \E b \in BOOLEAN : Request(SPlus(control, b)) /\ UNCHANGED units
GetHopper == Request(Hopper(control)) /\ UNCHANGED units
SetUnits == Request(Units(control)) /\ units' \in {"F", "C"}

\* write_control queues it.
Queue ==
    /\ held # <<>>
    /\ queue' = Append(queue, Head(held))
    /\ held' = Tail(held)
    /\ UNCHANGED <<control, units, manual, left>>

\* A command of the app, or the body of a POST to /api/control: only the fields
\* it changes.
AppStops ==
    /\ Spend
    /\ queue' = Append(queue, [doc |-> Stop, base |-> control,
                               asks |-> [mode |-> {"Stop"}, updated |-> {TRUE}]])
    /\ UNCHANGED <<control, held, units, manual>>

\* Mutant: a field that is false or zero is taken for one that was not sent.
OverlaidWithWhatIsSet(c, doc) ==
    [k \in DOMAIN c |->
        IF k \in DOMAIN doc /\ doc[k] \notin IF k \in {"setpoint", "target"} THEN {0}
                                          ELSE IF k \in {"mode", "next", "timer", "change"} THEN {"off"}
                                          ELSE {FALSE}
        THEN doc[k] ELSE c[k]]

\* execute_control_writes: what the document has replaces what was there.
Overlaid(c, doc) == [k \in DOMAIN c |-> IF k \in DOMAIN doc THEN doc[k] ELSE c[k]]

Merge ==
    /\ queue # <<>>
    /\ control' = Overlaid(control, Head(queue).doc)
    /\ queue' = Tail(queue)
    /\ UNCHANGED <<held, units, manual, left>>

\* The control process takes up what is flagged, or ends a mode or a timer by itself.
Acknowledged(c, flag) == [c EXCEPT ![flag] = FALSE]
TakenUp(c) ==
    [c EXCEPT !.updated = FALSE, !.units_change = FALSE,
              !.mode = IF c.units_change THEN "Stop" ELSE @]
Switched(c) == [c EXCEPT !.change = "none", !.output = FALSE]
Ended(c) == [c EXCEPT !.mode = c.next, !.setpoint = 0, !.updated = TRUE]
TimedOut(c) == [c EXCEPT !.req = FALSE, !.timer = "off", !.after = FALSE]

ControlWrites(after) ==
    Spend /\ control' = after /\ UNCHANGED <<queue, held, units, manual>>
Acknowledge ==
    \E flag \in {"hopper_check", "settings_update"} :
        control[flag] /\ ControlWrites(Acknowledged(control, flag))
TakeUp == control.updated /\ ControlWrites(TakenUp(control))
Switch == control.change # "none" /\ ControlWrites(Switched(control))
End == control.mode = "Prime" /\ ~control.updated /\ ControlWrites(Ended(control))
TimeOut == control.timer = "running" /\ ControlWrites(TimedOut(control))

\* The process starts, or takes up a Stop: the structure is made anew and the queue is
\* dropped.  A request under way is not.
Flush ==
    /\ Spend
    /\ control' = Fresh /\ queue' = <<>>
    /\ UNCHANGED <<held, units, manual>>

Next ==
    \/ SetMode \/ SetHold \/ SetPrime \/ SetSPlus \/ SetNotify \/ SetTimer \/ SetManual
    \/ SetUnits \/ GetHopper
    \/ Queue \/ AppStops \/ Merge
    \/ Acknowledge \/ TakeUp \/ Switch \/ End \/ TimeOut \/ Flush

Spec == Init /\ [][Next]_vars

-----------------------------------------------------------------------------
(* Properties.                                                             *)

\* Whatever came between a request's reading and its merge (the app's Stop, what the
\* control process took up, another request, a flush), the write does what was asked;
\* and of what was not asked it changes only what changed in between, which it puts
\* back.  What nobody touched stays: a refused request, and the first write of two,
\* leave nothing behind.
DoesWhatItSays(w, before, after) ==
    \A k \in DOMAIN before :
        IF k \in DOMAIN w.asks THEN after[k] \in w.asks[k]
        ELSE after[k] = before[k] \/ (before[k] # w.base[k] /\ after[k] = w.base[k])
WritesDoWhatTheySay == Merge => DoesWhatItSays(Head(queue), control, control')
=============================================================================
