------------------------------- MODULE WorkCycle -------------------------------
(***************************************************************************)
(* The outputs of one work cycle (_work_cycle in control.py): the auger's  *)
(* cycle, the lid, smoke plus, fan control by the controller, the fan's    *)
(* speed and the manual overrides, pass after pass, on the outputs of the  *)
(* grill platform.                                                         *)
(*                                                                         *)
(* One pass is one unit of time.  What the controller answers and what the *)
(* pit does are open: the pit is "over" the set point, "near" it or under  *)
(* the lid threshold ("cold").  Changing modes is GrillControl's subject.  *)
(***************************************************************************)
EXTENDS Integers

CONSTANTS
    Cycle,    \* HoldCycleTime; the Smoke cycle has the same length
    Least,    \* u_min, as the passes of a cycle the auger is on
    Most,     \* u_max
    LidPause, \* LidOpenPauseTime
    Override, \* safety.manual_override_time
    On, Off,  \* smoke_plus.on_time and off_time
    DcFan,    \* platform.dc_fan
    Changes   \* bound of the model: what the user does

VARIABLES
    mode,   \* the mode of the cycle, "ended" after it
    out,    \* the platform's outputs
    s,      \* the local variables of the loop
    ask,    \* of the control structure: what the loop reads
    run,    \* (history) passes the auger has been on, since it was off
    forced, \* (history) an override has touched this run of the auger
    still,  \* (history) passes the fan has stood still, though something will start it,
            \* since an override or a lid event last held it off
    left

vars == <<mode, out, s, ask, run, forced, still, left>>

\* The fan's total cycle where the controller drives it, and the most it is on there.
TotalFan(splus) == IF splus THEN On + Off ELSE Cycle
MostFan(splus) == IF splus THEN On ELSE Cycle
Larger(a, b) == IF a > b THEN a ELSE b
Longest == Larger(On + Off, Cycle)

Cap == Longest + 1  \* clocks stop there: they are only compared with less
AugerModes == {"Startup", "Smoke", "Hold", "Prime"}
Modes == AugerModes \cup {"Shutdown", "Manual"}
Changed == {"none", "fan", "auger", "igniter", "power", "pwm"}

\* The passes a fan may stand still: an override, a lid event, or the longest it is off
\* in a cycle of its own, and then, once its speed is under control of the temperature,
\* until the controller next lets go of it.
Soon == Larger(Longest + Cycle - 1, Larger(LidPause + 1, Override))

TypeOK ==
    /\ mode \in Modes \cup {"ended"}
    /\ out \in [auger : BOOLEAN, fan : BOOLEAN, igniter : BOOLEAN, power : BOOLEAN, pwm : 0..2]
    /\ s \in [age : 0..Cap, on : 0..Cycle, wait : 0..Cap, fanage : 0..Cap, lid : 0..LidPause + 1,
              achieved : BOOLEAN, fanpid : BOOLEAN, ramping : BOOLEAN,
              fan : 0..Override, auger : 0..Override]
    /\ ask \in [splus : BOOLEAN, pwm : BOOLEAN, duty : 1..2, toggle : BOOLEAN,
                change : Changed, output : BOOLEAN]
    /\ run \in 0..Most + Override + 2 /\ forced \in BOOLEAN
    /\ still \in 0..Soon + 1

Older(age) == IF age < Cap THEN age + 1 ELSE age
Less(x) == IF x > 0 THEN x - 1 ELSE 0

\* _start_fan, and fan_on and fan_off of the platform.
FanOn(o, duty) == [o EXCEPT !.fan = TRUE, !.pwm = IF DcFan THEN duty ELSE 0]
FanOff(o) == [o EXCEPT !.fan = FALSE, !.pwm = 0]
SetDuty(o, duty) == [o EXCEPT !.pwm = duty]

\* The outputs and the locals a cycle starts with.
Startable(m) ==
    LET o == [auger |-> m \in AugerModes, igniter |-> m = "Startup", fan |-> FALSE,
              power |-> m # "Manual", pwm |-> 0]
    IN  IF m \in {"Startup", "Smoke", "Hold", "Shutdown"} THEN FanOn(o, 2) ELSE o

Init ==
    /\ mode \in Modes
    /\ out = Startable(mode)
    /\ s = [age |-> 0, on |-> IF mode = "Hold" THEN Least ELSE Most, wait |-> 0, fanage |-> 0,
            lid |-> 0, achieved |-> FALSE, fanpid |-> FALSE, ramping |-> FALSE,
            fan |-> 0, auger |-> 0]
    /\ ask \in [splus : BOOLEAN, pwm : BOOLEAN, duty : {2}, toggle : {FALSE},
                change : {"none"}, output : {FALSE}]
    /\ run = 0 /\ forced = FALSE /\ still = 0
    /\ left = Changes

-----------------------------------------------------------------------------
(* The parts of a pass.  Each takes and gives the state of the loop:       *)
(* x = [out, s, ask], with was = the outputs as read before any of them.   *)

\* The manual change the user asked for; it holds off the cycle for a while,
\* except in Manual mode.
ManualPart(x, was) ==
    LET over == IF mode = "Manual" THEN 0 ELSE Override
        on == x.ask.output
        done == [x EXCEPT !.ask.change = "none", !.ask.output = FALSE]
    IN  CASE x.ask.change = "none" -> x
          [] x.ask.change = "fan" ->
                [done EXCEPT !.out = IF on = was.fan THEN @ ELSE IF on THEN FanOn(@, 2) ELSE FanOff(@),
                             !.s.fan = over]
          [] x.ask.change = "auger" -> [done EXCEPT !.out.auger = on, !.s.auger = over]
          [] x.ask.change = "igniter" -> [done EXCEPT !.out.igniter = on]
          [] x.ask.change = "power" -> [done EXCEPT !.out.power = on]
          [] x.ask.change = "pwm" ->
                IF DcFan /\ was.fan /\ was.pwm # 1 THEN [done EXCEPT !.out = SetDuty(@, 1)] ELSE done

\* Mutant: the largest share is not enforced.
RatioUncapped(x, answer, fanpid) ==
    IF mode # "Hold" \/ x.s.wait < Cycle THEN x
    ELSE LET raw == IF x.s.lid > 0 THEN Least ELSE answer
         IN  [x EXCEPT !.s.wait = 0,
                       !.s.on = IF raw < Least THEN Least ELSE raw,
                       !.s.fanpid = raw < Least /\ fanpid /\ ~x.ask.pwm]

\* A new ratio once per cycle in Hold: the least while the lid is open, and never
\* more than the most; below the least the fan takes over, if that is enabled.
Ratio(x, answer, fanpid) ==
    IF mode # "Hold" \/ x.s.wait < Cycle THEN x
    ELSE LET raw == IF x.s.lid > 0 THEN Least ELSE answer
         IN  [x EXCEPT !.s.wait = 0,
                       !.s.on = IF raw < Least THEN Least ELSE IF raw > Most THEN Most ELSE raw,
                       !.s.fanpid = raw < Least /\ fanpid /\ ~x.ask.pwm]

\* The auger: on when it has been off for its share of the cycle, and back.
AugerPart(x, was) ==
    IF mode \notin AugerModes \/ x.s.auger > 0 THEN x
    ELSE IF ~was.auger /\ x.s.age >= Cycle - x.s.on
    THEN [x EXCEPT !.out.auger = TRUE, !.s.age = 0]
    ELSE IF was.auger /\ x.s.age >= x.s.on
    THEN [x EXCEPT !.out.auger = FALSE, !.s.age = 0]
    ELSE x

\* A lid is thought open when the pit falls after it had reached the set point, or
\* when the user says so; auger and fan stop.
Opened(x) ==
    [x EXCEPT !.out = [FanOff(@) EXCEPT !.auger = FALSE], !.s.age = 0, !.s.lid = LidPause + 1]

LidPart(x, pit) ==
    LET reached == [x EXCEPT !.s.achieved = @ \/ (mode = "Hold" /\ pit = "over")]
        seen == IF reached.s.achieved /\ pit = "cold"
                THEN [Opened(reached) EXCEPT !.s.achieved = FALSE] ELSE reached
        timed == IF seen.s.lid = 1
                 THEN [seen EXCEPT !.s.lid = 0, !.out = FanOn(@, x.ask.duty)] ELSE seen
    IN  IF mode # "Hold" THEN x
        ELSE IF ~x.ask.toggle THEN timed
        ELSE LET told == [timed EXCEPT !.ask.toggle = FALSE]
             IN  IF timed.s.lid > 0 THEN [told EXCEPT !.s.lid = 0] ELSE Opened(told)

\* The speed a fan under control of the temperature is to have.
DutyPart(x, pit, duty) ==
    IF DcFan /\ mode = "Hold" /\ x.ask.pwm
    THEN [x EXCEPT !.ask.duty = IF pit = "over" THEN 1 ELSE duty] ELSE x

\* The controller drives the fan: fanon is its share of the total.
FanPidPart(x, was, fanon) ==
    IF ~(mode = "Hold" /\ x.s.achieved /\ x.s.fanpid /\ x.s.lid = 0 /\ ~x.ask.pwm) THEN x
    ELSE IF was.fan /\ x.s.fanage >= fanon THEN [x EXCEPT !.out = FanOff(@), !.s.fanage = 0]
    ELSE IF ~was.fan /\ x.s.fanage >= TotalFan(x.ask.splus) - fanon
    THEN [x EXCEPT !.out = FanOn(@, x.ask.duty), !.s.fanage = 0] ELSE x

\* Smoke plus: outside its band the fan stays on, inside it the fan goes on and off.
SmokePlus(x, was, outside) ==
    IF outside
    THEN IF x.s.fan = 0 /\ ~was.fan THEN [x EXCEPT !.out = FanOn(@, x.ask.duty)] ELSE x
    ELSE IF was.fan /\ x.s.fanage >= On
    THEN IF x.s.fan = 0 THEN [x EXCEPT !.out = FanOff(@), !.s.fanage = 0] ELSE x
    ELSE IF ~was.fan /\ x.s.fanage >= Off /\ x.s.fan = 0
    THEN IF DcFan /\ ~(mode = "Hold" /\ x.ask.pwm)
         THEN [x EXCEPT !.out = FanOn(@, 1), !.s.fanage = 0, !.s.ramping = TRUE]
         ELSE [x EXCEPT !.out = FanOn(@, x.ask.duty), !.s.fanage = 0]
    ELSE x

\* Mutant: a fan that is off is only started for smoke plus.
FanPartOnlySmokes(x, was, outside) ==
    IF (mode = "Smoke" \/ x.s.achieved) /\ x.ask.splus /\ ~x.s.fanpid /\ x.s.lid = 0
    THEN SmokePlus(x, was, outside) ELSE x

\* The chain of alternatives the fan goes through in Smoke and Hold.
FanPart(x, was, outside) ==
    LET free == x.s.fan = 0
    IN  IF (mode = "Smoke" \/ x.s.achieved) /\ x.ask.splus /\ ~x.s.fanpid /\ x.s.lid = 0
        THEN SmokePlus(x, was, outside)
        ELSE IF ~was.fan /\ ~x.ask.splus /\ ~x.s.fanpid /\ x.s.lid = 0 /\ free
        THEN [x EXCEPT !.out = FanOn(@, x.ask.duty)]
        ELSE IF ~DcFan \/ ~free THEN x
        ELSE IF was.pwm # x.ask.duty /\ ~x.ask.splus /\ x.s.ramping
        THEN [x EXCEPT !.out = SetDuty(@, x.ask.duty), !.s.ramping = FALSE]
        ELSE IF x.ask.pwm /\ was.pwm # x.ask.duty THEN [x EXCEPT !.out = SetDuty(@, x.ask.duty)]
        ELSE IF ~x.ask.pwm /\ was.pwm # 2
        THEN [x EXCEPT !.out = SetDuty(@, 2), !.ask.duty = 2] ELSE x

-----------------------------------------------------------------------------
(* The steps.                                                              *)

\* The passage of time.
Ticked ==
    [s EXCEPT !.age = Older(@), !.wait = Older(@), !.fanage = Older(@),
              !.lid = IF @ > 1 THEN @ - 1 ELSE @, !.fan = Less(@), !.auger = Less(@)]

\* What is open in a pass, where it matters: the controller's answer, the pit, and
\* what follows from temperatures and settings for the fan.
Answers ==
    IF mode = "Hold" /\ s.wait + 1 >= Cycle
    THEN [ratio : {0, Least, Cycle}, fanpid : BOOLEAN] ELSE [ratio : {Least}, fanpid : {FALSE}]
Pits == IF mode = "Hold" THEN {"over", "near", "cold"} ELSE {"near"}
Fans ==
    [duty : IF DcFan /\ mode = "Hold" /\ ask.pwm THEN 1..2 ELSE {2},
     on : IF s.fanpid \/ (mode = "Hold" /\ s.wait + 1 >= Cycle) THEN 0..MostFan(ask.splus) ELSE {On},
     outside : IF mode \in {"Smoke", "Hold"} /\ ask.splus THEN BOOLEAN ELSE {FALSE}]

\* A Hold that has not (again) reached its set point while smoke plus is on or the
\* fan is the controller's: nothing starts the fan there.
Forgotten(x) == mode = "Hold" /\ ~x.s.achieved /\ (x.ask.splus \/ x.s.fanpid)

\* An override or a lid event of this pass holds the fan off anew.
HeldOff(x) == ask.change = "fan" \/ x.s.lid = LidPause + 1

\* One pass of the loop: its parts, one after the other.
Pass ==
    /\ mode # "ended"
    /\ \E answer \in Answers, fan \in Fans, pit \in Pits :
       \E x0 \in {ManualPart([out |-> out, s |-> Ticked, ask |-> ask], out)} :
       \E x1 \in {Ratio(x0, answer.ratio, answer.fanpid)} :
       \E x2 \in {AugerPart(x1, out)} :
       \E x3 \in {LidPart(x2, pit)} :
       \E x4 \in {IF mode \in {"Smoke", "Hold"} THEN FanPidPart(DutyPart(x3, pit, fan.duty), out, fan.on)
                  ELSE x3} :
       \E x \in {IF mode \in {"Smoke", "Hold"} THEN FanPart(x4, out, fan.outside) ELSE x4} :
            /\ out' = x.out /\ s' = x.s /\ ask' = x.ask
            /\ run' = IF ~x.out.auger THEN 0 ELSE IF run < Most + Override + 2 THEN run + 1 ELSE run
            /\ forced' = (x.s.auger > 0 \/ (forced /\ x.out.auger))
            /\ still' = IF mode \in {"Smoke", "Hold"} /\ ~x.out.fan /\ ~Forgotten(x) /\ ~HeldOff(x)
                        THEN IF still > Soon THEN still ELSE still + 1 ELSE 0
    /\ UNCHANGED <<mode, left>>

\* What the user changes in the control structure meanwhile.
UserAsks(after) ==
    /\ mode # "ended" /\ left > 0 /\ left' = left - 1
    /\ ask' = after
    /\ UNCHANGED <<mode, out, s, run, forced, still>>
TogglesSmokePlus == UserAsks([ask EXCEPT !.splus = ~@])
TogglesPwm == UserAsks([ask EXCEPT !.pwm = ~@])
TogglesLid == ~ask.toggle /\ UserAsks([ask EXCEPT !.toggle = TRUE])
Overrides ==
    \E change \in Changed \ {"none"}, on \in BOOLEAN :
        UserAsks([ask EXCEPT !.change = change, !.output = on])

\* The cycle ends: auger and igniter off, and the rest where no other cycle follows.
End ==
    /\ mode # "ended"
    /\ out' = LET o == [out EXCEPT !.auger = FALSE, !.igniter = FALSE]
              IN  IF mode \in {"Shutdown", "Manual", "Prime"}
                  THEN [FanOff(o) EXCEPT !.power = FALSE] ELSE o
    /\ mode' = "ended" /\ run' = 0 /\ forced' = FALSE /\ still' = 0
    /\ UNCHANGED <<s, ask, left>>

Next == Pass \/ TogglesSmokePlus \/ TogglesPwm \/ TogglesLid \/ Overrides \/ End
Spec == Init /\ [][Next]_vars

-----------------------------------------------------------------------------
(* Properties.                                                             *)

\* Whatever the controller answers, whatever the lid and the settings do, the auger
\* is never on for longer than the largest share of a cycle, unless the user holds it.
AugerIsBounded == mode \in {"Startup", "Smoke", "Hold"} /\ ~forced => run <= Most

\* In Smoke and Hold a fan that stands still comes back: after the last lid event,
\* after the last override, after smoke plus or the controller stopped it.  The
\* exception is the Hold that is Forgotten: there not even the user closing the lid
\* starts it.
FanComesBack == still <= Soon
=============================================================================
