------------------------------ MODULE Controllers ------------------------------
(***************************************************************************)
(* The Hold controllers (controller/pid*.py) as the work cycle uses them:  *)
(* one object per Hold, made by _init_controller, asked for a cycle ratio  *)
(* once per cycle (control.py:744), and made anew when their settings are  *)
(* changed (control.py:640).                                               *)
(*                                                                         *)
(* A ratio of 1 is Full, temperatures are counted in steps relative to the *)
(* set point and time in cycles, and gains are whole numbers.  The fuzzy   *)
(* and the ml controller are trained functions and not modelled.           *)
(***************************************************************************)
EXTENDS Integers

CONSTANTS
    Full,     \* a ratio of 1
    Ps, Is, Ds, \* the gains the user's options come to: kp is one of -Ps, and so on
    Centers,  \* 'center'
    Range,    \* bound of the model: the furthest the pit is from the set point
    Jump      \* bound of the model: degrees the pit changes in a cycle

VARIABLES
    kind,  \* settings['controller']['selected']
    opt,   \* its gains, 'center' and 'Clamping'
    c,     \* the controller object
    pit,   \* the temperature, relative to the set point
    u      \* the last answer

vars == <<kind, opt, c, pit, u>>

Band == 4    \* 'PB' of pid_ac and pid_sp
Window == 2  \* 'stable_window'
Sum == 16    \* bound of the model: an integral that nothing bounds

Kinds == {"pid", "pid_clamping", "pid_clamping_percent_pb", "pid_parallel", "pid_ac", "pid_sp"}

Within(x, low, high) == IF x < low THEN low ELSE IF x > high THEN high ELSE x
Abs(x) == IF x < 0 THEN -x ELSE x

\* _calculate_gains: kp = -1/PB, ki = kp/Ti, kd = kp * Td, with 0 for a PB or Ti of 0;
\* the parallel form has its gains, and whether it clamps, from the user.
Options(k) ==
    [p : {-x : x \in Ps}, i : {-x : x \in Is}, d : {-x : x \in Ds},
     center : IF k \in {"pid", "pid_ac", "pid_sp"} THEN Centers ELSE {0},
     clamping : IF k = "pid_parallel" THEN BOOLEAN
                ELSE {k \in {"pid_clamping", "pid_clamping_percent_pb"}}]

\* __init__ and set_target: nothing is integrated, and the last temperature is a
\* constant 150 (pid, pid_ac, pid_sp) or the last error zero (the clamping ones).
New(k) ==
    [inter |-> 0,
     last |-> IF k \in {"pid", "pid_ac", "pid_sp"} THEN -Range ELSE 0,
     new_target |-> TRUE, since |-> 0]

\* pid.py: the integral is held between -inter_max and inter_max, if there is a center.
Pid(now) ==
    LET max == IF opt.i = 0 THEN 0 ELSE Abs(opt.center) \div Abs(opt.i)
        inter == IF opt.center # 0 THEN Within(c.inter + now, -max, max) ELSE c.inter + now
    IN  [u |-> opt.p * now + opt.center + opt.i * inter + opt.d * (now - c.last),
         c |-> [c EXCEPT !.inter = inter, !.last = now]]

\* Mutant: the integral is taken back only when the output is past its lower limit.
ClampedBelow(now) ==
    LET inter == c.inter + now
        out == opt.p * now + opt.i * inter + opt.d * (now - c.last)
        clamp == opt.clamping /\ out <= -Full /\ opt.i * inter * out > 0
    IN  [u |-> out, c |-> [c EXCEPT !.inter = IF clamp THEN @ ELSE inter, !.last = now]]

\* pid_clamping.py, pid_clamping_percent_pb.py and pid_parallel.py: where the scheme
\* clamps, an update that leaves the output past a limit, pushed there by the
\* integral, is taken back.
Clamped(now) ==
    LET inter == c.inter + now
        out == opt.p * now + opt.i * inter + opt.d * (now - c.last)
        clamp == opt.clamping /\ Abs(out) >= Full /\ opt.i * inter * out > 0
    IN  [u |-> out, c |-> [c EXCEPT !.inter = IF clamp THEN @ ELSE inter, !.last = now]]

\* pid_ac.py and pid_sp.py: full below the band, nothing above the window, and
\* between them a PID whose integral TERM is clamped.  pid_sp works on the
\* temperature it predicts; the reduction it computes within the band is
\* overwritten by the next line (pid_sp.py:149).
Adaptive(now) ==
    LET seen == IF kind = "pid_sp" THEN now + ((now - c.last) \div 2) ELSE now
        reset == \/ Abs(now) > Window
                 \/ /\ c.new_target /\ Abs(now) > 1
                    /\ c.since >= 3 /\ Abs(now) <= Range \div 2
        inter == Within((IF reset THEN 0 ELSE c.inter) + seen, -Sum, Sum)
        reached == c.new_target /\ Abs(now) > 1
        moved == [c EXCEPT !.last = now, !.since = Within(@ + 1, 0, 3)]
    IN  IF seen < -Band THEN [u |-> Full, c |-> moved]
        ELSE IF seen > Window THEN [u |-> 0, c |-> moved]
        ELSE [u |-> opt.p * seen + opt.center + Within(opt.i * inter, -opt.center, opt.center)
                    + opt.d * (seen - c.last),
              c |-> [moved EXCEPT !.inter = inter, !.new_target = reached]]

Update(now) ==
    IF kind = "pid" THEN Pid(now)
    ELSE IF kind \in {"pid_ac", "pid_sp"} THEN Adaptive(now)
    ELSE Clamped(now)

-----------------------------------------------------------------------------
TypeOK ==
    /\ kind \in Kinds /\ opt \in Options(kind) /\ pit \in -Range..Range /\ u \in Int
    /\ c.inter \in Int /\ c.last \in -Range..Range /\ c.new_target \in BOOLEAN /\ c.since \in 0..3

Init ==
    /\ kind \in Kinds /\ opt \in Options(kind)
    /\ c = New(kind)
    /\ pit \in {-Range, 0, 1}
    /\ u = 0

\* Something holds the integral: the clamp, unless there is no gain, or the bound of
\* pid.py, or the term's of pid_ac.py and pid_sp.py.
Bounded ==
    \/ opt.clamping /\ opt.i # 0
    \/ ~opt.clamping /\ kind # "pid_parallel" /\ opt.center # 0

\* One cycle of the work loop: the pit has changed and the ratio is asked for.
Cycle ==
    \E now \in (pit - Jump)..(pit + Jump) :
        /\ now \in -Range..Range
        /\ Bounded \/ Abs(c.inter) < Sum
        /\ pit' = now
        /\ u' = Update(now).u /\ c' = Update(now).c
        /\ UNCHANGED <<kind, opt>>

\* controller_update: _init_controller with the settings as they are now.
Reconfigure ==
    /\ kind' \in Kinds /\ opt' \in Options(kind')
    /\ c' = New(kind')
    /\ UNCHANGED <<pit, u>>

Next == Cycle \/ Reconfigure
Spec == Init /\ [][Next]_vars

-----------------------------------------------------------------------------
(* Properties.                                                             *)

\* However long the pit is kept cold or hot, and whenever the settings are changed,
\* the integral term stays within what the limits of the output leave room for: its
\* center for pid.py, and where a scheme clamps, the whole range and what one swing
\* of the derivative and one update of the integral can add.  (With a center of 0,
\* or with the option Clamping switched off, nothing bounds it.)
WindupIsBounded ==
    /\ kind = "pid" /\ opt.center # 0 => Abs(opt.i * c.inter) <= Abs(opt.center)
    /\ opt.clamping => Abs(opt.i * c.inter) <= Full + Abs(opt.d) * Jump + Abs(opt.i) * Range
=============================================================================
