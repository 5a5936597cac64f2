---------------------------- MODULE WorkCycle_proofs ----------------------------
(***************************************************************************)
(* Type correctness of a work cycle, the bound on the time its auger runs  *)
(* and the bound on the time its fan stands still, for every length of the *)
(* cycle and every share of it.                                            *)
(***************************************************************************)
EXTENDS WorkCycle, TLAPS

\* The settings: shares of the cycle, and an override that lasts.
Settings ==
    /\ Cycle \in Nat /\ Least \in Nat /\ Most \in Nat /\ LidPause \in Nat /\ Override \in Nat
    /\ Least <= Most /\ 1 <= Most /\ Most <= Cycle /\ 1 <= Override
    /\ On \in Nat /\ Off \in Nat
    /\ DcFan \in BOOLEAN /\ Changes \in Nat

\* What a part of the pass takes and gives.
Outs == [auger : BOOLEAN, fan : BOOLEAN, igniter : BOOLEAN, power : BOOLEAN, pwm : 0..2]
Locals == [age : 0..Cap, on : Least..Most, wait : 0..Cap, fanage : 0..Cap, lid : 0..LidPause + 1,
           achieved : BOOLEAN, fanpid : BOOLEAN, ramping : BOOLEAN,
           fan : 0..Override, auger : 0..Override]
Asks == [splus : BOOLEAN, pwm : BOOLEAN, duty : 1..2, toggle : BOOLEAN,
         change : Changed, output : BOOLEAN]
Loop == [out : Outs, s : Locals, ask : Asks]

\* The auger's part of it is as it was.
AugerKept(y, x) ==
    y.out.auger = x.out.auger /\ y.s.age = x.s.age /\ y.s.on = x.s.on /\ y.s.auger = x.s.auger

\* How the lengths of the fan's cycles compare.
LEMMA Bounds ==
    ASSUME Settings
    PROVE  /\ Longest \in Nat /\ 1 <= Longest /\ Off <= Longest /\ Cycle <= Longest
           /\ Cap = Longest + 1
           /\ Soon \in Nat /\ Longest + Cycle - 1 <= Soon /\ LidPause + 1 <= Soon /\ Override <= Soon
           /\ \A splus \in BOOLEAN :
                 /\ TotalFan(splus) \in Nat /\ TotalFan(splus) <= Longest
                 /\ MostFan(splus) \in Nat /\ MostFan(splus) <= TotalFan(splus)
<1>1. \A a, b \in Int : Larger(a, b) \in {a, b} /\ a <= Larger(a, b) /\ b <= Larger(a, b)
  BY DEF Larger
<1>2. Longest \in Nat /\ On + Off <= Longest /\ Cycle <= Longest
  BY <1>1 DEF Longest, Settings
<1>3. /\ Soon \in Nat /\ Longest + Cycle - 1 <= Soon /\ LidPause + 1 <= Soon /\ Override <= Soon
  <2> DEFINE w == Larger(LidPause + 1, Override)
  <2>1. w \in Nat /\ LidPause + 1 <= w /\ Override <= w
    BY <1>1 DEF Settings
  <2>2. Soon = Larger(Longest + Cycle - 1, w) /\ Longest + Cycle - 1 \in Nat
    BY <1>2 DEF Soon, Settings
  <2> HIDE DEF w
  <2> QED BY <1>1, <1>2, <2>1, <2>2 DEF Settings
<1> QED BY <1>2, <1>3 DEF Settings, Cap, TotalFan, MostFan

\* Fan on and off.
LEMMA FanType ==
    ASSUME NEW o \in Outs, NEW duty \in 1..2
    PROVE  /\ FanOn(o, duty) \in Outs /\ FanOff(o) \in Outs /\ SetDuty(o, duty) \in Outs
           /\ FanOn(o, duty).auger = o.auger /\ FanOff(o).auger = o.auger
           /\ SetDuty(o, duty).auger = o.auger
<1> DEFINE speed == IF DcFan THEN duty ELSE 0
<1>1. speed \in 0..2 /\ duty \in 0..2 /\ 0 \in 0..2
  OBVIOUS
<1>2. /\ FanOn(o, duty) = [o EXCEPT !.fan = TRUE, !.pwm = speed]
      /\ FanOff(o) = [o EXCEPT !.fan = FALSE, !.pwm = 0]
      /\ SetDuty(o, duty) = [o EXCEPT !.pwm = duty]
  BY DEF FanOn, FanOff, SetDuty
<1> HIDE DEF speed
<1> QED BY <1>1, <1>2 DEF Outs

\* The manual part touches the auger when the user asks for it, and then holds it.
LEMMA ManualLoop ==
    ASSUME Settings, NEW x \in Loop, NEW was \in Outs
    PROVE  /\ ManualPart(x, was) \in Loop
           /\ ManualPart(x, was).s.age = x.s.age /\ ManualPart(x, was).s.on = x.s.on
           /\ \/ AugerKept(ManualPart(x, was), x)
              \/ mode = "Manual" \/ ManualPart(x, was).s.auger > 0
<1> DEFINE over == IF mode = "Manual" THEN 0 ELSE Override
           asked == [x.ask EXCEPT !.change = "none", !.output = FALSE]
           on == x.ask.output
<1>1. /\ over \in 0..Override /\ (mode # "Manual" => over > 0)
      /\ x.out \in Outs /\ x.s \in Locals /\ x.ask \in Asks /\ on \in BOOLEAN
  BY DEF Settings, Loop, Asks
<1>2. asked \in Asks
  BY <1>1 DEF Asks, Changed
<1> HIDE DEF over, asked
<1>3. PICK o \in Outs, l \in Locals :
        /\ ManualPart(x, was) \in {x, [out |-> o, s |-> l, ask |-> asked]}
        /\ l.age = x.s.age /\ l.on = x.s.on
        /\ (o.auger = x.out.auger /\ l.auger = x.s.auger) \/ l.auger = over
  <2>1. CASE x.ask.change = "none"
    BY <1>1, <2>1 DEF ManualPart
  <2>2. CASE x.ask.change = "fan"
    <3> DEFINE o == IF on = was.fan THEN x.out ELSE IF on THEN FanOn(x.out, 2) ELSE FanOff(x.out)
               l == [x.s EXCEPT !.fan = over]
    <3>1. o \in Outs /\ o.auger = x.out.auger
      BY <1>1, FanType
    <3>2. l \in Locals /\ l.age = x.s.age /\ l.on = x.s.on /\ l.auger = x.s.auger
      BY <1>1 DEF Locals
    <3>3. ManualPart(x, was) = [out |-> o, s |-> l, ask |-> asked]
      BY <1>1, <2>2 DEF ManualPart, Loop, over, asked
    <3> HIDE DEF o, l
    <3> QED BY <3>1, <3>2, <3>3
  <2>3. CASE x.ask.change = "auger"
    <3> DEFINE o == [x.out EXCEPT !.auger = on]
               l == [x.s EXCEPT !.auger = over]
    <3>1. o \in Outs
      BY <1>1 DEF Outs
    <3>2. l \in Locals /\ l.age = x.s.age /\ l.on = x.s.on /\ l.auger = over
      BY <1>1 DEF Locals
    <3>3. ManualPart(x, was) = [out |-> o, s |-> l, ask |-> asked]
      BY <1>1, <2>3 DEF ManualPart, Loop, over, asked
    <3> HIDE DEF o, l
    <3> QED BY <3>1, <3>2, <3>3
  <2>4. CASE x.ask.change = "igniter"
    <3> DEFINE o == [x.out EXCEPT !.igniter = on]
    <3>1. o \in Outs /\ o.auger = x.out.auger
      BY <1>1 DEF Outs
    <3>2. ManualPart(x, was) = [out |-> o, s |-> x.s, ask |-> asked]
      BY <1>1, <2>4 DEF ManualPart, Loop, asked
    <3> HIDE DEF o
    <3> QED BY <1>1, <3>1, <3>2
  <2>5. CASE x.ask.change = "power"
    <3> DEFINE o == [x.out EXCEPT !.power = on]
    <3>1. o \in Outs /\ o.auger = x.out.auger
      BY <1>1 DEF Outs
    <3>2. ManualPart(x, was) = [out |-> o, s |-> x.s, ask |-> asked]
      BY <1>1, <2>5 DEF ManualPart, Loop, asked
    <3> HIDE DEF o
    <3> QED BY <1>1, <3>1, <3>2
  <2>6. CASE x.ask.change = "pwm"
    <3> DEFINE o == IF DcFan /\ was.fan /\ was.pwm # 1 THEN SetDuty(x.out, 1) ELSE x.out
    <3>1. o \in Outs /\ o.auger = x.out.auger
      BY <1>1, FanType
    <3>2. ManualPart(x, was) = [out |-> o, s |-> x.s, ask |-> asked]
      BY <1>1, <2>6 DEF ManualPart, Loop, asked
    <3> HIDE DEF o
    <3> QED BY <1>1, <3>1, <3>2
  <2> QED BY <1>1, <2>1, <2>2, <2>3, <2>4, <2>5, <2>6 DEF Asks, Changed
<1>4. [out |-> o, s |-> l, ask |-> asked] \in Loop
  BY <1>2 DEF Loop
<1> QED BY <1>1, <1>3, <1>4 DEF AugerKept

\* A new ratio stays between the least and the most.
LEMMA RatioLoop ==
    ASSUME Settings, NEW x \in Loop, NEW answer \in Int, NEW fanpid \in BOOLEAN
    PROVE  LET y == Ratio(x, answer, fanpid)
           IN  y \in Loop /\ y.out = x.out /\ y.s.age = x.s.age /\ y.s.auger = x.s.auger
<1> DEFINE raw == IF x.s.lid > 0 THEN Least ELSE answer
           on == IF raw < Least THEN Least ELSE IF raw > Most THEN Most ELSE raw
           pid == raw < Least /\ fanpid /\ ~x.ask.pwm
           l == [x.s EXCEPT !.wait = 0, !.on = on, !.fanpid = pid]
<1>1. x.out \in Outs /\ x.s \in Locals /\ x.ask \in Asks
  BY DEF Loop
<1>2. on \in Least..Most /\ pid \in BOOLEAN
  BY DEF Settings
<1>3. Ratio(x, answer, fanpid) = x \/ Ratio(x, answer, fanpid) = [x EXCEPT !.s = l]
  BY <1>1 DEF Ratio, Loop, Locals
<1> HIDE DEF on, pid
<1>4. 0 \in 0..Cap
  BY Bounds DEF Settings
<1>5. l \in Locals /\ l.age = x.s.age /\ l.auger = x.s.auger
  BY <1>1, <1>2, <1>4 DEF Locals
<1> HIDE DEF l
<1> QED BY <1>1, <1>3, <1>5 DEF Loop

\* The auger's part: it goes off when its share is over.
LEMMA AugerLoop ==
    ASSUME Settings, NEW x \in Loop, NEW was
    PROVE  LET y == AugerPart(x, was)
           IN  /\ y \in Loop /\ y.s.on = x.s.on /\ y.s.auger = x.s.auger
               /\ mode \in AugerModes /\ x.s.auger = 0 =>
                     \/ ~was.auger /\ y.out.auger /\ y.s.age = 0
                     \/ was.auger /\ ~y.out.auger
                     \/ AugerKept(y, x) /\ (was.auger => x.s.age < x.s.on)
<1> DEFINE l == [x.s EXCEPT !.age = 0]
           lit == [x.out EXCEPT !.auger = TRUE]
           dark == [x.out EXCEPT !.auger = FALSE]
<1>1. x.out \in Outs /\ x.s \in Locals /\ x.ask \in Asks /\ 0 \in 0..Cap
      /\ x.s.age \in Int /\ x.s.on \in Int /\ x.s.auger \in Nat
  BY Bounds DEF Loop, Settings, Locals
<1>2. l \in Locals /\ l.age = 0 /\ l.on = x.s.on /\ l.auger = x.s.auger
  BY <1>1 DEF Locals
<1>3. lit \in Outs /\ lit.auger /\ dark \in Outs /\ ~dark.auger
  BY <1>1 DEF Outs
<1> DEFINE on == [x EXCEPT !.out.auger = TRUE, !.s.age = 0]
           off == [x EXCEPT !.out.auger = FALSE, !.s.age = 0]
<1>4. on \in Loop /\ on.out = lit /\ on.s = l
  BY <1>1, <1>2, <1>3 DEF Loop
<1>5. off \in Loop /\ off.out = dark /\ off.s = l
  BY <1>1, <1>2, <1>3 DEF Loop
<1> HIDE DEF l, lit, dark
<1>6. CASE mode \notin AugerModes \/ x.s.auger > 0
  <2>1. AugerPart(x, was) = x
    BY <1>6 DEF AugerPart
  <2>2. ~(mode \in AugerModes /\ x.s.auger = 0)
    BY <1>1, <1>6
  <2> QED BY <2>1, <2>2
<1>7. CASE ~(mode \notin AugerModes \/ x.s.auger > 0)
  <2>1. CASE ~was.auger /\ x.s.age >= Cycle - x.s.on
    <3>1. AugerPart(x, was) = on
      BY <1>7, <2>1 DEF AugerPart
    <3> HIDE DEF on
    <3> QED BY <1>2, <1>3, <1>4, <2>1, <3>1
  <2>2. CASE was.auger /\ x.s.age >= x.s.on
    <3>1. AugerPart(x, was) = off
      BY <1>7, <2>2 DEF AugerPart
    <3> HIDE DEF off
    <3> QED BY <1>2, <1>3, <1>5, <2>2, <3>1
  <2>3. CASE ~(~was.auger /\ x.s.age >= Cycle - x.s.on) /\ ~(was.auger /\ x.s.age >= x.s.on)
    <3>1. AugerPart(x, was) = x
      BY <1>7, <2>3 DEF AugerPart
    <3>2. was.auger => x.s.age < x.s.on
      BY <1>1, <2>3
    <3> QED BY <3>1, <3>2 DEF AugerKept
  <2> QED BY <2>1, <2>2, <2>3
<1> QED BY <1>6, <1>7

\* An open lid stops the auger.
LEMMA OpenedLoop ==
    ASSUME Settings, NEW x \in Loop
    PROVE  /\ Opened(x) \in Loop /\ ~Opened(x).out.auger
           /\ Opened(x).s.on = x.s.on /\ Opened(x).s.auger = x.s.auger
<1> DEFINE o == [FanOff(x.out) EXCEPT !.auger = FALSE]
           l == [x.s EXCEPT !.age = 0, !.lid = LidPause + 1]
<1>1. x.out \in Outs /\ x.s \in Locals /\ x.ask \in Asks
  BY DEF Loop
<1>2. 0 \in 0..Cap /\ LidPause + 1 \in 0..LidPause + 1
  BY Bounds DEF Settings
<1>3. o \in Outs /\ ~o.auger
  <2>1. FanOff(x.out) \in Outs
    BY <1>1, FanType
  <2> QED BY <2>1 DEF Outs
<1>4. l \in Locals /\ l.on = x.s.on /\ l.auger = x.s.auger
  BY <1>1, <1>2 DEF Locals
<1>5. Opened(x) = [x EXCEPT !.out = o, !.s = l]
  BY <1>1 DEF Opened, Loop, Locals
<1> HIDE DEF o, l
<1> QED BY <1>1, <1>3, <1>4, <1>5 DEF Loop

\* The lid's part leaves the auger as it is, or stops it.
LEMMA LidLoop ==
    ASSUME Settings, NEW x \in Loop, NEW pit
    PROVE  LET y == LidPart(x, pit)
           IN  /\ y \in Loop /\ y.s.on = x.s.on /\ y.s.auger = x.s.auger
               /\ AugerKept(y, x) \/ ~y.out.auger
<1> DEFINE Fine(y) == /\ y \in Loop /\ y.s.on = x.s.on /\ y.s.auger = x.s.auger
                      /\ AugerKept(y, x) \/ ~y.out.auger
           got == x.s.achieved \/ (mode = "Hold" /\ pit = "over")
           reached == [x EXCEPT !.s.achieved = got]
           seen == IF reached.s.achieved /\ pit = "cold"
                   THEN [Opened(reached) EXCEPT !.s.achieved = FALSE] ELSE reached
           timed == IF seen.s.lid = 1
                    THEN [seen EXCEPT !.s.lid = 0, !.out = FanOn(seen.out, x.ask.duty)] ELSE seen
           told == [timed EXCEPT !.ask.toggle = FALSE]
<1>1. Fine(x) /\ x.ask \in Asks /\ x.ask.duty \in 1..2
  BY DEF AugerKept, Loop, Asks
<1>2. Fine(reached)
  <2>1. got \in BOOLEAN
    BY DEF Loop, Locals
  <2> HIDE DEF got
  <2>2. x.s \in Locals /\ [x.s EXCEPT !.achieved = got] \in Locals
    BY <2>1 DEF Loop, Locals
  <2>3. /\ reached \in Loop /\ reached.out = x.out
        /\ reached.s = [x.s EXCEPT !.achieved = got]
    BY <2>2 DEF Loop
  <2> QED BY <2>2, <2>3 DEF AugerKept, Locals
<1>3. ASSUME NEW y, Fine(y) PROVE Fine(Opened(y))
  BY <1>3, OpenedLoop
<1>4. ASSUME NEW y, Fine(y), NEW b \in BOOLEAN PROVE Fine([y EXCEPT !.s.achieved = b])
  <2>1. y.s \in Locals /\ [y.s EXCEPT !.achieved = b] \in Locals
    BY <1>4 DEF Loop, Locals
  <2>2. /\ [y EXCEPT !.s.achieved = b] \in Loop /\ [y EXCEPT !.s.achieved = b].out = y.out
        /\ [y EXCEPT !.s.achieved = b].s = [y.s EXCEPT !.achieved = b]
    BY <1>4, <2>1 DEF Loop
  <2> QED BY <1>4, <2>1, <2>2 DEF AugerKept, Locals
<1>5. ASSUME NEW y, Fine(y)
      PROVE  Fine([y EXCEPT !.s.lid = 0, !.out = FanOn(y.out, x.ask.duty)])
  <2>1. y.s \in Locals /\ y.out \in Outs /\ [y.s EXCEPT !.lid = 0] \in Locals
    <3>1. 0 \in 0..LidPause + 1
      BY DEF Settings
    <3> QED BY <1>5, <3>1 DEF Loop, Locals
  <2>2. FanOn(y.out, x.ask.duty) \in Outs /\ FanOn(y.out, x.ask.duty).auger = y.out.auger
    BY <1>1, <2>1, FanType
  <2> DEFINE z == [y EXCEPT !.s.lid = 0, !.out = FanOn(y.out, x.ask.duty)]
  <2>3. z \in Loop /\ z.out = FanOn(y.out, x.ask.duty) /\ z.s = [y.s EXCEPT !.lid = 0]
    BY <1>5, <2>1, <2>2 DEF Loop
  <2> HIDE DEF z
  <2>4. Fine(z)
    BY <1>5, <2>1, <2>2, <2>3 DEF AugerKept, Locals
  <2> QED BY <2>4 DEF z
<1>6. ASSUME NEW y, Fine(y) PROVE Fine([y EXCEPT !.ask.toggle = FALSE])
  <2>1. y.ask \in Asks /\ [y.ask EXCEPT !.toggle = FALSE] \in Asks
    BY <1>6 DEF Loop, Asks
  <2>2. /\ [y EXCEPT !.ask.toggle = FALSE] \in Loop
        /\ [y EXCEPT !.ask.toggle = FALSE].out = y.out
        /\ [y EXCEPT !.ask.toggle = FALSE].s = y.s
    BY <1>6, <2>1 DEF Loop
  <2> QED BY <1>6, <2>2 DEF AugerKept
<1>7. ASSUME NEW y, Fine(y) PROVE Fine([y EXCEPT !.s.lid = 0])
  <2>1. y.s \in Locals /\ [y.s EXCEPT !.lid = 0] \in Locals
    <3>1. 0 \in 0..LidPause + 1
      BY DEF Settings
    <3> QED BY <1>7, <3>1 DEF Loop, Locals
  <2>2. /\ [y EXCEPT !.s.lid = 0] \in Loop /\ [y EXCEPT !.s.lid = 0].out = y.out
        /\ [y EXCEPT !.s.lid = 0].s = [y.s EXCEPT !.lid = 0]
    BY <1>7, <2>1 DEF Loop
  <2> QED BY <1>7, <2>1, <2>2 DEF AugerKept, Locals
<1>8. LidPart(x, pit) =
        IF mode # "Hold" THEN x
        ELSE IF ~x.ask.toggle THEN timed
        ELSE IF timed.s.lid > 0 THEN [told EXCEPT !.s.lid = 0] ELSE Opened(told)
  BY DEF LidPart, Loop, Locals
<1> HIDE DEF reached, Fine
<1>9. Fine(seen)
  BY <1>2, <1>3, <1>4
<1> HIDE DEF seen
<1>10. Fine(timed)
  BY <1>5, <1>9
<1> HIDE DEF timed
<1>11. Fine(told)
  BY <1>6, <1>10
<1> HIDE DEF told
<1>12. Fine(LidPart(x, pit))
  BY <1>1, <1>3, <1>7, <1>8, <1>10, <1>11
<1> QED BY <1>12 DEF Fine

\* The fan's parts leave the auger alone.
LEMMA FanChange ==
    ASSUME Settings, NEW x \in Loop, NEW o \in Outs, o.auger = x.out.auger
    PROVE  /\ [x EXCEPT !.out = o] \in Loop /\ AugerKept([x EXCEPT !.out = o], x)
           /\ [x EXCEPT !.out = o, !.s.fanage = 0] \in Loop
           /\ AugerKept([x EXCEPT !.out = o, !.s.fanage = 0], x)
           /\ [x EXCEPT !.out = o, !.s.fanage = 0, !.s.ramping = TRUE] \in Loop
           /\ AugerKept([x EXCEPT !.out = o, !.s.fanage = 0, !.s.ramping = TRUE], x)
           /\ [x EXCEPT !.out = o, !.s.ramping = FALSE] \in Loop
           /\ AugerKept([x EXCEPT !.out = o, !.s.ramping = FALSE], x)
           /\ [x EXCEPT !.out = o, !.ask.duty = 2] \in Loop
           /\ AugerKept([x EXCEPT !.out = o, !.ask.duty = 2], x)
<1> DEFINE a == [x EXCEPT !.out = o]
           b == [x EXCEPT !.out = o, !.s.fanage = 0]
           c == [x EXCEPT !.out = o, !.s.fanage = 0, !.s.ramping = TRUE]
           d == [x EXCEPT !.out = o, !.s.ramping = FALSE]
           e == [x EXCEPT !.out = o, !.ask.duty = 2]
<1>1. x.s \in Locals /\ x.ask \in Asks /\ 0 \in 0..Cap /\ 2 \in 1..2
  BY Bounds DEF Loop, Settings
<1>2. a \in Loop /\ AugerKept(a, x)
  BY <1>1 DEF Loop, AugerKept
<1>3. b \in Loop /\ AugerKept(b, x)
  <2> DEFINE l == [x.s EXCEPT !.fanage = 0]
  <2>1. l \in Locals /\ l.age = x.s.age /\ l.on = x.s.on /\ l.auger = x.s.auger
    BY <1>1 DEF Locals
  <2>2. b \in Loop /\ b.out = o /\ b.s = l
    BY <1>1, <2>1 DEF Loop
  <2> HIDE DEF b, l
  <2> QED BY <2>1, <2>2 DEF AugerKept
<1>4. c \in Loop /\ AugerKept(c, x)
  <2> DEFINE l == [x.s EXCEPT !.fanage = 0, !.ramping = TRUE]
  <2>1. l \in Locals /\ l.age = x.s.age /\ l.on = x.s.on /\ l.auger = x.s.auger
    BY <1>1 DEF Locals
  <2>2. c \in Loop /\ c.out = o /\ c.s = l
    BY <1>1, <2>1 DEF Loop
  <2> HIDE DEF c, l
  <2> QED BY <2>1, <2>2 DEF AugerKept
<1>5. d \in Loop /\ AugerKept(d, x)
  <2> DEFINE l == [x.s EXCEPT !.ramping = FALSE]
  <2>1. l \in Locals /\ l.age = x.s.age /\ l.on = x.s.on /\ l.auger = x.s.auger
    BY <1>1 DEF Locals
  <2>2. d \in Loop /\ d.out = o /\ d.s = l
    BY <1>1, <2>1 DEF Loop
  <2> HIDE DEF d, l
  <2> QED BY <2>1, <2>2 DEF AugerKept
<1>6. e \in Loop /\ AugerKept(e, x)
  <2> DEFINE k == [x.ask EXCEPT !.duty = 2]
  <2>1. k \in Asks
    BY <1>1 DEF Asks
  <2>2. e \in Loop /\ e.out = o /\ e.s = x.s
    BY <1>1, <2>1 DEF Loop
  <2> HIDE DEF e, k
  <2> QED BY <2>2 DEF AugerKept
<1> QED BY <1>2, <1>3, <1>4, <1>5, <1>6

\* What the fan's parts promise: a loop whose auger is as it was.
LEMMA DutyLoop ==
    ASSUME Settings, NEW x \in Loop, NEW pit, NEW duty \in 1..2
    PROVE  DutyPart(x, pit, duty) \in Loop /\ AugerKept(DutyPart(x, pit, duty), x)
<1> DEFINE speed == IF pit = "over" THEN 1 ELSE duty
           y == [x EXCEPT !.ask.duty = speed]
           k == [x.ask EXCEPT !.duty = speed]
<1>1. x.out \in Outs /\ x.s \in Locals /\ x.ask \in Asks /\ speed \in 1..2
  BY DEF Loop
<1>2. DutyPart(x, pit, duty) = x \/ DutyPart(x, pit, duty) = y
  BY DEF DutyPart
<1> HIDE DEF speed
<1>3. k \in Asks
  BY <1>1 DEF Asks
<1>4. y \in Loop /\ y.out = x.out /\ y.s = x.s
  BY <1>1, <1>3 DEF Loop
<1> HIDE DEF y, k
<1> QED BY <1>2, <1>4 DEF AugerKept

LEMMA FanPidLoop ==
    ASSUME Settings, NEW x \in Loop, NEW was, NEW fanon
    PROVE  FanPidPart(x, was, fanon) \in Loop /\ AugerKept(FanPidPart(x, was, fanon), x)
<1> DEFINE on == FanOn(x.out, x.ask.duty)
           off == FanOff(x.out)
<1>1. x.out \in Outs /\ x.ask.duty \in 1..2
  BY DEF Loop, Asks
<1>2. on \in Outs /\ on.auger = x.out.auger /\ off \in Outs /\ off.auger = x.out.auger
  BY <1>1, FanType
<1>3. FanPidPart(x, was, fanon) \in {x, [x EXCEPT !.out = on, !.s.fanage = 0],
                                     [x EXCEPT !.out = off, !.s.fanage = 0]}
  BY DEF FanPidPart, Loop
<1> HIDE DEF on, off
<1>4. AugerKept(x, x)
  BY DEF AugerKept
<1>5. /\ [x EXCEPT !.out = on, !.s.fanage = 0] \in Loop
      /\ AugerKept([x EXCEPT !.out = on, !.s.fanage = 0], x)
  BY <1>2, FanChange
<1>6. /\ [x EXCEPT !.out = off, !.s.fanage = 0] \in Loop
      /\ AugerKept([x EXCEPT !.out = off, !.s.fanage = 0], x)
  BY <1>2, FanChange
<1> QED BY <1>3, <1>4, <1>5, <1>6

LEMMA SmokePlusLoop ==
    ASSUME Settings, NEW x \in Loop, NEW was, NEW outside
    PROVE  SmokePlus(x, was, outside) \in Loop /\ AugerKept(SmokePlus(x, was, outside), x)
<1> DEFINE on == FanOn(x.out, x.ask.duty)
           soft == FanOn(x.out, 1)
           off == FanOff(x.out)
<1>1. x.out \in Outs /\ x.ask.duty \in 1..2 /\ 1 \in 1..2
  BY DEF Loop, Asks
<1>2. /\ on \in Outs /\ on.auger = x.out.auger /\ off \in Outs /\ off.auger = x.out.auger
      /\ soft \in Outs /\ soft.auger = x.out.auger
  BY <1>1, FanType
<1>3. SmokePlus(x, was, outside) \in
        {x, [x EXCEPT !.out = on], [x EXCEPT !.out = on, !.s.fanage = 0],
         [x EXCEPT !.out = off, !.s.fanage = 0],
         [x EXCEPT !.out = soft, !.s.fanage = 0, !.s.ramping = TRUE]}
  BY DEF SmokePlus, Loop
<1> HIDE DEF on, off, soft
<1>4. AugerKept(x, x)
  BY DEF AugerKept
<1>5. /\ [x EXCEPT !.out = on] \in Loop /\ AugerKept([x EXCEPT !.out = on], x)
      /\ [x EXCEPT !.out = on, !.s.fanage = 0] \in Loop
      /\ AugerKept([x EXCEPT !.out = on, !.s.fanage = 0], x)
  BY <1>2, FanChange
<1>6. /\ [x EXCEPT !.out = off, !.s.fanage = 0] \in Loop
      /\ AugerKept([x EXCEPT !.out = off, !.s.fanage = 0], x)
  BY <1>2, FanChange
<1>7. /\ [x EXCEPT !.out = soft, !.s.fanage = 0, !.s.ramping = TRUE] \in Loop
      /\ AugerKept([x EXCEPT !.out = soft, !.s.fanage = 0, !.s.ramping = TRUE], x)
  BY <1>2, FanChange
<1> QED BY <1>3, <1>4, <1>5, <1>6, <1>7

LEMMA FanLoop ==
    ASSUME Settings, NEW x \in Loop, NEW was, NEW outside
    PROVE  FanPart(x, was, outside) \in Loop /\ AugerKept(FanPart(x, was, outside), x)
<1> DEFINE on == FanOn(x.out, x.ask.duty)
           asked == SetDuty(x.out, x.ask.duty)
           full == SetDuty(x.out, 2)
<1>1. x.out \in Outs /\ x.ask.duty \in 1..2 /\ 2 \in 1..2
  BY DEF Loop, Asks
<1>2. /\ on \in Outs /\ on.auger = x.out.auger /\ asked \in Outs /\ asked.auger = x.out.auger
      /\ full \in Outs /\ full.auger = x.out.auger
  BY <1>1, FanType
<1>3. FanPart(x, was, outside) \in
        {SmokePlus(x, was, outside), x, [x EXCEPT !.out = on], [x EXCEPT !.out = asked],
         [x EXCEPT !.out = asked, !.s.ramping = FALSE],
         [x EXCEPT !.out = full, !.ask.duty = 2]}
  BY DEF FanPart, Loop
<1> HIDE DEF on, asked, full
<1>4. AugerKept(x, x)
  BY DEF AugerKept
<1>5. SmokePlus(x, was, outside) \in Loop /\ AugerKept(SmokePlus(x, was, outside), x)
  BY SmokePlusLoop
<1>6. [x EXCEPT !.out = on] \in Loop /\ AugerKept([x EXCEPT !.out = on], x)
  BY <1>2, FanChange
<1>7. /\ [x EXCEPT !.out = asked] \in Loop /\ AugerKept([x EXCEPT !.out = asked], x)
      /\ [x EXCEPT !.out = asked, !.s.ramping = FALSE] \in Loop
      /\ AugerKept([x EXCEPT !.out = asked, !.s.ramping = FALSE], x)
  BY <1>2, FanChange
<1>8. /\ [x EXCEPT !.out = full, !.ask.duty = 2] \in Loop
      /\ AugerKept([x EXCEPT !.out = full, !.ask.duty = 2], x)
  BY <1>2, FanChange
<1> QED BY <1>3, <1>4, <1>5, <1>6, <1>7, <1>8

\* The types, with the bounds of the share, and what is known of a run of the auger
\* nobody has touched: it is not longer than the clock, nor than the largest share.
Types ==
    /\ mode \in Modes \cup {"ended"} /\ out \in Outs /\ s \in Locals /\ ask \in Asks
    /\ run \in 0..Most + Override + 2 /\ forced \in BOOLEAN /\ still \in 0..Soon + 1

Untouched == mode \in {"Startup", "Smoke", "Hold"} /\ ~forced

RunInv ==
    Untouched =>
        /\ s.auger = 0
        /\ out.auger => run <= s.age + 1 /\ run <= Most
        /\ ~out.auger => run = 0

Inv == Types /\ RunInv

\* The clocks of the loop.
LEMMA TickedType ==
    ASSUME Settings, s \in Locals
    PROVE  /\ Ticked \in Locals /\ Ticked.age = Older(s.age) /\ Ticked.on = s.on
           /\ Ticked.auger = Less(s.auger)
<1>1. ASSUME NEW c \in 0..Cap PROVE Older(c) \in 0..Cap
  BY <1>1, Bounds DEF Older, Settings
<1>2. ASSUME NEW c \in 0..Override PROVE Less(c) \in 0..Override
  BY <1>2 DEF Less, Settings
<1> DEFINE lid == IF s.lid > 1 THEN s.lid - 1 ELSE s.lid
<1>3. lid \in 0..LidPause + 1
  BY DEF Locals, Settings
<1>4. /\ Older(s.age) \in 0..Cap /\ Older(s.wait) \in 0..Cap /\ Older(s.fanage) \in 0..Cap
      /\ Less(s.fan) \in 0..Override /\ Less(s.auger) \in 0..Override
  BY <1>1, <1>2 DEF Locals
<1>5. Ticked = [s EXCEPT !.age = Older(s.age), !.wait = Older(s.wait),
                         !.fanage = Older(s.fanage), !.lid = lid,
                         !.fan = Less(s.fan), !.auger = Less(s.auger)]
  BY DEF Ticked, Locals
<1> HIDE DEF lid
<1> QED BY <1>3, <1>4, <1>5 DEF Locals

\* What is open in a pass.
LEMMA AnswerTypes ==
    ASSUME Settings, NEW a \in Answers
    PROVE  a.ratio \in Int /\ a.fanpid \in BOOLEAN
<1>1. Least \in Int /\ Cycle \in Int
  BY DEF Settings
<1>2. CASE mode = "Hold" /\ s.wait + 1 >= Cycle
  <2>1. a \in [ratio : {0, Least, Cycle}, fanpid : BOOLEAN]
    BY <1>2 DEF Answers
  <2> QED BY <1>1, <2>1
<1>3. CASE ~(mode = "Hold" /\ s.wait + 1 >= Cycle)
  <2>1. a \in [ratio : {Least}, fanpid : {FALSE}]
    BY <1>3 DEF Answers
  <2> QED BY <1>1, <2>1
<1> QED BY <1>2, <1>3

\* One pass: what its parts, one after the other, leave of the auger.
LEMMA PassLoop ==
    ASSUME Settings, Inv, Pass
    PROVE  \E x \in Loop :
        /\ out' = x.out /\ s' = x.s /\ ask' = x.ask
        /\ run' = IF ~x.out.auger THEN 0 ELSE IF run < Most + Override + 2 THEN run + 1 ELSE run
        /\ forced' = (x.s.auger > 0 \/ (forced /\ x.out.auger))
        /\ still' \in 0..Soon + 1
        /\ mode \in {"Startup", "Smoke", "Hold"} /\ x.s.auger = 0 /\ x.out.auger =>
              \/ ~out.auger
              \/ out.auger /\ x.s.age = Older(s.age) /\ x.s.age < x.s.on
<1> DEFINE x00 == [out |-> out, s |-> Ticked, ask |-> ask]
           x0 == ManualPart(x00, out)
<1>1. PICK a \in Answers, fan \in Fans, pit \in Pits :
       \E y0 \in {x0} :
       \E y1 \in {Ratio(y0, a.ratio, a.fanpid)} :
       \E y2 \in {AugerPart(y1, out)} :
       \E y3 \in {LidPart(y2, pit)} :
       \E y4 \in {IF mode \in {"Smoke", "Hold"}
                  THEN FanPidPart(DutyPart(y3, pit, fan.duty), out, fan.on) ELSE y3} :
       \E x \in {IF mode \in {"Smoke", "Hold"} THEN FanPart(y4, out, fan.outside) ELSE y4} :
            /\ out' = x.out /\ s' = x.s /\ ask' = x.ask
            /\ run' = IF ~x.out.auger THEN 0
                      ELSE IF run < Most + Override + 2 THEN run + 1 ELSE run
            /\ forced' = (x.s.auger > 0 \/ (forced /\ x.out.auger))
            /\ still' = IF mode \in {"Smoke", "Hold"} /\ ~x.out.fan /\ ~Forgotten(x) /\ ~HeldOff(x)
                        THEN IF still > Soon THEN still ELSE still + 1 ELSE 0
  BY Zenon DEF Pass
<1> DEFINE x1 == Ratio(x0, a.ratio, a.fanpid)
           x2 == AugerPart(x1, out)
           x3 == LidPart(x2, pit)
           x4 == IF mode \in {"Smoke", "Hold"}
                 THEN FanPidPart(DutyPart(x3, pit, fan.duty), out, fan.on) ELSE x3
           x5 == IF mode \in {"Smoke", "Hold"} THEN FanPart(x4, out, fan.outside) ELSE x4
<1>2. /\ out' = x5.out /\ s' = x5.s /\ ask' = x5.ask
      /\ run' = IF ~x5.out.auger THEN 0
                ELSE IF run < Most + Override + 2 THEN run + 1 ELSE run
      /\ forced' = (x5.s.auger > 0 \/ (forced /\ x5.out.auger))
      /\ still' \in {0, still, still + 1} /\ (still' = still + 1 => still <= Soon)
  <2>1. Soon \in Nat /\ still \in Nat
    BY Bounds DEF Settings, Inv, Types
  <2> DEFINE Rest(x) ==
            /\ out' = x.out /\ s' = x.s /\ ask' = x.ask
            /\ run' = IF ~x.out.auger THEN 0
                      ELSE IF run < Most + Override + 2 THEN run + 1 ELSE run
            /\ forced' = (x.s.auger > 0 \/ (forced /\ x.out.auger))
            /\ still' = IF mode \in {"Smoke", "Hold"} /\ ~x.out.fan /\ ~Forgotten(x) /\ ~HeldOff(x)
                        THEN IF still > Soon THEN still ELSE still + 1 ELSE 0
  <2>2. Rest(x5)
    BY ZenonT(40), <1>1
  <2> HIDE DEF x5
  <2> QED BY <2>1, <2>2
<1>3. a.ratio \in Int /\ a.fanpid \in BOOLEAN
  BY AnswerTypes
<1>4. fan.duty \in 1..2
  BY DEF Fans
<1>5. out \in Outs /\ x00 \in Loop /\ x00.out = out /\ x00.s = Ticked
  BY TickedType DEF Inv, Types, Loop
<1> HIDE DEF x00
<1>6. /\ x0 \in Loop /\ x0.s.age = Ticked.age /\ x0.s.on = s.on
      /\ \/ x0.out.auger = out.auger
         \/ mode = "Manual" \/ x0.s.auger > 0
  <2>1. Ticked.on = s.on
    BY TickedType DEF Inv, Types
  <2> QED BY <1>5, <2>1, ManualLoop DEF AugerKept
<1> HIDE DEF x0
<1>7. /\ x1 \in Loop /\ x1.out = x0.out /\ x1.s.age = x0.s.age /\ x1.s.auger = x0.s.auger
  BY <1>3, <1>6, RatioLoop
<1> HIDE DEF x1
<1>8. /\ x2 \in Loop /\ x2.s.on = x1.s.on /\ x2.s.auger = x1.s.auger
      /\ mode \in AugerModes /\ x1.s.auger = 0 =>
            \/ ~out.auger /\ x2.out.auger /\ x2.s.age = 0
            \/ out.auger /\ ~x2.out.auger
            \/ AugerKept(x2, x1) /\ (out.auger => x1.s.age < x1.s.on)
  <2>1. x2 = AugerPart(x1, out)
    BY DEF x1, x2
  <2> HIDE DEF x2
  <2> QED BY <1>7, <2>1, AugerLoop
<1> HIDE DEF x2
<1>9. /\ x3 \in Loop /\ x3.s.on = x2.s.on /\ x3.s.auger = x2.s.auger
      /\ AugerKept(x3, x2) \/ ~x3.out.auger
  <2>1. x3 = LidPart(x2, pit)
    BY DEF x2, x3
  <2> HIDE DEF x3
  <2> QED BY <1>8, <2>1, LidLoop
<1> HIDE DEF x3
<1>10. x4 \in Loop /\ AugerKept(x4, x3)
  <2>1. DutyPart(x3, pit, fan.duty) \in Loop /\ AugerKept(DutyPart(x3, pit, fan.duty), x3)
    BY <1>4, <1>9, DutyLoop
  <2>2. x4 = IF mode \in {"Smoke", "Hold"}
             THEN FanPidPart(DutyPart(x3, pit, fan.duty), out, fan.on) ELSE x3
    BY DEF x3, x4
  <2> HIDE DEF x4
  <2> QED BY <1>9, <2>1, <2>2, FanPidLoop DEF AugerKept
<1> HIDE DEF x4
<1>11. x5 \in Loop /\ AugerKept(x5, x4)
  <2>1. x5 = IF mode \in {"Smoke", "Hold"} THEN FanPart(x4, out, fan.outside) ELSE x4
    BY DEF x4, x5
  <2> HIDE DEF x5
  <2> QED BY <1>10, <2>1, FanLoop DEF AugerKept
<1>12. still' \in 0..Soon + 1
  <2>1. Soon \in Nat
    BY Bounds DEF Settings
  <2> HIDE DEF x5
  <2> QED BY <1>2, <2>1 DEF Inv, Types
<1> HIDE DEF x5
<1>14. ASSUME mode \in {"Startup", "Smoke", "Hold"}, x5.s.auger = 0, x5.out.auger
       PROVE  ~out.auger \/ (out.auger /\ x5.s.age = Older(s.age) /\ x5.s.age < x5.s.on)
  <2>1. /\ x5.s.auger = x3.s.auger /\ x5.s.age = x3.s.age /\ x5.s.on = x3.s.on
        /\ x5.out.auger = x3.out.auger
    BY <1>10, <1>11 DEF AugerKept
  <2>2. x3.s.auger = 0 /\ AugerKept(x3, x2)
    BY <1>9, <1>14, <2>1
  <2>3. x1.s.auger = 0 /\ x0.s.auger = 0 /\ mode \in AugerModes /\ mode # "Manual"
    BY <1>7, <1>8, <1>9, <1>14, <2>1 DEF AugerModes
  <2>4. x0.out.auger = out.auger
    BY <1>6, <2>3
  <2>5. x2.out.auger
    BY <1>14, <2>1, <2>2 DEF AugerKept
  <2>6. \/ ~out.auger
        \/ AugerKept(x2, x1) /\ x1.s.age < x1.s.on
    BY <1>8, <2>3, <2>5
  <2>7. x1.s.age = Older(s.age)
    BY <1>6, <1>7, TickedType DEF Inv, Types
  <2> QED BY <2>1, <2>2, <2>6, <2>7 DEF AugerKept
<1> QED BY <1>2, <1>11, <1>12, <1>14

LEMMA InvInit == ASSUME Settings, Init PROVE Inv
<1>1. out \in Outs
  <2> DEFINE o == [auger |-> mode \in AugerModes, igniter |-> mode = "Startup", fan |-> FALSE,
                   power |-> mode # "Manual", pwm |-> 0]
  <2>1. o \in Outs
    BY DEF Outs
  <2>2. Startable(mode) = o \/ Startable(mode) = FanOn(o, 2)
    BY DEF Startable
  <2> HIDE DEF o
  <2>3. FanOn(o, 2) \in Outs
    BY <2>1, FanType
  <2> QED BY <2>1, <2>2, <2>3 DEF Init
<1>2. s \in Locals
  <2>1. 0 \in 0..Cap /\ 0 \in 0..LidPause + 1 /\ 0 \in 0..Override
        /\ Least \in Least..Most /\ Most \in Least..Most
    BY Bounds DEF Settings
  <2> QED BY <2>1 DEF Init, Locals
<1>3. ask \in Asks
  <2>1. 2 \in 1..2 /\ "none" \in Changed
    BY DEF Changed
  <2> QED BY <2>1 DEF Init, Asks
<1>4. run \in 0..Most + Override + 2 /\ forced \in BOOLEAN /\ still \in 0..Soon + 1
  <2>1. 0 \in 0..Most + Override + 2 /\ 0 \in 0..Soon + 1
    BY Bounds DEF Settings
  <2> QED BY <2>1 DEF Init
<1>5. RunInv
  BY DEF Init, RunInv, Untouched, Settings
<1> QED BY <1>1, <1>2, <1>3, <1>4, <1>5 DEF Init, Inv, Types

LEMMA InvNext == ASSUME Settings, Inv, [Next]_vars PROVE Inv'
<1>1. CASE Pass
  <2>1. PICK x \in Loop :
          /\ out' = x.out /\ s' = x.s /\ ask' = x.ask
          /\ run' = IF ~x.out.auger THEN 0
                    ELSE IF run < Most + Override + 2 THEN run + 1 ELSE run
          /\ forced' = (x.s.auger > 0 \/ (forced /\ x.out.auger))
          /\ still' \in 0..Soon + 1
          /\ mode \in {"Startup", "Smoke", "Hold"} /\ x.s.auger = 0 /\ x.out.auger =>
                \/ ~out.auger
                \/ out.auger /\ x.s.age = Older(s.age) /\ x.s.age < x.s.on
    BY <1>1, PassLoop
  <2>2. /\ mode' = mode /\ x.out \in Outs /\ x.s \in Locals /\ x.ask \in Asks
        /\ x.s.auger \in Nat /\ x.s.on \in Least..Most /\ x.s.age \in Nat /\ s.age \in Nat
        /\ x.out.auger \in BOOLEAN
    BY <1>1, Bounds DEF Pass, Loop, Locals, Inv, Types, Outs, Settings
  <2>3. Types'
    <3>1. run' \in 0..Most + Override + 2
      BY <2>1 DEF Inv, Types, Settings
    <3> QED BY <2>1, <2>2, <3>1 DEF Inv, Types
  <2>4. RunInv'
    <3> SUFFICES ASSUME Untouched'
                 PROVE  /\ s'.auger = 0
                        /\ out'.auger => run' <= s'.age + 1 /\ run' <= Most
                        /\ ~out'.auger => run' = 0
      BY DEF RunInv
    <3>1. mode \in {"Startup", "Smoke", "Hold"} /\ ~(x.s.auger > 0) /\ ~(forced /\ x.out.auger)
      BY <2>1, <2>2 DEF Untouched
    <3>2. x.s.auger = 0
      BY <2>2, <3>1
    <3>3. CASE ~x.out.auger
      BY <2>1, <3>2, <3>3
    <3>4. CASE x.out.auger
      <4>1. ~forced /\ run \in Nat /\ Most \in Nat /\ Override \in Nat /\ 1 <= Most
        BY <3>1, <3>4 DEF Settings, Inv, Types
      <4>2. /\ out.auger => run <= s.age + 1 /\ run <= Most
            /\ ~out.auger => run = 0
        BY <3>1, <4>1 DEF Inv, RunInv, Untouched
      <4>3. run' = run + 1
        BY <2>1, <3>4, <4>1, <4>2
      <4>4. CASE ~out.auger
        BY <2>1, <2>2, <3>2, <4>1, <4>2, <4>3, <4>4
      <4>5. CASE out.auger
        <5>1. x.s.age = Older(s.age) /\ x.s.age < x.s.on
          BY <2>1, <3>1, <3>2, <3>4, <4>5
        <5>2. x.s.age = s.age + 1
          BY <2>2, <5>1, Bounds DEF Older, Settings
        <5> QED BY <2>1, <2>2, <3>2, <3>4, <4>1, <4>2, <4>3, <4>5, <5>1, <5>2
      <4> QED BY <4>4, <4>5
    <3> QED BY <2>2, <3>3, <3>4
  <2> QED BY <2>3, <2>4 DEF Inv
<1>2. ASSUME NEW after \in Asks, UserAsks(after) PROVE Inv'
  BY <1>2 DEF UserAsks, Inv, Types, RunInv, Untouched
<1>3. CASE TogglesSmokePlus
  <2>1. [ask EXCEPT !.splus = ~ask.splus] \in Asks
    BY DEF Inv, Types, Asks
  <2> QED BY <1>2, <1>3, <2>1 DEF TogglesSmokePlus
<1>4. CASE TogglesPwm
  <2>1. [ask EXCEPT !.pwm = ~ask.pwm] \in Asks
    BY DEF Inv, Types, Asks
  <2> QED BY <1>2, <1>4, <2>1 DEF TogglesPwm
<1>5. CASE TogglesLid
  <2>1. [ask EXCEPT !.toggle = TRUE] \in Asks
    BY DEF Inv, Types, Asks
  <2> QED BY <1>2, <1>5, <2>1 DEF TogglesLid
<1>6. CASE Overrides
  <2>1. ASSUME NEW change \in Changed, NEW on \in BOOLEAN
        PROVE  [ask EXCEPT !.change = change, !.output = on] \in Asks
    BY DEF Inv, Types, Asks
  <2> QED BY <1>2, <1>6, <2>1 DEF Overrides
<1>7. CASE End
  <2> DEFINE o == [out EXCEPT !.auger = FALSE, !.igniter = FALSE]
  <2>1. o \in Outs
    BY DEF Inv, Types, Outs
  <2>2. out' = o \/ out' = [FanOff(o) EXCEPT !.power = FALSE]
    BY <1>7 DEF End
  <2> HIDE DEF o
  <2>3. FanOff(o) \in Outs
    BY <2>1, FanType
  <2>4. out' \in Outs
    BY <2>1, <2>2, <2>3 DEF Outs
  <2>5. /\ mode' = "ended" /\ run' = 0 /\ forced' = FALSE /\ still' = 0
        /\ s' = s /\ ask' = ask
    BY <1>7 DEF End
  <2>6. 0 \in 0..Most + Override + 2 /\ 0 \in 0..Soon + 1
    BY Bounds DEF Settings
  <2> QED BY <2>4, <2>5, <2>6 DEF Inv, Types, RunInv, Untouched
<1>8. CASE UNCHANGED vars
  BY <1>8 DEF vars, Inv, Types, RunInv, Untouched
<1> QED BY <1>1, <1>3, <1>4, <1>5, <1>6, <1>7, <1>8 DEF Next

\* The share of a cycle never leaves its bounds, and every variable of the loop
\* (_work_cycle) has its type.
LEMMA InvTypes == ASSUME Settings, Inv PROVE TypeOK
<1>1. Locals \subseteq [age : 0..Cap, on : 0..Cycle, wait : 0..Cap, fanage : 0..Cap,
                        lid : 0..LidPause + 1, achieved : BOOLEAN, fanpid : BOOLEAN,
                        ramping : BOOLEAN, fan : 0..Override, auger : 0..Override]
  <2>1. Least..Most \subseteq 0..Cycle
    BY DEF Settings
  <2> QED BY <2>1 DEF Locals
<1> QED BY <1>1 DEF TypeOK, Inv, Types, Outs, Asks

\* Likewise as a theorem of the cycle's own specification.
THEOREM CycleTypes == ASSUME Settings PROVE Spec => []TypeOK
<1>1. Init => Inv
  BY InvInit
<1>2. Inv /\ [Next]_vars => Inv'
  BY InvNext
<1> QED BY <1>1, <1>2, InvTypes, PTL DEF Spec

\* AugerIsBounded for every length of the cycle and every share of it: whatever the
\* controller, the lid and the settings do, the auger goes off after u_max of a cycle
\* (auger_on_time and auger_off_time in _work_cycle).
THEOREM AugerGoesOff == ASSUME Settings PROVE Spec => []AugerIsBounded
<1>1. ASSUME Inv PROVE AugerIsBounded
  BY <1>1 DEF Settings, Inv, Types, RunInv, Untouched, AugerIsBounded, Outs
<1>2. Init => Inv
  BY InvInit
<1>3. Inv /\ [Next]_vars => Inv'
  BY InvNext
<1> QED BY <1>1, <1>2, <1>3, PTL DEF Spec
-----------------------------------------------------------------------------
(* The fan.                                                                *)

\* What the fan depends on is as it was.
ClocksKept(y, x) ==
    /\ y.s.wait = x.s.wait /\ y.s.lid = x.s.lid /\ y.s.fan = x.s.fan
    /\ y.s.achieved = x.s.achieved /\ y.s.fanpid = x.s.fanpid
    /\ y.ask.splus = x.ask.splus /\ y.ask.pwm = x.ask.pwm
FanKept(y, x) == ClocksKept(y, x) /\ y.out.fan = x.out.fan /\ y.s.fanage = x.s.fanage

\* Parts that have nothing to do with the fan.
LEMMA ManualFan ==
    ASSUME NEW x \in Loop, NEW was
    PROVE  LET y == ManualPart(x, was)
           IN  /\ x.ask.change # "fan" => FanKept(y, x)
               /\ y.s.lid = x.s.lid /\ y.s.fanpid = x.s.fanpid
<1>1. x.out \in Outs /\ x.s \in Locals /\ x.ask \in Asks
  BY DEF Loop
<1>2. x.ask.change \in Changed
  BY <1>1 DEF Asks
<1>8. CASE x.ask.change = "fan"
  BY <1>1, <1>8 DEF ManualPart, Loop, Locals
<1>3. CASE x.ask.change = "none"
  BY <1>3 DEF ManualPart, FanKept, ClocksKept
<1>4. CASE x.ask.change = "auger"
  BY <1>1, <1>4 DEF ManualPart, FanKept, ClocksKept, Loop, Locals, Outs, Asks
<1>5. CASE x.ask.change = "igniter"
  BY <1>1, <1>5 DEF ManualPart, FanKept, ClocksKept, Loop, Locals, Outs, Asks
<1>6. CASE x.ask.change = "power"
  BY <1>1, <1>6 DEF ManualPart, FanKept, ClocksKept, Loop, Locals, Outs, Asks
<1>7. CASE x.ask.change = "pwm"
  BY <1>1, <1>7 DEF ManualPart, FanKept, ClocksKept, Loop, Locals, Outs, Asks, SetDuty
<1> QED BY <1>2, <1>3, <1>4, <1>5, <1>6, <1>7, <1>8 DEF Changed

LEMMA AugerFan ==
    ASSUME NEW x \in Loop, NEW was
    PROVE  FanKept(AugerPart(x, was), x)
BY DEF AugerPart, FanKept, ClocksKept, Loop, Locals, Outs, Asks

LEMMA DutyFan ==
    ASSUME NEW x \in Loop, NEW pit, NEW duty
    PROVE  FanKept(DutyPart(x, pit, duty), x)
BY DEF DutyPart, FanKept, ClocksKept, Loop, Locals, Outs, Asks

\* A new ratio gives the fan to the controller only while the lid is closed and the
\* fan's speed is not under control of the temperature.
LEMMA RatioFan ==
    ASSUME Settings, NEW x \in Loop, NEW answer \in Int, NEW fanpid \in BOOLEAN
    PROVE  LET y == Ratio(x, answer, fanpid)
           IN  \/ y = x /\ (mode = "Hold" => x.s.wait < Cycle)
               \/ /\ mode = "Hold" /\ y.s.wait = 0 /\ (y.s.fanpid => x.s.lid = 0 /\ ~x.ask.pwm)
                  /\ y.out = x.out /\ y.ask = x.ask /\ y.s.fanage = x.s.fanage
                  /\ y.s.lid = x.s.lid /\ y.s.achieved = x.s.achieved /\ y.s.fan = x.s.fan
<1> DEFINE raw == IF x.s.lid > 0 THEN Least ELSE answer
           on == IF raw < Least THEN Least ELSE IF raw > Most THEN Most ELSE raw
           pid == raw < Least /\ fanpid /\ ~x.ask.pwm
           l == [x.s EXCEPT !.wait = 0, !.on = on, !.fanpid = pid]
<1>1. x.out \in Outs /\ x.s \in Locals /\ x.ask \in Asks /\ x.s.lid \in Nat /\ x.s.wait \in Int
  BY Bounds DEF Loop, Locals, Settings
<1>2. CASE mode # "Hold" \/ x.s.wait < Cycle
  BY <1>1, <1>2 DEF Ratio
<1>3. CASE mode = "Hold" /\ ~(x.s.wait < Cycle)
  <2>1. Ratio(x, answer, fanpid) = [x EXCEPT !.s = l]
    BY <1>1, <1>3 DEF Ratio, Loop, Locals
  <2>2. pid => x.s.lid = 0 /\ ~x.ask.pwm
    BY <1>1 DEF Settings
  <2> HIDE DEF on, pid
  <2>3. /\ l.wait = 0 /\ l.fanpid = pid /\ l.fanage = x.s.fanage /\ l.lid = x.s.lid
        /\ l.achieved = x.s.achieved /\ l.fan = x.s.fan
    BY <1>1 DEF Locals
  <2> HIDE DEF l
  <2>4. [x EXCEPT !.s = l].s = l /\ [x EXCEPT !.s = l].out = x.out /\ [x EXCEPT !.s = l].ask = x.ask
    BY DEF Loop
  <2> QED BY <1>3, <2>1, <2>2, <2>3, <2>4
<1> QED BY <1>2, <1>3

\* After the lid's part the lid has just been opened, or its time is over, or it was
\* open before and more of its time is to come.
LEMMA LidFan ==
    ASSUME Settings, NEW x \in Loop, NEW pit
    PROVE  LET y == LidPart(x, pit)
           IN  /\ mode # "Hold" => y = x
               /\ mode = "Hold" =>
                     y.s.lid \in {0, LidPause + 1} \/ (y.s.lid = x.s.lid /\ x.s.lid # 1)
               /\ y.s.wait = x.s.wait /\ y.s.fanage = x.s.fanage /\ y.s.fanpid = x.s.fanpid
               /\ y.s.fan = x.s.fan /\ y.ask.splus = x.ask.splus /\ y.ask.pwm = x.ask.pwm
<1> DEFINE Fine(y) ==
               /\ y.s.wait = x.s.wait /\ y.s.fanage = x.s.fanage /\ y.s.fanpid = x.s.fanpid
               /\ y.s.fan = x.s.fan /\ y.ask.splus = x.ask.splus /\ y.ask.pwm = x.ask.pwm
               /\ DOMAIN y = DOMAIN x /\ DOMAIN y.s = DOMAIN x.s /\ DOMAIN y.ask = DOMAIN x.ask
           got == x.s.achieved \/ (mode = "Hold" /\ pit = "over")
           reached == [x EXCEPT !.s.achieved = got]
           seen == IF reached.s.achieved /\ pit = "cold"
                   THEN [Opened(reached) EXCEPT !.s.achieved = FALSE] ELSE reached
           timed == IF seen.s.lid = 1
                    THEN [seen EXCEPT !.s.lid = 0, !.out = FanOn(seen.out, x.ask.duty)] ELSE seen
           told == [timed EXCEPT !.ask.toggle = FALSE]
<1>1. x.out \in Outs /\ x.s \in Locals /\ x.ask \in Asks
  BY DEF Loop
<1>2. Fine(x)
  OBVIOUS
<1>3. Fine(reached) /\ reached.s.lid = x.s.lid
  BY <1>1 DEF Loop, Locals, Asks
<1>4. ASSUME NEW y, Fine(y) PROVE Fine(Opened(y)) /\ Opened(y).s.lid = LidPause + 1
  BY <1>1, <1>4 DEF Opened, Loop, Locals, Asks
<1> HIDE DEF reached
<1>5. /\ Fine(seen) /\ seen.s.lid \in {x.s.lid, LidPause + 1}
  <2> DEFINE z == Opened(reached)
  <2>1. Fine(z) /\ z.s.lid = LidPause + 1
    BY <1>3, <1>4
  <2>2. seen = reached \/ seen = [z EXCEPT !.s.achieved = FALSE]
    OBVIOUS
  <2> HIDE DEF z, seen
  <2>3. CASE seen = [z EXCEPT !.s.achieved = FALSE]
    BY <1>1, <2>1, <2>3 DEF Loop, Locals, Asks
  <2> QED BY <1>3, <2>2, <2>3
<1> HIDE DEF seen
<1>6. Fine(timed) /\ (timed.s.lid = 0 \/ (timed = seen /\ seen.s.lid # 1))
  BY <1>1, <1>5 DEF Loop, Locals, Asks
<1> HIDE DEF timed
<1>7. Fine(told) /\ told.s = timed.s
  BY <1>1, <1>6 DEF Loop, Locals, Asks
<1> HIDE DEF told
<1>8. \/ mode # "Hold" /\ LidPart(x, pit) = x
      \/ /\ mode = "Hold"
         /\ \/ LidPart(x, pit) = timed
            \/ LidPart(x, pit) = [told EXCEPT !.s.lid = 0]
            \/ LidPart(x, pit) = Opened(told)
  BY DEF LidPart, reached, seen, timed, told
<1>9. Fine([told EXCEPT !.s.lid = 0]) /\ [told EXCEPT !.s.lid = 0].s.lid = 0
  BY <1>1, <1>7 DEF Loop, Locals, Asks
<1>10. Fine(Opened(told)) /\ Opened(told).s.lid = LidPause + 1
  BY <1>4, <1>7
<1> QED BY <1>2, <1>5, <1>6, <1>8, <1>9, <1>10

\* The controller's part of the fan starts one that has been off for the longest a
\* cycle of the fan takes, and leaves the clock of one that stays off alone.
LEMMA PidFan ==
    ASSUME Settings, NEW x \in Loop, NEW was, NEW fanon \in Nat
    PROVE  LET y == FanPidPart(x, was, fanon)
           IN  /\ ClocksKept(y, x)
               /\ ~x.s.fanpid => y = x
               /\ ~was.fan => y.s.fanage = x.s.fanage \/ (y.out.fan /\ x.s.fanpid)
               /\ /\ mode = "Hold" /\ x.s.achieved /\ x.s.fanpid /\ x.s.lid = 0 /\ ~x.ask.pwm
                  /\ ~was.fan /\ x.s.fanage >= Longest
                  => y.out.fan
<1>1. x.out \in Outs /\ x.s \in Locals /\ x.ask \in Asks /\ x.s.fanage \in Int
  BY Bounds DEF Loop, Locals, Settings
<1> DEFINE on == [x EXCEPT !.out = FanOn(x.out, x.ask.duty), !.s.fanage = 0]
           off == [x EXCEPT !.out = FanOff(x.out), !.s.fanage = 0]
           runs == mode = "Hold" /\ x.s.achieved /\ x.s.fanpid /\ x.s.lid = 0 /\ ~x.ask.pwm
<1>2. \/ ~runs /\ FanPidPart(x, was, fanon) = x
      \/ /\ runs /\ FanPidPart(x, was, fanon) \in {x, on, off}
         /\ ~was.fan => FanPidPart(x, was, fanon) \in {x, on}
         /\ ~was.fan /\ x.s.fanage >= Longest => FanPidPart(x, was, fanon) = on
  BY <1>1, Bounds DEF FanPidPart, Loop, Asks
<1>3. on.out.fan /\ ClocksKept(on, x) /\ ClocksKept(off, x) /\ ClocksKept(x, x)
  BY <1>1 DEF ClocksKept, Loop, Locals, Outs, Asks, FanOn
<1> HIDE DEF on, off
<1> QED BY <1>1, <1>2, <1>3

\* Smoke plus starts such a fan, unless an override holds it.
LEMMA SmokeFan ==
    ASSUME Settings, NEW x \in Loop, NEW was, NEW outside
    PROVE  LET y == SmokePlus(x, was, outside)
           IN  /\ ClocksKept(y, x)
               /\ ~was.fan => y.s.fanage = x.s.fanage \/ y.out.fan
               /\ x.s.fan = 0 /\ ~was.fan /\ x.s.fanage >= Longest => y.out.fan
<1>1. x.out \in Outs /\ x.s \in Locals /\ x.ask \in Asks /\ x.s.fanage \in Int
  BY Bounds DEF Loop, Locals, Settings
<1> DEFINE steady == [x EXCEPT !.out = FanOn(x.out, x.ask.duty)]
           on == [x EXCEPT !.out = FanOn(x.out, x.ask.duty), !.s.fanage = 0]
           ramp == [x EXCEPT !.out = FanOn(x.out, 1), !.s.fanage = 0, !.s.ramping = TRUE]
           off == [x EXCEPT !.out = FanOff(x.out), !.s.fanage = 0]
<1>2. /\ SmokePlus(x, was, outside) \in {x, steady, on, ramp, off}
      /\ ~was.fan => SmokePlus(x, was, outside) \in {x, steady, on, ramp}
      /\ x.s.fan = 0 /\ ~was.fan /\ x.s.fanage >= Longest =>
            SmokePlus(x, was, outside) \in {steady, on, ramp}
  BY <1>1, Bounds DEF SmokePlus, Loop, Settings
<1>3. steady.out.fan /\ on.out.fan /\ ramp.out.fan
  BY <1>1 DEF Loop, Outs, FanOn
<1>4. /\ ClocksKept(steady, x) /\ ClocksKept(on, x) /\ ClocksKept(ramp, x)
      /\ ClocksKept(off, x) /\ ClocksKept(x, x)
  BY <1>1 DEF ClocksKept, Loop, Locals, Asks
<1> HIDE DEF steady, on, ramp, off
<1> QED BY <1>2, <1>3, <1>4

\* The chain of alternatives.
LEMMA FanFan ==
    ASSUME Settings, NEW x \in Loop, NEW was, NEW outside
    PROVE  LET y == FanPart(x, was, outside)
           IN  /\ ClocksKept(y, x)
               /\ x.s.fanpid => y.out.fan = x.out.fan
               /\ ~was.fan => y.s.fanage = x.s.fanage \/ y.out.fan
               /\ /\ ~x.s.fanpid /\ x.s.lid = 0 /\ x.s.fan = 0 /\ ~was.fan /\ x.s.fanage >= Longest
                  /\ mode = "Smoke" \/ x.s.achieved \/ ~x.ask.splus
                  => y.out.fan
<1>1. x.out \in Outs /\ x.s \in Locals /\ x.ask \in Asks
  BY DEF Loop
<1> DEFINE smokes == (mode = "Smoke" \/ x.s.achieved) /\ x.ask.splus /\ ~x.s.fanpid /\ x.s.lid = 0
           on == [x EXCEPT !.out = FanOn(x.out, x.ask.duty)]
           a == [x EXCEPT !.out = SetDuty(x.out, x.ask.duty), !.s.ramping = FALSE]
           b == [x EXCEPT !.out = SetDuty(x.out, x.ask.duty)]
           c == [x EXCEPT !.out = SetDuty(x.out, 2), !.ask.duty = 2]
           y == FanPart(x, was, outside)
<1>2. CASE smokes
  <2>1. y = SmokePlus(x, was, outside)
    BY <1>2 DEF FanPart
  <2>2. ClocksKept(SmokePlus(x, was, outside), x)
    BY SmokeFan
  <2>3. LET z == SmokePlus(x, was, outside)
        IN  /\ ~was.fan => z.s.fanage = x.s.fanage \/ z.out.fan
            /\ x.s.fan = 0 /\ ~was.fan /\ x.s.fanage >= Longest => z.out.fan
    BY SmokeFan
  <2> HIDE DEF y
  <2>4. /\ ~x.s.fanpid /\ ClocksKept(y, x)
        /\ ~was.fan => y.s.fanage = x.s.fanage \/ y.out.fan
        /\ x.s.fan = 0 /\ ~was.fan /\ x.s.fanage >= Longest => y.out.fan
    BY <1>2, <2>1, <2>2, <2>3
  <2> QED BY <2>4 DEF y
<1>3. CASE ~smokes
  <2>1. /\ y \in {x, a, b, c} \/ (y = on /\ ~x.s.fanpid)
        /\ ~was.fan /\ ~x.ask.splus /\ ~x.s.fanpid /\ x.s.lid = 0 /\ x.s.fan = 0 => y = on
    <3>1. y = IF ~was.fan /\ ~x.ask.splus /\ ~x.s.fanpid /\ x.s.lid = 0 /\ x.s.fan = 0 THEN on
              ELSE IF ~DcFan \/ ~(x.s.fan = 0) THEN x
              ELSE IF was.pwm # x.ask.duty /\ ~x.ask.splus /\ x.s.ramping THEN a
              ELSE IF x.ask.pwm /\ was.pwm # x.ask.duty THEN b
              ELSE IF ~x.ask.pwm /\ was.pwm # 2 THEN c ELSE x
      BY <1>1, <1>3 DEF FanPart, Loop
    <3> HIDE DEF on, a, b, c, y
    <3> QED BY <3>1
  <2>2. ClocksKept(x, x) /\ ClocksKept(on, x) /\ on.out.fan /\ on.s.fanage = x.s.fanage
    BY <1>1 DEF ClocksKept, Loop, Outs, FanOn
  <2>3. /\ ClocksKept(a, x) /\ ClocksKept(b, x) /\ ClocksKept(c, x)
        /\ a.out.fan = x.out.fan /\ b.out.fan = x.out.fan /\ c.out.fan = x.out.fan
        /\ a.s.fanage = x.s.fanage /\ b.s.fanage = x.s.fanage /\ c.s.fanage = x.s.fanage
    BY <1>1 DEF ClocksKept, Loop, Locals, Asks, Outs, SetDuty
  <2> HIDE DEF on, a, b, c, y
  <2>4. /\ ClocksKept(y, x) /\ (x.s.fanpid => y.out.fan = x.out.fan)
        /\ y.s.fanage = x.s.fanage
        /\ ~was.fan /\ ~x.ask.splus /\ ~x.s.fanpid /\ x.s.lid = 0 /\ x.s.fan = 0 => y.out.fan
    BY <2>1, <2>2, <2>3
  <2> QED BY <1>3, <2>4 DEF y
<1> QED BY <1>2, <1>3

\* A fan that has stood still since it was last held off is waiting for what is left
\* of an override, of a lid event, of the fan's own cycle, or of the auger's cycle in
\* which the controller lets go of it.  Its clock has run for as long as it stood still.
FanInv ==
    /\ s.fanpid \/ s.lid > 0 => mode \in {"Hold", "ended"}
    /\ still <= Soon
    /\ still > 0 =>
          /\ mode \in {"Smoke", "Hold"} /\ ~out.fan
          /\ s.fan > 0 => s.fan + still <= Override
          /\ s.lid > 0 => s.lid + still <= LidPause + 1
          /\ s.fanage >= still - 1 \/ s.fanage >= Cap
          /\ s.fanpid => still <= Longest + s.wait /\ s.wait < Cycle

\* The clocks of the fan.
LEMMA TickedFan ==
    ASSUME Settings, s \in Locals
    PROVE  /\ Ticked.wait = Older(s.wait) /\ Ticked.fanage = Older(s.fanage)
           /\ Ticked.lid = (IF s.lid > 1 THEN s.lid - 1 ELSE s.lid)
           /\ Ticked.fan = Less(s.fan)
           /\ Ticked.achieved = s.achieved /\ Ticked.fanpid = s.fanpid
BY DEF Ticked, Locals

\* One pass: what its parts, one after the other, leave of the fan.
LEMMA PassFan ==
    ASSUME Settings, Types, FanInv, Pass
    PROVE  FanInv'
<1> DEFINE x00 == [out |-> out, s |-> Ticked, ask |-> ask]
           x0 == ManualPart(x00, out)
<1>1. PICK a \in Answers, fan \in Fans, pit \in Pits :
       \E y0 \in {x0} :
       \E y1 \in {Ratio(y0, a.ratio, a.fanpid)} :
       \E y2 \in {AugerPart(y1, out)} :
       \E y3 \in {LidPart(y2, pit)} :
       \E y4 \in {IF mode \in {"Smoke", "Hold"}
                  THEN FanPidPart(DutyPart(y3, pit, fan.duty), out, fan.on) ELSE y3} :
       \E x \in {IF mode \in {"Smoke", "Hold"} THEN FanPart(y4, out, fan.outside) ELSE y4} :
            /\ out' = x.out /\ s' = x.s /\ ask' = x.ask
            /\ run' = IF ~x.out.auger THEN 0
                      ELSE IF run < Most + Override + 2 THEN run + 1 ELSE run
            /\ forced' = (x.s.auger > 0 \/ (forced /\ x.out.auger))
            /\ still' = IF mode \in {"Smoke", "Hold"} /\ ~x.out.fan /\ ~Forgotten(x) /\ ~HeldOff(x)
                        THEN IF still > Soon THEN still ELSE still + 1 ELSE 0
  BY Zenon DEF Pass
<1> DEFINE x1 == Ratio(x0, a.ratio, a.fanpid)
           x2 == AugerPart(x1, out)
           x3 == LidPart(x2, pit)
           duty == DutyPart(x3, pit, fan.duty)
           x4 == IF mode \in {"Smoke", "Hold"} THEN FanPidPart(duty, out, fan.on) ELSE x3
           x5 == IF mode \in {"Smoke", "Hold"} THEN FanPart(x4, out, fan.outside) ELSE x4
           counts == mode \in {"Smoke", "Hold"} /\ ~x5.out.fan /\ ~Forgotten(x5) /\ ~HeldOff(x5)
<1>2. /\ mode' = mode /\ out' = x5.out /\ s' = x5.s /\ ask' = x5.ask
      /\ counts => still' = still + 1
      /\ ~counts => still' = 0
  <2>1. ~(still > Soon)
    BY Bounds DEF FanInv, Settings, Types
  <2>2. /\ out' = x5.out /\ s' = x5.s /\ ask' = x5.ask
        /\ still' = IF counts THEN IF still > Soon THEN still ELSE still + 1 ELSE 0
    <3> DEFINE Rest(x) ==
            /\ out' = x.out /\ s' = x.s /\ ask' = x.ask
            /\ run' = IF ~x.out.auger THEN 0
                      ELSE IF run < Most + Override + 2 THEN run + 1 ELSE run
            /\ forced' = (x.s.auger > 0 \/ (forced /\ x.out.auger))
            /\ still' = IF mode \in {"Smoke", "Hold"} /\ ~x.out.fan /\ ~Forgotten(x) /\ ~HeldOff(x)
                        THEN IF still > Soon THEN still ELSE still + 1 ELSE 0
    <3>1. Rest(x5)
      BY ZenonT(40), <1>1
    <3> QED BY <3>1
  <2>3. mode' = mode
    BY DEF Pass
  <2> HIDE DEF x5, counts
  <2> QED BY <2>1, <2>2, <2>3
<1>3. a.ratio \in Int /\ a.fanpid \in BOOLEAN /\ fan.duty \in 1..2 /\ fan.on \in Nat
  BY AnswerTypes, Bounds DEF Fans, Settings, Types, Asks
<1>4. /\ out \in Outs /\ x00 \in Loop /\ x00.out = out /\ x00.s = Ticked /\ x00.ask = ask
      /\ s.lid \in 0..LidPause + 1 /\ s.fan \in 0..Override /\ s.wait \in 0..Cap
      /\ s.fanpid \in BOOLEAN /\ out.fan \in BOOLEAN
  BY TickedType DEF Types, Loop, Locals, Outs
<1> HIDE DEF x00
<1>5. /\ x0 \in Loop /\ (ask.change # "fan" => FanKept(x0, x00))
      /\ x0.s.lid = x00.s.lid /\ x0.s.fanpid = x00.s.fanpid
  <2>1. x0 \in Loop
    BY <1>4, ManualLoop
  <2> QED BY <1>4, <2>1, ManualFan
<1> HIDE DEF x0
<1>6. x1 \in Loop
  BY <1>3, <1>5, RatioLoop
<1>7. \/ x1 = x0 /\ (mode = "Hold" => x0.s.wait < Cycle)
      \/ /\ mode = "Hold" /\ x1.s.wait = 0 /\ (x1.s.fanpid => x0.s.lid = 0 /\ ~x0.ask.pwm)
         /\ x1.out = x0.out /\ x1.ask = x0.ask /\ x1.s.fanage = x0.s.fanage
         /\ x1.s.lid = x0.s.lid /\ x1.s.achieved = x0.s.achieved /\ x1.s.fan = x0.s.fan
  BY <1>3, <1>5, RatioFan
<1> HIDE DEF x1
<1>8. x2 \in Loop /\ FanKept(x2, x1)
  BY <1>6, AugerLoop, AugerFan
<1> HIDE DEF x2
<1>9. x3 \in Loop
  BY <1>8, LidLoop
<1>10. /\ mode # "Hold" => x3 = x2
       /\ mode = "Hold" => x3.s.lid \in {0, LidPause + 1} \/ (x3.s.lid = x2.s.lid /\ x2.s.lid # 1)
       /\ x3.s.wait = x2.s.wait /\ x3.s.fanage = x2.s.fanage /\ x3.s.fanpid = x2.s.fanpid
       /\ x3.s.fan = x2.s.fan /\ x3.ask.splus = x2.ask.splus /\ x3.ask.pwm = x2.ask.pwm
  BY <1>8, LidFan
<1> HIDE DEF x3
<1>11. duty \in Loop /\ FanKept(duty, x3)
  BY <1>3, <1>9, DutyLoop, DutyFan
<1> HIDE DEF duty
<1>12. /\ x5.s.lid = x3.s.lid /\ x5.s.fanpid = x3.s.fanpid
       /\ mode \in {"Smoke", "Hold"} =>
             /\ ClocksKept(x5, x3) /\ x4 \in Loop /\ x5 \in Loop /\ ClocksKept(x4, x3)
             /\ ~x3.s.fanpid => x4.s.fanage = x3.s.fanage
             /\ ~out.fan /\ ~x5.out.fan => x5.s.fanage = x3.s.fanage
             /\ /\ mode = "Hold" /\ x3.s.achieved /\ x3.s.fanpid /\ x3.s.lid = 0 /\ ~x3.ask.pwm
                /\ ~out.fan /\ x3.s.fanage >= Longest
                => x5.out.fan
             /\ /\ ~x3.s.fanpid /\ x3.s.lid = 0 /\ x3.s.fan = 0 /\ ~out.fan /\ x3.s.fanage >= Longest
                /\ mode = "Smoke" \/ x3.s.achieved \/ ~x3.ask.splus
                => x5.out.fan
  <2>1. CASE mode \notin {"Smoke", "Hold"}
    BY <2>1
  <2>2. CASE mode \in {"Smoke", "Hold"}
    <3>1. x4 = FanPidPart(duty, out, fan.on)
      BY <2>2 DEF x4
    <3>2. x4 \in Loop
      BY <1>11, <3>1, FanPidLoop
    <3>3. /\ ClocksKept(x4, duty) /\ (~duty.s.fanpid => x4 = duty)
          /\ ~out.fan => x4.s.fanage = duty.s.fanage \/ (x4.out.fan /\ duty.s.fanpid)
          /\ /\ mode = "Hold" /\ duty.s.achieved /\ duty.s.fanpid /\ duty.s.lid = 0 /\ ~duty.ask.pwm
             /\ ~out.fan /\ duty.s.fanage >= Longest
             => x4.out.fan
      BY <1>3, <1>11, <3>1, PidFan
    <3> HIDE DEF x4
    <3>4. x5 = FanPart(x4, out, fan.outside)
      BY <2>2 DEF x5
    <3>5. /\ ClocksKept(x5, x4) /\ (x4.s.fanpid => x5.out.fan = x4.out.fan)
          /\ ~out.fan => x5.s.fanage = x4.s.fanage \/ x5.out.fan
          /\ /\ ~x4.s.fanpid /\ x4.s.lid = 0 /\ x4.s.fan = 0 /\ ~out.fan /\ x4.s.fanage >= Longest
             /\ mode = "Smoke" \/ x4.s.achieved \/ ~x4.ask.splus
             => x5.out.fan
      BY <3>2, <3>4, FanFan
    <3>6. x5 \in Loop
      BY <1>4, <3>2, <3>4, FanLoop
    <3> HIDE DEF x5
    <3> QED BY <1>11, <3>2, <3>3, <3>5, <3>6 DEF FanKept, ClocksKept
  <2> QED BY <2>1, <2>2
<1>13. /\ Ticked.wait = Older(s.wait) /\ Ticked.fanage = Older(s.fanage) /\ Ticked.fan = Less(s.fan)
       /\ Ticked.lid = (IF s.lid > 1 THEN s.lid - 1 ELSE s.lid)
       /\ Ticked.fanpid = s.fanpid
  BY TickedFan DEF Types
<1>14. mode # "ended"
  BY DEF Pass
<1> HIDE DEF x5, x4
<1>15. s'.fanpid \/ s'.lid > 0 => mode' \in {"Hold", "ended"}
  <2> SUFFICES ASSUME mode # "Hold" PROVE ~s'.fanpid /\ ~(s'.lid > 0)
    BY <1>2
  <2>1. x3.s.lid = x0.s.lid /\ x3.s.fanpid = x0.s.fanpid
    BY <1>7, <1>8, <1>10 DEF FanKept, ClocksKept
  <2>2. ~s.fanpid /\ ~(s.lid > 0)
    BY <1>14 DEF FanInv
  <2> QED BY <1>2, <1>4, <1>5, <1>12, <1>13, <2>1, <2>2
<1>16. CASE ~counts
  BY <1>2, <1>15, <1>16, Bounds DEF FanInv, Settings
<1>17. CASE counts
  <2>1. /\ mode \in {"Smoke", "Hold"} /\ ~x5.out.fan /\ ask.change # "fan"
        /\ x5.s.lid # LidPause + 1 /\ still' = still + 1
        /\ mode = "Hold" /\ ~x5.s.achieved => ~x5.ask.splus /\ ~x5.s.fanpid
    <3>1. ask' = x5.ask /\ still' = still + 1
      BY <1>2, <1>17
    <3> QED BY <1>17, <3>1 DEF Forgotten, HeldOff
  <2>2. ClocksKept(x5, x3)
    BY <1>12, <2>1
  <2>3. FanKept(x0, x00)
    BY <1>5, <2>1
  <2>4. /\ x3.s.fan = Less(s.fan) /\ x3.s.fanage = Older(s.fanage) /\ x2.s.lid = Ticked.lid
        /\ x3.s.fanpid \in BOOLEAN
    BY <1>4, <1>7, <1>8, <1>9, <1>10, <1>13, <2>3 DEF FanKept, ClocksKept, Loop, Locals
  <2>5. still \in Nat /\ Override \in Nat /\ LidPause \in Nat /\ Cycle \in Nat /\ 1 <= Cycle
    BY Bounds DEF FanInv, Settings, Types
  <2>6. still > 0 => ~out.fan
    BY DEF FanInv
  <2>7. s'.fan > 0 => s'.fan + still' <= Override
    <3>1. s'.fan = Less(s.fan)
      BY <1>2, <2>2, <2>4 DEF ClocksKept
    <3>2. s.fan > 0 /\ still > 0 => s.fan + still <= Override
      BY DEF FanInv
    <3> QED BY <1>4, <2>1, <2>5, <3>1, <3>2 DEF Less
  <2>8. s'.lid > 0 => s'.lid + still' <= LidPause + 1
    <3> SUFFICES ASSUME s'.lid > 0 PROVE s'.lid + still' <= LidPause + 1
      OBVIOUS
    <3>1. mode = "Hold"
      BY <1>2, <1>14, <1>15
    <3>2. s'.lid = Ticked.lid /\ Ticked.lid # 1
      BY <1>2, <1>10, <1>12, <2>1, <2>4, <3>1
    <3>3. s'.lid = s.lid - 1 /\ s.lid > 0
      BY <1>4, <1>13, <2>5, <3>2
    <3>4. still > 0 => s.lid + still <= LidPause + 1
      BY <3>3 DEF FanInv
    <3> QED BY <1>4, <2>1, <2>5, <3>3, <3>4
  <2>12. /\ s.fanage \in Nat /\ Longest \in Nat /\ Cycle <= Longest /\ Cap = Longest + 1
         /\ still > 0 => s.fanage >= still - 1 \/ s.fanage >= Cap
    BY Bounds DEF FanInv, Types, Locals
  <2>13. still > 0 /\ x3.s.fanage < Longest => still' <= Longest
    BY <2>1, <2>4, <2>5, <2>12 DEF Older
  <2>14. s'.fanage >= still' - 1 \/ s'.fanage >= Cap
    <3>1. CASE still = 0
      <4>1. s'.fanage \in Nat
        BY Bounds, <1>2, <1>12, <2>1 DEF Loop, Locals
      <4> QED BY <2>1, <3>1, <4>1
    <3>2. CASE still > 0
      <4>1. s'.fanage = Older(s.fanage)
        BY <1>2, <1>12, <2>1, <2>4, <2>6, <3>2
      <4> QED BY <2>1, <2>5, <2>12, <3>2, <4>1 DEF Older
    <3> QED BY <2>5, <3>1, <3>2
  <2>9. s'.fanpid => still' <= Longest + s'.wait /\ s'.wait < Cycle
    <3> SUFFICES ASSUME s'.fanpid PROVE still' <= Longest + s'.wait /\ s'.wait < Cycle
      OBVIOUS
    <3>1. mode = "Hold" /\ x3.s.fanpid /\ x1.s.fanpid
      BY <1>2, <1>8, <1>10, <1>12, <1>14, <1>15 DEF FanKept, ClocksKept
    <3>2. s'.wait = x1.s.wait
      BY <1>2, <1>8, <1>10, <2>2 DEF FanKept, ClocksKept
    <3>3. CASE x1 = x0 /\ x0.s.wait < Cycle
      <4>1. x1.s.wait = Older(s.wait) /\ s.fanpid
        BY <1>4, <1>13, <2>3, <3>1, <3>3 DEF FanKept, ClocksKept
      <4>2. x1.s.wait = s.wait + 1 /\ x1.s.wait < Cycle
        BY <1>4, <2>5, <2>12, <3>3, <4>1 DEF Older
      <4>3. still > 0 => still <= Longest + s.wait
        BY <4>1 DEF FanInv
      <4> QED BY <1>4, <2>1, <2>5, <2>12, <3>2, <4>2, <4>3
    <3>4. CASE /\ x1.s.wait = 0 /\ x0.s.lid = 0 /\ ~x0.ask.pwm
               /\ x1.ask = x0.ask /\ x1.s.lid = x0.s.lid
      <4>1. x3.s.lid = 0 /\ ~x3.ask.pwm
        BY <1>8, <1>10, <1>12, <2>1, <3>1, <3>4 DEF FanKept, ClocksKept
      <4>2. x3.s.achieved
        BY <1>9, <1>12, <2>1, <2>2, <3>1 DEF ClocksKept, Loop, Locals
      <4>3. out.fan \/ x3.s.fanage < Longest
        <5>1. x3.s.fanage \in Nat
          BY Bounds, <1>9 DEF Loop, Locals
        <5> QED BY <1>12, <2>1, <2>12, <3>1, <4>1, <4>2, <5>1
      <4>4. still' <= Longest
        BY <2>1, <2>5, <2>6, <2>12, <2>13, <4>3
      <4> QED BY <2>1, <2>5, <2>12, <3>2, <3>4, <4>4
    <3> QED BY <1>7, <3>1, <3>3, <3>4
  <2>10. still' <= Soon
    <3>1. CASE still = 0
      BY <2>1, <2>5, <2>12, <3>1, Bounds
    <3>2. CASE still > 0
      <4>1. CASE s'.fan > 0
        BY <1>2, <1>9, <2>1, <2>2, <2>4, <2>5, <2>7, <4>1, Bounds DEF ClocksKept, Loop, Locals
      <4>2. CASE s'.lid > 0
        BY <2>1, <2>5, <2>8, <4>2, <1>2, <1>9, <1>12, Bounds DEF Loop, Locals
      <4>3. CASE s'.fanpid
        BY <2>1, <2>5, <2>9, <4>3, <1>2, <1>9, <2>2, Bounds DEF ClocksKept, Loop, Locals
      <4>4. CASE ~(s'.fan > 0) /\ ~(s'.lid > 0) /\ ~s'.fanpid
        <5>1. x3.s.fan = 0 /\ x3.s.lid = 0 /\ ~x3.s.fanpid
          BY <1>2, <1>9, <1>12, <2>2, <2>5, <4>4 DEF ClocksKept, Loop, Locals
        <5>2. mode = "Smoke" \/ x3.s.achieved \/ ~x3.ask.splus
          BY <2>1, <2>2 DEF ClocksKept
        <5>3. x3.s.fanage < Longest
          <6>1. x3.s.fanage \in Nat
            BY Bounds, <1>9 DEF Loop, Locals
          <6> QED BY <1>12, <2>1, <2>6, <2>12, <3>2, <5>1, <5>2, <6>1
        <5>4. Soon \in Nat /\ Longest \in Nat /\ Longest + Cycle - 1 <= Soon
          BY Bounds
        <5> QED BY <2>1, <2>5, <2>12, <2>13, <3>2, <5>3, <5>4
      <4> QED BY <4>1, <4>2, <4>3, <4>4
    <3> QED BY <2>5, <3>1, <3>2
  <2>11. ~out'.fan /\ mode' \in {"Smoke", "Hold"}
    BY <1>2, <2>1
  <2> QED BY <1>15, <2>7, <2>8, <2>9, <2>10, <2>11, <2>14 DEF FanInv
<1> QED BY <1>16, <1>17
LEMMA FanInit == ASSUME Settings, Init PROVE FanInv
BY Bounds DEF Init, FanInv, Settings

LEMMA FanNext == ASSUME Settings, Inv, FanInv, [Next]_vars PROVE FanInv'
<1>1. CASE Pass
  BY <1>1, PassFan DEF Inv
<1>2. ASSUME NEW after, UserAsks(after) PROVE FanInv'
  BY <1>2 DEF UserAsks, FanInv
<1>3. CASE TogglesSmokePlus \/ TogglesPwm \/ TogglesLid \/ Overrides
  BY <1>2, <1>3 DEF TogglesSmokePlus, TogglesPwm, TogglesLid, Overrides
<1>4. CASE End
  <2>1. mode' = "ended" /\ still' = 0 /\ Soon \in Nat
    BY <1>4, Bounds DEF End, Settings
  <2> QED BY <2>1, Bounds DEF FanInv
<1>5. CASE UNCHANGED vars
  BY <1>5, Bounds DEF vars, FanInv
<1> QED BY <1>1, <1>3, <1>4, <1>5 DEF Next

\* FanComesBack for every length of the cycle, of smoke plus's on and off times, of a lid
\* event and of an override, and however often the user interferes: since an override or
\* a lid event last held the fan off it has not stood still for longer than they last, or
\* than a cycle of the fan and one of the auger (the fan's branches in _work_cycle).
THEOREM FanStarts == ASSUME Settings PROVE Spec => []FanComesBack
<1>1. FanInv => FanComesBack
  BY DEF FanInv, FanComesBack
<1>2. Init => Inv /\ FanInv
  BY InvInit, FanInit
<1>3. Inv /\ FanInv /\ [Next]_vars => Inv' /\ FanInv'
  BY InvNext, FanNext
<1> QED BY <1>1, <1>2, <1>3, PTL DEF Spec

=============================================================================
