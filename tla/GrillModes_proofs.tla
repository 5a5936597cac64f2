--------------------------- MODULE GrillModes_proofs ---------------------------
(***************************************************************************)
(* Theorems about how GrillControl moves from one mode to the next, for     *)
(* every value of the constants: who may end a Stop, what a recipe waits    *)
(* for, and where a reignition returns to.                                  *)
(*                                                                         *)
(* The three proofs look at the same steps, so the first part says once     *)
(* what each step does with the dictionaries.                               *)
(***************************************************************************)
EXTENDS GrillControl_proofs

AtRest(c) == c.mode \in {"Stop", "Error"}

\* A dictionary without a request for Reignite by notify_data.
Plain(c) ==
    /\ \A i \in Item : ~c.notify[i].reignite
    /\ c.next_mode # "Reignite" /\ c.reignitelaststate \in {"Smoke", "Hold"}

\* What a pass over notify_data may make of `c`: it never wakes a grill at rest,
\* withdraws no request, and asks for another mode only with a request.
Noticed(d, c) ==
    /\ d.mode = c.mode \/ (d.updated /\ ~AtRest(c) /\ ~AtRest(d))
    /\ c.updated => d.updated
    /\ d.critical_error = c.critical_error
    /\ Plain(c) => /\ Plain(d) /\ d.reignitelaststate = c.reignitelaststate
                   /\ d.mode = "Reignite" => c.mode = "Reignite"

LEMMA NoticedTwice ==
    ASSUME NEW c, NEW d, NEW e, Noticed(d, c), Noticed(e, d)
    PROVE  Noticed(e, c)
BY DEF Noticed, AtRest

LEMMA ItemActionNoticed ==
    ASSUME NEW c \in Control, NEW i \in Item
    PROVE  Noticed(ItemAction(c, i), c)
<1> DEFINE down == [c EXCEPT !.mode = "Shutdown", !.updated = TRUE, !.notify[i].shutdown = FALSE]
           warm == [c EXCEPT !.mode = "Hold", !.updated = TRUE, !.primary_setpoint = KeepWarmTemp,
                             !.notify[i].keep_warm = FALSE]
           again == [c EXCEPT !.mode = "Reignite", !.updated = TRUE, !.reignitelaststate = c.mode]
<1>1. \/ ItemAction(c, i) = down /\ ~AtRest(c)
      \/ ItemAction(c, i) = warm /\ ~AtRest(c)
      \/ ItemAction(c, i) = again /\ ~AtRest(c) /\ c.notify[i].reignite
      \/ ItemAction(c, i) = c
  BY DEF ItemAction, AtRest
<1>2. c.notify \in [Item -> Notification]
  BY DEF Control
<1>3. /\ \A j \in Item : [c.notify EXCEPT ![i].shutdown = FALSE][j].reignite = c.notify[j].reignite
      /\ \A j \in Item : [c.notify EXCEPT ![i].keep_warm = FALSE][j].reignite = c.notify[j].reignite
  BY <1>2 DEF Notification
<1>4. ASSUME ~AtRest(c) PROVE Noticed(down, c)
  BY <1>3, <1>4 DEF Noticed, AtRest, Plain, Control
<1>5. ASSUME ~AtRest(c) PROVE Noticed(warm, c)
  BY <1>3, <1>5 DEF Noticed, AtRest, Plain, Control
<1>6. ASSUME ~AtRest(c), c.notify[i].reignite PROVE Noticed(again, c)
  BY <1>6 DEF Noticed, AtRest, Plain, Control
<1>7. Noticed(c, c)
  BY DEF Noticed
<1> HIDE DEF down, warm, again
<1> QED BY <1>1, <1>4, <1>5, <1>6, <1>7

\* A pass over a probe target, the timer or a limit.
LEMMA CheckNoticed ==
    ASSUME NEW c \in Control, NEW i \in Item, NEW hit, NEW awaited
    PROVE  /\ Noticed(CheckOnce(c, i, hit, awaited), c)
           /\ Noticed(CheckLimit(c, i, hit), c)
           /\ ~c.notify[i].req
                => CheckOnce(c, i, hit, awaited) = c /\ CheckLimit(c, i, hit) = c
<1> DEFINE now == i \in hit
           reached == c.triggered \/ (c.mode = "Recipe" /\ i \in awaited)
           fired == [c EXCEPT !.notify[i].req = FALSE, !.triggered = reached]
           latched == [c EXCEPT !.notify[i].triggered = now]
<1>1. c.notify \in [Item -> Notification] /\ c.triggered \in BOOLEAN
  BY DEF Control
<1>2. now \in BOOLEAN /\ reached \in BOOLEAN
  BY <1>1
<1>3. CheckOnce(c, i, hit, awaited) =
        IF ~c.notify[i].req THEN c ELSE ItemAction(IF now THEN fired ELSE c, i)
  BY DEF CheckOnce, Control
<1>4. CheckLimit(c, i, hit) = IF ~c.notify[i].req THEN c ELSE ItemAction(latched, i)
  BY DEF CheckLimit
<1> HIDE DEF now, reached
<1>5. /\ [c.notify EXCEPT ![i].req = FALSE] \in [Item -> Notification]
      /\ [c.notify EXCEPT ![i].triggered = now] \in [Item -> Notification]
      /\ \A j \in Item : [c.notify EXCEPT ![i].req = FALSE][j].reignite = c.notify[j].reignite
      /\ \A j \in Item : [c.notify EXCEPT ![i].triggered = now][j].reignite = c.notify[j].reignite
  BY <1>1, <1>2 DEF Notification
<1>6. fired \in Control /\ latched \in Control
  BY <1>2, <1>5 DEF Control
<1>7. Noticed(c, c) /\ Noticed(fired, c) /\ Noticed(latched, c)
  BY <1>5 DEF Control, Noticed, AtRest, Plain
<1> HIDE DEF fired, latched
<1>8. ASSUME NEW d \in Control, Noticed(d, c)
      PROVE  Noticed(ItemAction(d, i), c)
  BY <1>8, ItemActionNoticed, NoticedTwice
<1> QED BY <1>3, <1>4, <1>6, <1>7, <1>8

\* A pass over notify_data, of a work cycle or of the main loop; that of a cycle
\* finds nothing to do when no item is armed.
LEMMA CheckNotifyNoticed ==
    ASSUME NEW c \in Control, NEW hit, NEW awaited
    PROVE  /\ Noticed(check_notify(c, hit, awaited), c)
           /\ Noticed(check_notify_idle(c, hit), c)
           /\ ~NotifyWrites(c) => check_notify(c, hit, awaited) = c
<1>1. "probe" \in Item /\ "limit" \in Item /\ "timer" \in Item
  BY DEF Item
<1>2. /\ Noticed(check_notify(c, hit, awaited), c)
      /\ ~NotifyWrites(c) => check_notify(c, hit, awaited) = c
  <2> DEFINE p == CheckOnce(c, "probe", hit, awaited)
             l == CheckLimit(p, "limit", hit)
  <2>1. p \in Control /\ Noticed(p, c) /\ (~c.notify["probe"].req => p = c)
    BY <1>1, CheckOnceType, CheckNoticed
  <2>2. l \in Control /\ Noticed(l, p) /\ (~p.notify["limit"].req => l = p)
    BY <1>1, <2>1, CheckLimitType, CheckNoticed
  <2> HIDE DEF l, p
  <2> DEFINE t == CheckOnce(l, "timer", hit, awaited)
  <2>3. Noticed(t, l) /\ (~l.notify["timer"].req => t = l)
    BY <1>1, <2>2, CheckNoticed
  <2> HIDE DEF t
  <2>4. Noticed(t, c)
    BY <2>1, <2>2, <2>3, NoticedTwice
  <2>5. ~NotifyWrites(c) => t = c
    BY <1>1, <2>1, <2>2, <2>3 DEF NotifyWrites
  <2> QED BY <2>4, <2>5 DEF check_notify, t, l, p
<1>3. Noticed(check_notify_idle(c, hit), c)
  <2> DEFINE skip(d, i) == IF d.notify[i].req THEN ItemAction(d, i) ELSE d
             p == skip(c, "probe")
             l == skip(p, "limit")
  <2>1. ASSUME NEW d \in Control, NEW i \in Item
        PROVE  skip(d, i) \in Control /\ Noticed(skip(d, i), d)
    <3>1. Noticed(d, d)
      BY DEF Noticed
    <3> QED BY <3>1, ItemActionType, ItemActionNoticed
  <2> HIDE DEF skip
  <2>2. p \in Control /\ Noticed(p, c)
    BY <1>1, <2>1
  <2>3. l \in Control /\ Noticed(l, p)
    BY <1>1, <2>1, <2>2
  <2> HIDE DEF l, p
  <2> DEFINE t == CheckOnce(l, "timer", hit, {})
  <2>4. Noticed(t, l)
    BY <1>1, <2>3, CheckNoticed
  <2> HIDE DEF t
  <2>5. Noticed(t, c)
    BY <2>2, <2>3, <2>4, NoticedTwice
  <2> QED BY <2>5 DEF check_notify_idle, t, l, p, skip
<1> QED BY <1>2, <1>3

-----------------------------------------------------------------------------
(* The steps of the control process.                                       *)

\* Merging a patch: no request is withdrawn, no recipe step starts to wait, and a
\* change of mode is a request.
LEMMA MergeNoticed ==
    ASSUME NEW c \in Control, NEW p \in Patch
    PROVE  LET d == deep_update(c, p)
           IN  /\ c.updated => d.updated
               /\ d.updated \/ d.mode = c.mode
               /\ d.triggered = c.triggered /\ (~c.pause => ~d.pause)
               /\ d.critical_error = c.critical_error
               /\ d.reignitelaststate = c.reignitelaststate
               /\ d.next_mode \in {c.next_mode, "Stop", "Startup", "Monitor"}
               /\ d.mode = c.mode \/ d.mode # "Reignite" \/ (p.kind = "mode" /\ p.mode = "Reignite")
               /\ d.notify = c.notify \/ (p.kind = "notify" /\ d.notify = p.notify)
<1>1. CASE p \in ModePatch
  BY <1>1 DEF ModePatch, deep_update, Control
<1>2. CASE p \in HoldPatch
  BY <1>2 DEF HoldPatch, deep_update, Control
<1>3. CASE p \in PrimePatch
  BY <1>3 DEF PrimePatch, deep_update, Control
<1>4. CASE p \in UnitsPatch
  BY <1>4 DEF UnitsPatch, deep_update, Control
<1>5. CASE p \in ContinuePatch
  BY <1>5 DEF ContinuePatch, deep_update, Control
<1>6. CASE p \in ManualPatch
  BY <1>6 DEF ManualPatch, deep_update, Control
<1>7. CASE p \in NotifyPatch
  BY <1>7 DEF NotifyPatch, deep_update, Control
<1> QED BY <1>1, <1>2, <1>3, <1>4, <1>5, <1>6, <1>7 DEF Patch, PlainPatch

LEMMA KeptPlain ==
    ASSUME NEW c \in Control
    PROVE  /\ Kept(c).mode = c.mode /\ Kept(c).next_mode = c.next_mode
           /\ Plain(c) => Plain(Kept(c))
           /\ ~c.critical_error => ~Kept(c).critical_error
<1>1. CASE Standalone
  <2>1. Kept(c) = [default_control EXCEPT !.mode = c.mode, !.next_mode = c.next_mode,
                                          !.primary_setpoint = c.primary_setpoint]
    BY <1>1 DEF Kept
  <2>2. \A i \in Item : default_control.notify[i].reignite = FALSE
    BY DEF default_control, Disarmed
  <2> QED BY <2>1, <2>2, DefaultControlType DEF Plain, Control, default_control
<1>2. CASE ~Standalone
  BY <1>2 DEF Kept
<1> QED BY <1>1, <1>2

\* Entering a mode: a grill that is to rest stops, one that is not starts a cycle of
\* the mode, primes, or reads its recipe.
LEMMA EnterModeCases ==
    ASSUME NEW c \in Control, NEW stored \in Control, EnterMode(c, stored),
           AtRest(c) \/ stored.mode = c.mode,
           ~c.critical_error, ~stored.critical_error
    PROVE  /\ \/ pc' = "stopping" /\ AtRest(c) /\ main'.mode = c.mode /\ control' = stored
              \/ pc' = "recipe" /\ c.mode = "Recipe" /\ main'.mode = c.mode /\ control' = stored
              \/ /\ pc' = "start" /\ ~AtRest(c) /\ caller' = "mode"
                 /\ main'.mode = c.mode /\ control'.mode = c.mode /\ cycle' = c.mode
              \/ /\ pc' = "start" /\ ~AtRest(c) /\ caller' = "prime"
                 /\ main'.mode = "Prime" /\ control'.mode = "Prime"
           /\ main'.mode = "Reignite" => main'.next_mode = c.reignitelaststate
           /\ ~control'.critical_error /\ ~main'.critical_error
           /\ Plain(c) /\ Plain(stored) => Plain(control') /\ Plain(main')
<1> DEFINE primed == [c EXCEPT !.mode = "Prime"]
           lit == [c EXCEPT !.next_mode = AfterStartup]
           ending == [c EXCEPT !.next_mode = "Stop"]
           watching == [c EXCEPT !.status = "monitor"]
           again == [c EXCEPT !.next_mode = c.reignitelaststate]
           Stored(d) == main' = Kept(d) /\ control' = d
<1>1. /\ primed \in Control /\ lit \in Control /\ ending \in Control /\ watching \in Control
      /\ again \in Control
  <2>1. AfterStartup \in Mode /\ c.reignitelaststate \in Mode /\ "Prime" \in Mode /\ "Stop" \in Mode
    BY GrillControlAssumption DEF Control, Mode
  <2> QED BY <2>1 DEF Control
<1>2. /\ primed.mode = "Prime" /\ lit.mode = c.mode /\ ending.mode = c.mode
      /\ watching.mode = c.mode /\ again.mode = c.mode
      /\ again.next_mode = c.reignitelaststate
  BY DEF Control
<1>3. /\ ~primed.critical_error /\ ~lit.critical_error /\ ~ending.critical_error
      /\ ~watching.critical_error /\ ~again.critical_error
  BY DEF Control
<1>4. Plain(c) => Plain(primed) /\ Plain(lit) /\ Plain(ending) /\ Plain(watching) /\ Plain(again)
  BY GrillControlAssumption DEF Control, Plain
<1> HIDE DEF primed, lit, ending, watching, again
<1>5. \/ /\ c.mode \in {"Stop", "Error"} /\ pc' = "stopping"
         /\ main' = Kept(c) /\ control' = stored
      \/ /\ c.mode \in {"Prime", "Smoke", "Hold", "Manual"} /\ main' = Kept(c)
         /\ control' = stored /\ pc' = "start" /\ cycle' = c.mode /\ caller' = "mode"
      \/ /\ c.mode = "Startup" /\ Stored(primed)
         /\ pc' = "start" /\ cycle' = "Prime" /\ caller' = "prime"
      \/ /\ c.mode = "Startup" /\ Stored(lit)
         /\ pc' = "start" /\ cycle' = "Startup" /\ caller' = "mode"
      \/ /\ c.mode = "Shutdown" /\ Stored(ending)
         /\ pc' = "start" /\ cycle' = "Shutdown" /\ caller' = "mode"
      \/ /\ c.mode = "Monitor" /\ Stored(watching)
         /\ pc' = "start" /\ cycle' = "Monitor" /\ caller' = "mode"
      \/ /\ c.mode = "Reignite" /\ Stored(again)
         /\ pc' = "start" /\ cycle' = "Reignite" /\ caller' = "mode"
      \/ c.mode = "Recipe" /\ main' = Kept(c) /\ control' = stored /\ pc' = "recipe"
  BY SMTT(30) DEF EnterMode, Call, primed, lit, ending, watching, again
<1>6. ASSUME NEW d \in {primed, lit, ending, watching, again}, Stored(d)
      PROVE  /\ main'.mode = d.mode /\ control'.mode = d.mode
             /\ ~control'.critical_error /\ ~main'.critical_error
             /\ main'.next_mode = d.next_mode
             /\ Plain(c) => Plain(control') /\ Plain(main')
  <2>1. d \in Control
    BY <1>1
  <2> QED BY <1>3, <1>4, <1>6, <2>1, KeptPlain
<1>7. ASSUME main' = Kept(c), control' = stored
      PROVE  /\ main'.mode = c.mode /\ ~control'.critical_error /\ ~main'.critical_error
             /\ Plain(c) /\ Plain(stored) => Plain(control') /\ Plain(main')
  BY <1>7, KeptPlain
<1> HIDE DEF Stored
<1> QED BY <1>2, <1>5, <1>6, <1>7 DEF AtRest

\* An iteration of the main loop enters a mode that notify_data and the timer leave
\* as the request, and only a request.
LEMMA MainLoopCases ==
    ASSUME TypeOK, MainLoop
    PROVE  \E d \in Control :
              /\ Noticed(d, control)
              /\ \/ pc' \in {"dead", "boot"} /\ UNCHANGED <<control, main>>
                 \/ /\ main' = Kept(d) /\ control' = d /\ pc' = "main"
                    /\ ~d.updated \/ d.critical_error
                 \/ \E c, stored \in Control :
                       /\ d.updated /\ ~c.critical_error /\ ~stored.critical_error
                       /\ EnterMode(c, stored)
                       /\ c.mode = "Stop" \/ c.mode = d.mode
                       /\ AtRest(c) \/ stored.mode = c.mode
                       /\ stored.mode \in {c.mode, d.mode}
                       /\ c.reignitelaststate = d.reignitelaststate
                       /\ Plain(d) => Plain(c) /\ Plain(stored)
<1>1. PICK expired, late \in BOOLEAN :
         LET armed == control.notify["timer"].req
             c == check_notify_idle(control, IF expired THEN {"timer"} ELSE {})
             d == IF late /\ c.notify["timer"].req THEN ExpireTimer(c) ELSE c
         IN  /\ armed \/ ~(expired \/ late)
             /\ IF armed /\ expired /\ control.mode = "Recipe"
                THEN /\ pc' \in {"dead", "boot"}
                     /\ UNCHANGED <<control, main, outputs, cycle, caller>>
                ELSE IF d.updated /\ ~d.critical_error
                THEN Dispatch(d)
                ELSE /\ main' = Kept(d) /\ control' = d /\ pc' = "main"
                     /\ UNCHANGED <<outputs, cycle, caller>>
  BY DEF MainLoop
<1> DEFINE c == check_notify_idle(control, IF expired THEN {"timer"} ELSE {})
           d == IF late /\ c.notify["timer"].req THEN ExpireTimer(c) ELSE c
<1>2. c \in Control /\ Noticed(c, control)
  BY CheckNotifyIdleType, CheckNotifyNoticed DEF TypeOK
<1>3. d \in Control /\ Noticed(d, control)
  <2>1. ExpireTimer(c) \in Control
    BY <1>2, ExpireTimerType
  <2> HIDE DEF c
  <2>2. Noticed(ExpireTimer(c), c)
    <3>1. "timer" \in Item /\ c.notify \in [Item -> Notification]
      BY <1>2 DEF Item, Control
    <3> DEFINE quiet == [c.notify EXCEPT !["timer"] =
                            [@ EXCEPT !.req = FALSE, !.shutdown = FALSE, !.keep_warm = FALSE]]
    <3>2. \A i \in Item : quiet[i].reignite = c.notify[i].reignite
      BY <3>1 DEF Notification
    <3>3. ExpireTimer(c) = [c EXCEPT !.notify = quiet]
      BY DEF ExpireTimer
    <3> HIDE DEF quiet
    <3> QED BY ZenonT(40), <1>2, <3>2, <3>3 DEF Noticed, Plain, Control
  <2> QED BY <1>2, <2>1, <2>2, NoticedTwice
<1> HIDE DEF c, d
<1>4. \/ pc' \in {"dead", "boot"} /\ UNCHANGED <<control, main>>
      \/ d.updated /\ ~d.critical_error /\ Dispatch(d)
      \/ main' = Kept(d) /\ control' = d /\ pc' = "main" /\ (~d.updated \/ d.critical_error)
  BY <1>1 DEF c, d
<1>5. ASSUME d.updated, ~d.critical_error, Dispatch(d)
      PROVE  \E e, stored \in Control :
                /\ d.updated /\ ~e.critical_error /\ ~stored.critical_error
                /\ EnterMode(e, stored)
                /\ e.mode = "Stop" \/ e.mode = d.mode
                /\ AtRest(e) \/ stored.mode = e.mode
                /\ stored.mode \in {e.mode, d.mode}
                /\ e.reignitelaststate = d.reignitelaststate
                /\ Plain(d) => Plain(e) /\ Plain(stored)
  <2> DEFINE cleared == [d EXCEPT !.updated = FALSE]
             units == ChangeUnits(cleared)
             active == [units EXCEPT !.status = "active"]
             Like(e) == /\ ~e.critical_error /\ e.reignitelaststate = d.reignitelaststate
                        /\ e.mode \in {"Stop", d.mode}
                        /\ Plain(d) => Plain(e)
  <2>1. cleared \in Control /\ Like(cleared) /\ cleared.mode = d.mode
    BY <1>3, <1>5 DEF Control, Plain
  <2> HIDE DEF cleared
  <2>2. units \in Control /\ Like(units) /\ (units.mode = "Stop" \/ units = cleared)
    <3>1. units \in Control
      BY <2>1, ChangeUnitsType
    <3>2. CASE cleared.units_change
      BY <2>1, <3>1, <3>2 DEF ChangeUnits, Control, Plain
    <3>3. CASE ~cleared.units_change
      BY <2>1, <3>1, <3>3 DEF ChangeUnits
    <3> QED BY <3>2, <3>3
  <2> HIDE DEF units
  <2>3. active \in Control /\ Like(active)
    BY <2>2 DEF Control, Plain
  <2> HIDE DEF active
  <2>4. EnterMode(active, active) \/ EnterMode(units, cleared)
    BY <1>5 DEF Dispatch, cleared, units, active
  <2> QED BY <1>5, <2>1, <2>2, <2>3, <2>4 DEF AtRest
<1> QED BY <1>3, <1>4, <1>5

\* The start of a cycle: its loop, or straight to its end, in Smoke or Hold, if the
\* fire is out or the controller is missing.
LEMMA StartCases ==
    ASSUME TypeOK, StartCycle
    PROVE  /\ \/ /\ control'.mode = control.mode /\ control'.updated = control.updated
                 /\ control'.triggered = control.triggered /\ control'.pause = control.pause
                 /\ control'.critical_error = control.critical_error
                 /\ control'.reignitelaststate = control.reignitelaststate
                 /\ \/ pc' = "top" /\ local' = default_control
                    \/ pc' = "cleanup" /\ local' = control' /\ cycle = "Hold" /\ ~ControllerLoads
              \/ /\ pc' = "cleanup" /\ local' = control' /\ control'.updated
                 /\ cycle \in {"Smoke", "Hold"} /\ control'.mode \in {"Error", "Reignite"}
                 /\ control'.mode = "Reignite" => control'.reignitelaststate = cycle
                 /\ control'.critical_error = control.critical_error
           /\ Plain(control) => Plain(control')
<1>1. PICK t \in PitTemps :
         LET c == ArmTriggers(control)
             out == /\ cycle \in {"Smoke", "Hold"}
                    /\ c.afterstarttemp < c.startuptemp
         IN  /\ ptemp' = t
             /\ control' = IF cycle \in {"Startup", "Reignite"}
                           THEN [c EXCEPT !.startuptemp = StartupTemp(t), !.afterstarttemp = t]
                           ELSE IF out THEN Flameout(c) ELSE c
             /\ IF out THEN CountReignite(c) ELSE UNCHANGED reignites
             /\ IF out \/ (cycle = "Hold" /\ ~ControllerLoads)
                THEN pc' = "cleanup" /\ local' = control'
                ELSE pc' = "top" /\ local' = default_control
  BY DEF StartCycle
<1> DEFINE c == ArmTriggers(control)
           lit == [c EXCEPT !.startuptemp = StartupTemp(t), !.afterstarttemp = t]
           Like(d) == /\ d.mode = control.mode /\ d.updated = control.updated
                      /\ d.triggered = control.triggered /\ d.pause = control.pause
                      /\ d.critical_error = control.critical_error
                      /\ d.reignitelaststate = control.reignitelaststate
                      /\ Plain(control) => Plain(d)
<1>2. c \in Control
  BY ArmTriggersType DEF TypeOK
<1>3. Like(c)
  <2>1. \A i \in Item : c.notify[i].reignite = control.notify[i].reignite
    BY DEF ArmTriggers, TypeOK, Control, Notification
  <2> QED BY <2>1 DEF ArmTriggers, TypeOK, Control, Plain
<1> HIDE DEF c
<1>4. Like(lit)
  BY <1>2, <1>3 DEF Control, Plain
<1> HIDE DEF lit
<1>5. \/ control' \in {c, lit} /\ pc' = "top" /\ local' = default_control
      \/ /\ control' \in {c, lit} /\ pc' = "cleanup" /\ local' = control' /\ cycle = "Hold"
         /\ ~ControllerLoads
      \/ /\ pc' = "cleanup" /\ local' = control' /\ control' = Flameout(c)
         /\ cycle \in {"Smoke", "Hold"}
  BY <1>1 DEF c, lit
<1>6. cycle \in {"Smoke", "Hold"} =>
        /\ Flameout(c).updated /\ Flameout(c).mode \in {"Error", "Reignite"}
        /\ Flameout(c).mode = "Reignite" => Flameout(c).reignitelaststate = cycle
        /\ Flameout(c).critical_error = c.critical_error
        /\ Plain(c) => Plain(Flameout(c))
  BY <1>2 DEF Flameout, Control, Plain
<1> QED BY <1>3, <1>4, <1>5, <1>6

\* The first half of an iteration: leave with what was requested or with Stop, or go
\* on with the dictionary that is in the store.
LEMMA TopCases ==
    ASSUME TypeOK, IterationTop
    PROVE  /\ \/ control.updated /\ control' = control /\ local' = control /\ pc' = "cleanup"
              \/ /\ control'.updated /\ control'.mode = "Stop" /\ local' = control'
                 /\ pc' = "cleanup"
              \/ /\ ~control.updated /\ ~control'.updated /\ local' = control' /\ pc' = "bottom"
                 /\ control'.mode = control.mode
           /\ control'.critical_error = control.critical_error
           /\ control'.reignitelaststate = control.reignitelaststate
           /\ Plain(control) => Plain(control')
<1> DEFINE off == SwitchedOff(control)
           turned == [control EXCEPT !.manual = [change |-> "none", output |-> FALSE]]
           Like(d) == /\ d.critical_error = control.critical_error
                      /\ d.reignitelaststate = control.reignitelaststate
                      /\ Plain(control) => Plain(d)
<1>1. Like(off) /\ off.updated /\ off.mode = "Stop"
  BY DEF SwitchedOff, TypeOK, Control, Plain
<1>2. Like(turned) /\ turned.mode = control.mode /\ turned.updated = control.updated
  BY DEF TypeOK, Control, Plain
<1> HIDE DEF off, turned
<1>3. \/ control.updated /\ control' = control /\ local' = control /\ pc' = "cleanup"
      \/ control' = off /\ local' = off /\ pc' = "cleanup"
      \/ ~control.updated /\ control' \in {control, turned} /\ local' = control' /\ pc' = "bottom"
  BY DEF IterationTop, off, turned
<1> QED BY <1>1, <1>2, <1>3

\* The second half: a flameout, the end of a cycle that has one, a pit too hot, the
\* end of a recipe step, or another iteration.
LEMMA BottomCases ==
    ASSUME TypeOK, IterationBottom
    PROVE  \E n \in Control :
              /\ Noticed(n, local) /\ (~NotifyWrites(local) => n = local)
              /\ \/ /\ cycle \in {"Smoke", "Hold"} /\ pc' = "cleanup"
                    /\ control' = Flameout(n) /\ local' = control'
                 \/ /\ cycle \notin {"Smoke", "Hold"} /\ pc' = "cleanup" /\ local' = n
                    /\ control' = IF NotifyWrites(local) THEN n ELSE control
                 \/ /\ pc' = "cleanup" /\ local' = control'
                    /\ control' = [n EXCEPT !.mode = "Error", !.updated = TRUE]
                 \/ /\ StepOver(n) /\ pc' = "cleanup" /\ local' = n
                    /\ control' = IF NotifyWrites(local) THEN n ELSE control
                 \/ /\ pc' = "top" /\ local' = default_control
                    /\ control' = IF NotifyWrites(local) THEN n ELSE control
<1>1. PICK hit \in SUBSET {i \in Item : local.notify[i].req}, elapsed \in BOOLEAN :
         LET n == check_notify(local, hit, Awaited(local))
             noticed == IF NotifyWrites(local) THEN n ELSE control
             hot == [n EXCEPT !.mode = "Error", !.updated = TRUE]
             Leave(c, stored) == local' = c /\ control' = stored /\ pc' = "cleanup"
         IN  IF cycle \in {"Smoke", "Hold"} /\ ptemp < n.startuptemp
             THEN Leave(Flameout(n), Flameout(n)) /\ CountReignite(n)
             ELSE /\ UNCHANGED reignites
                  /\ IF elapsed /\ cycle \in {"Startup", "Reignite", "Shutdown", "Prime"}
                     THEN Leave(n, noticed)
                     ELSE IF ptemp > MaxTemp
                     THEN Leave(hot, hot)
                     ELSE IF StepOver(n)
                     THEN Leave(n, noticed)
                     ELSE local' = default_control /\ control' = noticed /\ pc' = "top"
  BY DEF IterationBottom
<1> DEFINE n == check_notify(local, hit, Awaited(local))
<1>2. n \in Control /\ Noticed(n, local) /\ (~NotifyWrites(local) => n = local)
  BY CheckNotifyType, CheckNotifyNoticed DEF TypeOK
<1> HIDE DEF n
<1>3. \/ /\ cycle \in {"Smoke", "Hold"} /\ pc' = "cleanup"
         /\ control' = Flameout(n) /\ local' = control'
      \/ /\ cycle \notin {"Smoke", "Hold"} /\ pc' = "cleanup" /\ local' = n
         /\ control' = IF NotifyWrites(local) THEN n ELSE control
      \/ /\ pc' = "cleanup" /\ local' = control'
         /\ control' = [n EXCEPT !.mode = "Error", !.updated = TRUE]
      \/ /\ StepOver(n) /\ pc' = "cleanup" /\ local' = n
         /\ control' = IF NotifyWrites(local) THEN n ELSE control
      \/ /\ pc' = "top" /\ local' = default_control
         /\ control' = IF NotifyWrites(local) THEN n ELSE control
  BY <1>1 DEF n
<1> QED BY <1>2, <1>3

-----------------------------------------------------------------------------
(* A recipe waits.  The decision is taken on the cycle's own dictionary and *)
(* looked at again, after the clean-up and a merge of the write queue, in   *)
(* the store's: the invariant follows it from one to the other.             *)

\* The step may end: on a request, or its trigger has come and nothing pauses it.
Over(c) == c.updated \/ (c.triggered /\ ~c.pause)

StepInv ==
    /\ pc \in {"bottom", "hung"} =>
          control.updated \/ (local.triggered = control.triggered /\ local.pause = control.pause)
    /\ pc = "recipeNext" => caller = "recipe"
    /\ pc \in {"cleanup", "recipeNext"} /\ caller = "recipe" /\ cycle \in {"Smoke", "Hold"}
          => Over(control)

\* Places that the invariant says nothing of.
Elsewhere == Place \ {"bottom", "hung", "cleanup", "recipeNext"}

LEMMA StepElsewhere == pc' \in Elsewhere => StepInv'
BY DEF Elsewhere, StepInv

\* The steps of main() and of _recipe_mode.
LEMMA StepMain ==
    /\ TypeOK /\ (Boot \/ CheckSwitch \/ MainLoop \/ FinishStop \/ NextMode \/ AfterPriming)
          => StepInv'
    /\ TypeOK /\ (RecipeBegin \/ RunStep \/ RecipeNext \/ RecipeResume) => StepInv'
<1>1. ASSUME TypeOK, MainLoop PROVE pc' \in Elsewhere
  <2>1. PICK d \in Control :
              /\ Noticed(d, control)
              /\ \/ pc' \in {"dead", "boot"} /\ UNCHANGED <<control, main>>
                 \/ /\ main' = Kept(d) /\ control' = d /\ pc' = "main"
                    /\ ~d.updated \/ d.critical_error
                 \/ \E c, stored \in Control :
                       /\ d.updated /\ ~c.critical_error /\ ~stored.critical_error
                       /\ EnterMode(c, stored)
                       /\ c.mode = "Stop" \/ c.mode = d.mode
                       /\ AtRest(c) \/ stored.mode = c.mode
                       /\ stored.mode \in {c.mode, d.mode}
                       /\ c.reignitelaststate = d.reignitelaststate
                       /\ Plain(d) => Plain(c) /\ Plain(stored)
    BY <1>1, MainLoopCases
  <2>2. ASSUME NEW c \in Control, NEW stored \in Control, EnterMode(c, stored)
        PROVE  pc' \in {"stopping", "start", "recipe"}
    BY <2>2 DEF EnterMode, Call
  <2> QED BY <2>1, <2>2 DEF Elsewhere, Place, InCycle
<1>2. ASSUME Boot \/ CheckSwitch \/ FinishStop \/ NextMode \/ AfterPriming PROVE pc' \in Elsewhere
  BY <1>2 DEF Boot, CheckSwitch, FinishStop, NextMode, AfterPriming, Call, Elsewhere, Place, InCycle
<1>3. ASSUME RecipeBegin \/ RunStep \/ RecipeNext \/ RecipeResume PROVE pc' \in Elsewhere
  BY <1>3 DEF RecipeBegin, RunStep, RecipeNext, RecipeResume, EndRecipe, Call, Elsewhere, Place,
              InCycle
<1> QED BY <1>1, <1>2, <1>3, StepElsewhere

\* A work cycle leaves a recipe's Smoke or Hold step for a request or a trigger only.
LEMMA StepCycle ==
    ASSUME ControllerLoads, TypeOK, StepInv,
           StartCycle \/ IterationTop \/ IterationBottom \/ Cleanup
    PROVE  StepInv'
<1>1. CASE StartCycle
  <2>1. UNCHANGED <<cycle, caller>>
    BY <1>1 DEF StartCycle
  <2> QED BY <1>1, <2>1, StartCases, ControllerLoads DEF StepInv, Over
<1>2. CASE IterationTop
  BY <1>2, TopCases DEF StepInv, Over
<1>3. CASE IterationBottom
  <2>1. UNCHANGED <<cycle, caller>> /\ pc = "bottom" /\ local \in Control
    BY <1>3 DEF IterationBottom, TypeOK
  <2>2. PICK n \in Control :
              /\ Noticed(n, local) /\ (~NotifyWrites(local) => n = local)
              /\ \/ /\ cycle \in {"Smoke", "Hold"} /\ pc' = "cleanup"
                    /\ control' = Flameout(n) /\ local' = control'
                 \/ /\ cycle \notin {"Smoke", "Hold"} /\ pc' = "cleanup" /\ local' = n
                    /\ control' = IF NotifyWrites(local) THEN n ELSE control
                 \/ /\ pc' = "cleanup" /\ local' = control'
                    /\ control' = [n EXCEPT !.mode = "Error", !.updated = TRUE]
                 \/ /\ StepOver(n) /\ pc' = "cleanup" /\ local' = n
                    /\ control' = IF NotifyWrites(local) THEN n ELSE control
                 \/ /\ pc' = "top" /\ local' = default_control
                    /\ control' = IF NotifyWrites(local) THEN n ELSE control
    BY <1>3, BottomCases
  <2>3. cycle \in {"Smoke", "Hold"} => Flameout(n).updated
    BY FlameoutType DEF Mode
  <2>4. [n EXCEPT !.mode = "Error", !.updated = TRUE].updated
    BY DEF Control
  <2>5. ASSUME cycle \in {"Smoke", "Hold"}, pc' = "cleanup" PROVE Over(control')
    <3>1. CASE StepOver(n) /\ control' = IF NotifyWrites(local) THEN n ELSE control
      <4>1. CASE NotifyWrites(local)
        BY <3>1, <4>1 DEF StepOver, Over
      <4>2. CASE ~NotifyWrites(local)
        BY <2>1, <2>2, <3>1, <4>2 DEF StepOver, Over, StepInv
      <4> QED BY <4>1, <4>2
    <3> QED BY <2>2, <2>3, <2>4, <2>5, <3>1 DEF Over
  <2>6. pc' \in {"cleanup", "top"}
    BY <2>2
  <2> QED BY <2>1, <2>5, <2>6 DEF StepInv
<1>4. CASE Cleanup
  <2>1. /\ UNCHANGED <<cycle, caller>> /\ pc = "cleanup"
        /\ pc' \in {"primed", "recipeNext", "recipeResume", "main", "next"}
        /\ pc' = "recipeNext" => caller = "recipe"
        /\ cycle \in {"Smoke", "Hold"} => control' = control
    BY <1>4 DEF Cleanup
  <2> QED BY <2>1 DEF StepInv
<1> QED BY <1>1, <1>2, <1>3, <1>4

\* Neither a merge nor anything from outside makes a step wait again, and a hang ends
\* where it began.
LEMMA StepOutside ==
    ASSUME TypeOK, StepInv,
           \/ Merge \/ Client \/ ToggleSwitch \/ Hang \/ Resume \/ Exception
           \/ HeartbeatLost \/ Restart \/ RedisRestart
    PROVE  StepInv'
<1>1. CASE Merge
  <2>1. /\ Head(queue) \in Patch /\ control' = deep_update(control, Head(queue))
        /\ pc \in {"merge", "top", "next", "recipeNext"} /\ UNCHANGED <<pc, cycle, caller>>
    BY <1>1 DEF Merge, MergeWrite, TypeOK, thread
  <2>2. Over(control) => Over(control')
    BY <2>1, MergeNoticed DEF Over, TypeOK
  <2> QED BY <2>1, <2>2 DEF StepInv
<1>2. CASE Client \/ ToggleSwitch
  BY <1>2 DEF Client, execute, ToggleSwitch, store, thread, StepInv, Over
<1>3. CASE Hang \/ Resume \/ Exception \/ Restart
  BY <1>3 DEF Hang, Resume, Exception, Restart, store, StepInv, Over
<1>4. CASE HeartbeatLost \/ RedisRestart
  <2>1. HeartbeatLost => control'.updated
    BY DEF HeartbeatLost, TypeOK, Control
  <2>2. RedisRestart => control'.updated
    <3>1. RedisRestart => control' = default_control
      BY DEF RedisRestart, flush_control
    <3>2. default_control.updated
      BY DEF default_control
    <3> QED BY <3>1, <3>2
  <2>3. UNCHANGED <<cycle, caller>> /\ pc' \in {pc, "boot"}
    BY <1>4 DEF HeartbeatLost, RedisRestart, thread
  <2> QED BY <1>4, <2>1, <2>2, <2>3 DEF StepInv, Over
<1> QED BY <1>1, <1>2, <1>3, <1>4

\* A recipe with any steps goes on from a Smoke or Hold step only when what the step
\* waits for has happened and the user, if asked to, has continued, or when somebody
\* has asked for another mode; whichever way the control process fails meanwhile.  A
\* Hold step without a controller does not wait: its cycle is skipped.
THEOREM RecipeWaits ==
    ASSUME ControllerLoads
    PROVE  Spec => StepsWaitForTheirTrigger
<1>1. Init => StepInv
  BY DEF Init, StepInv
<1>2. TypeOK /\ StepInv /\ [Next]_vars => StepInv'
  <2>1. TypeOK /\ StepInv /\ Next => StepInv'
    BY StepMain, StepCycle, StepOutside DEF Next
  <2>2. StepInv /\ UNCHANGED vars => StepInv'
    BY DEF StepInv, Over, vars
  <2> QED BY <2>1, <2>2
<1>3. TypeOK /\ StepInv /\ [Next]_vars
        => [pc = "recipeNext" /\ step' = step + 1 /\ cycle \in {"Smoke", "Hold"}
              => control.updated \/ (control.triggered /\ ~control.pause)]_vars
  BY DEF StepInv, Over
<1> QED BY <1>1, <1>2, <1>3, TypeCorrect, PTL DEF Spec, StepsWaitForTheirTrigger

-----------------------------------------------------------------------------
(* A grill at rest stays at rest.  Every process that writes a mode marks   *)
(* it as a request, and a cycle that finds a request does nothing else; so  *)
(* while the control process is at work no unmarked Stop or Error is in a   *)
(* dictionary it may write back.  Two failures are left out, both of which  *)
(* TLC shows to break this: a redis-server that loses the structure under a *)
(* running cycle, which then writes its own back, and a hang whose reset    *)
(* does not happen, after which the cycle does the same.                    *)

\* Where a structure says Stop or Error, somebody asks for it.
Requested(c) == AtRest(c) => c.updated

RestInv ==
    /\ pc = "stopping" => AtRest(main)
    /\ pc \notin {"boot", "main", "merge", "stopping", "dead"} => Requested(control)
    /\ pc \in {"start", "recipe", "recipeStep"} => ~AtRest(control)
    /\ pc \in {"bottom", "hung", "recipeStep"} => local.mode = control.mode
    /\ pc \in {"bottom", "hung"} => ~AtRest(local)
    /\ pc = "cleanup" => /\ Requested(local)
                         /\ cycle \in {"Startup", "Reignite"} => (AtRest(local) <=> AtRest(control))

\* Out of Stop and Error.
Woken == AtRest(control) /\ ~AtRest(control')

LEMMA RestMain ==
    ASSUME ~BootToMonitor, TypeOK, RestInv,
           Boot \/ CheckSwitch \/ MainLoop \/ FinishStop \/ NextMode \/ AfterPriming
    PROVE  RestInv' /\ ~Woken
<1>1. CASE Boot
  <2>1. pc' = "main" /\ control' = default_control
    BY <1>1 DEF Boot, flush_control
  <2> QED BY <2>1 DEF RestInv, Woken, AtRest, default_control
<1>2. CASE CheckSwitch
  <2>1. pc' = "merge" /\ (control' = control \/ control'.mode = "Stop")
    BY ZenonT(60), <1>2 DEF CheckSwitch, TypeOK, Control
  <2> QED BY <2>1 DEF RestInv, Woken, AtRest
<1>3. CASE MainLoop
  <2>1. PICK d \in Control :
              /\ Noticed(d, control)
              /\ \/ pc' \in {"dead", "boot"} /\ UNCHANGED <<control, main>>
                 \/ /\ main' = Kept(d) /\ control' = d /\ pc' = "main"
                    /\ ~d.updated \/ d.critical_error
                 \/ \E c, stored \in Control :
                       /\ d.updated /\ ~c.critical_error /\ ~stored.critical_error
                       /\ EnterMode(c, stored)
                       /\ c.mode = "Stop" \/ c.mode = d.mode
                       /\ AtRest(c) \/ stored.mode = c.mode
                       /\ stored.mode \in {c.mode, d.mode}
                       /\ c.reignitelaststate = d.reignitelaststate
                       /\ Plain(d) => Plain(c) /\ Plain(stored)
    BY <1>3, MainLoopCases
  <2>2. AtRest(control) => AtRest(d)
    BY <2>1 DEF Noticed, AtRest
  <2>3. ASSUME pc' \in {"dead", "boot", "main"}, control' \in {control, d} PROVE RestInv' /\ ~Woken
    BY <2>2, <2>3 DEF RestInv, Woken, AtRest
  <2>4. ASSUME NEW c \in Control, NEW stored \in Control, ~c.critical_error,
               ~stored.critical_error, EnterMode(c, stored), c.mode = "Stop" \/ c.mode = d.mode,
               AtRest(c) \/ stored.mode = c.mode, stored.mode \in {c.mode, d.mode}
        PROVE  RestInv' /\ ~Woken
    <3>1. \/ pc' = "stopping" /\ AtRest(c) /\ main'.mode = c.mode /\ control' = stored
          \/ pc' = "recipe" /\ c.mode = "Recipe" /\ control' = stored
          \/ pc' = "start" /\ ~AtRest(c) /\ (control'.mode = c.mode \/ control'.mode = "Prime")
      BY <2>4, EnterModeCases
    <3>2. AtRest(control) => AtRest(c) /\ AtRest(stored)
      BY <2>2, <2>4 DEF AtRest
    <3> QED BY <2>4, <3>1, <3>2 DEF RestInv, Requested, Woken, AtRest
  <2> QED BY <2>1, <2>3, <2>4
<1>4. CASE FinishStop
  <2>1. pc' = "main" /\ AtRest(control')
    BY <1>4 DEF FinishStop, flush_control, RestInv, AtRest, default_control
  <2> QED BY <2>1 DEF RestInv, Woken
<1>5. CASE NextMode
  <2>1. pc' = "main" /\ control' = Following(control) /\ Requested(control)
    BY <1>5 DEF NextMode, RestInv
  <2>2. AtRest(control) => control' = control
    BY <2>1 DEF Following, Requested
  <2> QED BY <2>1, <2>2 DEF RestInv, Woken
<1>6. CASE AfterPriming
  <2>1. \/ control' = control /\ pc' = "main"
        \/ control.mode \in {"Prime", "Startup"} /\ control'.mode = "Startup" /\ pc' = "start"
    BY <1>6 DEF AfterPriming, Call, TypeOK, Control
  <2> QED BY <2>1 DEF RestInv, Requested, Woken, AtRest
<1> QED BY <1>1, <1>2, <1>3, <1>4, <1>5, <1>6

LEMMA RestRecipe ==
    ASSUME TypeOK, RestInv, RecipeBegin \/ RunStep \/ RecipeNext \/ RecipeResume
    PROVE  RestInv' /\ ~Woken
<1>1. ASSUME NEW c \in Control, EndRecipe(c), AtRest(control) => AtRest(c)
      PROVE  RestInv' /\ ~Woken
  <2>1. pc' = "main" /\ control' = RecipeOver(c)
    BY <1>1 DEF EndRecipe
  <2>2. RecipeOver(c).mode \in {"Stop", c.mode}
    BY DEF RecipeOver, Control
  <2> QED BY <1>1, <2>1, <2>2 DEF RestInv, Woken, AtRest
<1>2. CASE RecipeBegin
  <2>1. control' = control /\ pc = "recipe"
        /\ (pc' = "main" \/ (local' = control /\ pc' = "recipeStep"))
    BY <1>2 DEF RecipeBegin, store
  <2> QED BY <2>1 DEF RestInv, Requested, Woken, AtRest
<1>3. CASE RunStep
  <2>1. pc = "recipeStep" /\ local \in Control /\ local.mode = control.mode /\ ~AtRest(control)
    BY <1>3 DEF RunStep, RestInv, TypeOK
  <2>2. EndRecipe(local) \/ (pc' = "start" /\ control'.mode = local.mode)
    <3> DEFINE begun == [local EXCEPT !.triggered = FALSE, !.pause = RecipeSteps[step].pause,
                             !.primary_setpoint = RecipeSteps[step].hold_temp,
                             !.updated = FALSE]
    <3>1. begun.mode = local.mode
      BY <2>1 DEF Control
    <3>2. EndRecipe(local) \/ (pc' = "start" /\ control' = begun)
      BY <1>3 DEF RunStep, Call
    <3> QED BY <3>1, <3>2
  <2>3. ASSUME pc' = "start", control'.mode = local.mode PROVE RestInv' /\ ~Woken
    BY <2>1, <2>3 DEF RestInv, Requested, Woken, AtRest
  <2> QED BY <1>1, <2>1, <2>2, <2>3 DEF AtRest
<1>4. CASE RecipeNext
  <2>1. pc = "recipeNext" /\ control \in Control /\ Requested(control)
    BY <1>4 DEF RecipeNext, RestInv, TypeOK
  <2>2. \/ EndRecipe(control)
        \/ control.mode = "Reignite" /\ pc' = "start" /\ control'.mode = "Recipe"
        \/ /\ ~Cancelled(control) /\ local' = control /\ pc' = "recipeStep" /\ control' = control
    BY <1>4, <2>1 DEF RecipeNext, Call, Control
  <2>3. ASSUME control.mode = "Reignite", pc' = "start", control'.mode = "Recipe"
        PROVE  RestInv' /\ ~Woken
    BY <2>3 DEF RestInv, Requested, Woken, AtRest
  <2>4. ASSUME ~Cancelled(control), local' = control, pc' = "recipeStep", control' = control
        PROVE  RestInv' /\ ~Woken
    BY <2>1, <2>4 DEF RestInv, Requested, Cancelled, Woken, AtRest
  <2> QED BY <1>1, <2>1, <2>2, <2>3, <2>4
<1>5. CASE RecipeResume
  <2>1. pc = "recipeResume" /\ control \in Control /\ Requested(control)
    BY <1>5 DEF RecipeResume, RestInv, TypeOK
  <2>2. \/ EndRecipe(control)
        \/ pc' = "dead" /\ control' = control
    BY <1>5 DEF RecipeResume
  <2>3. ASSUME pc' = "dead", control' = control PROVE RestInv' /\ ~Woken
    BY <2>3 DEF RestInv, Woken
  <2> QED BY <1>1, <2>1, <2>2, <2>3
<1> QED BY <1>2, <1>3, <1>4, <1>5

LEMMA RestCycle ==
    ASSUME TypeOK, RestInv, StartCycle \/ IterationTop \/ IterationBottom \/ Cleanup
    PROVE  RestInv' /\ ~Woken
<1>1. CASE StartCycle
  <2>1. pc = "start" /\ ~AtRest(control) /\ UNCHANGED cycle
    BY <1>1 DEF StartCycle, RestInv
  <2> QED BY <1>1, <2>1, StartCases DEF RestInv, Requested, Woken, AtRest
<1>2. CASE IterationTop
  <2>1. pc = "top" /\ Requested(control)
    BY <1>2 DEF IterationTop, RestInv
  <2> QED BY <1>2, <2>1, TopCases DEF RestInv, Requested, Woken, AtRest
<1>3. CASE IterationBottom
  <2>1. /\ UNCHANGED <<cycle, caller>> /\ pc = "bottom" /\ local \in Control
        /\ ~AtRest(local) /\ local.mode = control.mode
    BY <1>3 DEF IterationBottom, TypeOK, RestInv
  <2>2. PICK n \in Control :
              /\ Noticed(n, local) /\ (~NotifyWrites(local) => n = local)
              /\ \/ /\ cycle \in {"Smoke", "Hold"} /\ pc' = "cleanup"
                    /\ control' = Flameout(n) /\ local' = control'
                 \/ /\ cycle \notin {"Smoke", "Hold"} /\ pc' = "cleanup" /\ local' = n
                    /\ control' = IF NotifyWrites(local) THEN n ELSE control
                 \/ /\ pc' = "cleanup" /\ local' = control'
                    /\ control' = [n EXCEPT !.mode = "Error", !.updated = TRUE]
                 \/ /\ StepOver(n) /\ pc' = "cleanup" /\ local' = n
                    /\ control' = IF NotifyWrites(local) THEN n ELSE control
                 \/ /\ pc' = "top" /\ local' = default_control
                    /\ control' = IF NotifyWrites(local) THEN n ELSE control
    BY <1>3, BottomCases
  <2>3. ~AtRest(n) /\ ~AtRest(control) /\ ~Woken
    BY <2>1, <2>2 DEF Noticed, AtRest, Woken
  <2>4. ASSUME pc' = "cleanup", local' = control', control'.updated PROVE RestInv'
    BY <2>4 DEF RestInv, Requested, AtRest
  <2>5. cycle \in {"Smoke", "Hold"} => Flameout(n).updated
    BY FlameoutType DEF Mode
  <2>6. [n EXCEPT !.mode = "Error", !.updated = TRUE].updated
    BY DEF Control
  <2>7. ASSUME pc' = "cleanup", local' = n, control' \in {n, control} PROVE RestInv'
    BY <2>3, <2>7 DEF RestInv, Requested
  <2>8. ASSUME pc' = "top", control' \in {n, control} PROVE RestInv'
    BY <2>3, <2>8 DEF RestInv, Requested
  <2> QED BY <2>2, <2>3, <2>4, <2>5, <2>6, <2>7, <2>8
<1>4. CASE Cleanup
  <2> DEFINE done == [local EXCEPT !.afterstarttemp = ptemp]
  <2>1. done.mode = local.mode /\ done.updated = local.updated
    BY DEF TypeOK, Control
  <2> HIDE DEF done
  <2>2. /\ pc = "cleanup" /\ pc' \in {"primed", "recipeNext", "recipeResume", "main", "next"}
        /\ control' = IF cycle \in {"Startup", "Reignite"} THEN done ELSE control
    BY <1>4 DEF Cleanup, done
  <2>3. Requested(control) /\ Requested(local)
        /\ (cycle \in {"Startup", "Reignite"} => (AtRest(local) <=> AtRest(control)))
    BY <2>2 DEF RestInv
  <2> QED BY <2>1, <2>2, <2>3 DEF RestInv, Requested, Woken, AtRest
<1> QED BY <1>1, <1>2, <1>3, <1>4

\* What may come from outside: a failure whose recovery is complete.
Recovers == "redis" \notin Failures /\ ("hang" \in Failures => RestartWorks)

\* A thread that does not hang is never seen hung.
Hangs == pc = "hung" => "hang" \in Failures

LEMMA RestOutside ==
    ASSUME Recovers, Hangs, TypeOK, RestInv,
           \/ Merge \/ Client \/ ToggleSwitch \/ Hang \/ Resume \/ Exception
           \/ HeartbeatLost \/ Restart \/ RedisRestart
    PROVE  RestInv' /\ (Woken => Merging)
<1>1. CASE Merge
  <2>1. /\ Head(queue) \in Patch /\ control' = deep_update(control, Head(queue)) /\ Merging
        /\ pc \in {"merge", "top", "next", "recipeNext"} /\ UNCHANGED <<pc, main, local, cycle>>
    BY <1>1 DEF Merge, MergeWrite, Merging, TypeOK, thread
  <2>2. Requested(control) => Requested(control')
    BY <2>1, MergeNoticed DEF Requested, AtRest, TypeOK
  <2> QED BY <2>1, <2>2 DEF RestInv
<1>2. CASE Client \/ ToggleSwitch
  BY <1>2 DEF Client, execute, ToggleSwitch, store, thread, RestInv, Requested, AtRest, Woken
<1>3. CASE Hang \/ Resume \/ Exception \/ Restart
  BY <1>3 DEF Hang, Resume, Exception, Restart, store, RestInv, Requested, AtRest, Woken
<1>4. CASE HeartbeatLost
  <2>1. control'.mode = "Error" /\ pc' \in {"boot", "dead"}
    BY <1>4 DEF HeartbeatLost, TypeOK, Control, Recovers, Hangs
  <2> QED BY <2>1 DEF RestInv, AtRest, Woken
<1>5. CASE RedisRestart
  BY <1>5 DEF RedisRestart, Recovers
<1> QED BY <1>1, <1>2, <1>3, <1>4, <1>5

LEMMA HangsStep == Hangs /\ [Next]_vars => Hangs'
<1> SUFFICES ASSUME Hangs, [Next]_vars, pc' = "hung" PROVE "hang" \in Failures
  BY DEF Hangs
<1>1. pc = "hung" \/ Hang
  BY DEF Next, Boot, CheckSwitch, Merge, MainLoop, Dispatch, EnterMode, FinishStop, StartCycle,
         IterationTop, IterationBottom, Cleanup, NextMode, AfterPriming, RecipeBegin, RunStep,
         RecipeNext, RecipeResume, EndRecipe, Call, Client, ToggleSwitch, Resume, Exception,
         HeartbeatLost, Restart, RedisRestart, thread, vars
<1> QED BY <1>1 DEF Hangs, Hang

\* No timer, notification, safety check, recipe, end of a cycle or crash takes the
\* grill out of a Stop or an Error: only a request that a client queued does, while
\* the shared store keeps its contents, a hung process is really reset and the
\* appliance is not set to boot into Monitor.
THEOREM RestEnds ==
    ASSUME ~BootToMonitor, Recovers
    PROVE  Spec => RestEndsOnRequest
<1>1. Init => RestInv /\ Hangs
  BY DEF Init, RestInv, Hangs
<1>2. TypeOK /\ RestInv /\ Hangs /\ Next => RestInv' /\ (Woken => Merging)
  BY RestMain, RestRecipe, RestCycle, RestOutside DEF Next
<1>3. TypeOK /\ RestInv /\ Hangs /\ [Next]_vars => RestInv' /\ Hangs'
  <2>1. RestInv /\ UNCHANGED vars => RestInv'
    BY DEF RestInv, Requested, AtRest, vars
  <2> QED BY <1>2, <2>1, HangsStep
<1>4. TypeOK /\ RestInv /\ Hangs /\ [Next]_vars
        => [control.mode \in {"Stop", "Error"} /\ control'.mode \notin {"Stop", "Error"}
              => Merging]_vars
  BY <1>2 DEF Woken, AtRest
<1> QED BY <1>1, <1>3, <1>4, TypeCorrect, PTL DEF Spec, RestEndsOnRequest

-----------------------------------------------------------------------------
(* Reignite returns.  The mode to return to is written into the store's     *)
(* structure by the cycle that finds the fire out, crosses the clean-up,    *)
(* the merges and the notifications there, and is read by main(), whose own *)
(* dictionary still says which mode the grill was in.  A client that asks   *)
(* for Reignite itself, or arms a limit that does, writes no mode to return *)
(* to or another one, and is left out: a run shows where that ends.         *)

\* The patches of clients that leave Reignite to the control process.
Leaves(p) ==
    /\ ~(p.kind = "mode" /\ p.mode = "Reignite")
    /\ p.kind = "notify" => \A i \in Item : ~p.notify[i].reignite
Left == {p \in Patch : Leaves(p)}

\* The fire is lit as far as main() knows.
Burns == main.mode \in {"Smoke", "Hold"}

\* What main() has called.
Called ==
    /\ caller = "mode" => main.mode = cycle
    /\ caller = "prime" => main.mode = "Prime"
    /\ caller \notin {"mode", "prime"} => main.mode = "Recipe"

ReigniteInv ==
    /\ queue \in Seq(Left)
    /\ Plain(control) /\ Plain(local) /\ Plain(main)
    /\ pc = "stopping" => AtRest(main)
    /\ control.critical_error => pc \in {"boot", "dead"}
    /\ ~main.critical_error
    /\ pc \in {"bottom", "hung", "cleanup", "recipeStep"} => ~local.critical_error
    /\ pc \in {"start"} \cup InCycle => Called
    /\ pc = "primed" => ~Burns
    /\ pc \in {"recipe", "recipeStep", "recipeNext", "recipeResume"} => main.mode = "Recipe"
    /\ Burns /\ control.mode = "Reignite"
          => control.updated /\ control.reignitelaststate = main.mode
    /\ Burns /\ pc \in {"bottom", "hung"} => local.mode # "Reignite"

\* A step of main() from a burning fire into a reignition.
Relit == Burns /\ main'.mode = "Reignite"
Returns == Relit => main'.next_mode = main.mode

LEMMA DefaultPlain ==
    /\ Plain(default_control) /\ ~default_control.critical_error
    /\ default_control.mode = "Stop" /\ default_control.updated
BY DEF default_control, Plain, Disarmed

LEMMA ReigniteMain ==
    ASSUME TypeOK, ReigniteInv, Boot \/ CheckSwitch \/ FinishStop \/ NextMode \/ AfterPriming
    PROVE  ReigniteInv' /\ Returns
<1>1. CASE Boot
  <2>1. PICK c \in Control : /\ Plain(c) /\ ~c.critical_error /\ c.mode \in {"Stop", "Monitor"}
                             /\ control' = c /\ main' = Kept(c) /\ queue' = <<>>
    <3>1. /\ [default_control EXCEPT !.mode = "Monitor"] \in Control
          /\ Plain([default_control EXCEPT !.mode = "Monitor"])
          /\ ~[default_control EXCEPT !.mode = "Monitor"].critical_error
          /\ [default_control EXCEPT !.mode = "Monitor"].mode = "Monitor"
      BY DefaultControlType, DefaultPlain DEF Control, Mode, Plain
    <3>2. \/ /\ control' = [default_control EXCEPT !.mode = "Monitor"]
             /\ main' = Kept([default_control EXCEPT !.mode = "Monitor"]) /\ queue' = <<>>
          \/ control' = default_control /\ main' = Kept(default_control) /\ queue' = <<>>
      BY <1>1 DEF Boot, flush_control
    <3> QED BY <3>1, <3>2, DefaultControlType, DefaultPlain
  <2>2. pc' = "main" /\ local' = default_control
    BY <1>1 DEF Boot
  <2>3. Plain(main') /\ main'.mode \in {"Stop", "Monitor"} /\ ~main'.critical_error
    BY <2>1, KeptPlain
  <2> QED BY <2>1, <2>2, <2>3, DefaultPlain DEF ReigniteInv, InCycle, Burns, Returns, Relit
<1>2. CASE CheckSwitch
  <2> DEFINE off == [main EXCEPT !.updated = TRUE, !.mode = "Stop"]
  <2>0. main \in Control /\ Plain(main) /\ ~main.critical_error /\ Plain(control) /\ Plain(local)
            /\ queue \in Seq(Left)
    BY <1>2 DEF TypeOK, ReigniteInv
  <2>1. Plain(off) /\ off.mode = "Stop" /\ ~off.critical_error
    BY <2>0 DEF Control, Plain
  <2> HIDE DEF off
  <2>2. /\ pc = "main" /\ pc' = "merge" /\ UNCHANGED <<queue, local>>
        /\ \/ UNCHANGED <<main, control>>
           \/ main' = off /\ control' = off
    BY <1>2 DEF CheckSwitch, off
  <2> QED BY <2>0, <2>1, <2>2 DEF ReigniteInv, InCycle, Burns, Returns, Relit
<1>3. CASE FinishStop
  <2> DEFINE c == [default_control EXCEPT !.mode = main.mode, !.updated = FALSE]
             e == [c EXCEPT !.status = "inactive"]
  <2>1. AtRest(main) /\ pc = "stopping"
    BY <1>3 DEF FinishStop, ReigniteInv
  <2>2. /\ c \in Control /\ Plain(c) /\ ~c.critical_error /\ AtRest(c)
        /\ e \in Control /\ Plain(e) /\ ~e.critical_error /\ AtRest(e)
    BY ZenonT(40), <2>1, DefaultControlType, DefaultPlain DEF Control, Mode, Plain, AtRest
  <2> HIDE DEF c, e
  <2>3. \/ control' = c /\ main' = Kept(c) /\ queue' = <<>>
        \/ control' = e /\ main' = Kept(e) /\ queue' = queue
    BY <1>3 DEF FinishStop, flush_control, c, e
  <2>4. pc' = "main" /\ local' = local
    BY <1>3 DEF FinishStop
  <2>5. Plain(main') /\ AtRest(main') /\ ~main'.critical_error
    BY <2>2, <2>3, KeptPlain DEF AtRest
  <2>6. queue' \in Seq(Left) /\ Plain(local')
    <3>1. queue \in Seq(Left) /\ Plain(local) /\ queue' \in {queue, <<>>}
      BY <2>3 DEF ReigniteInv
    <3>2. CASE queue' = <<>>
      BY <2>4, <3>1, <3>2
    <3>3. CASE queue' = queue
      BY <2>4, <3>1, <3>3
    <3> QED BY <3>1, <3>2, <3>3
  <2> QED BY <2>1, <2>2, <2>3, <2>4, <2>5, <2>6
          DEF ReigniteInv, InCycle, Burns, Returns, Relit, AtRest
<1>4. CASE NextMode
  <2>1. /\ pc = "next" /\ pc' = "main" /\ UNCHANGED <<main, local, queue>>
        /\ control' = Following(control) /\ control \in Control
    BY <1>4 DEF NextMode, TypeOK
  <2>2. \/ control' = control
        \/ /\ control'.mode = main.next_mode /\ Plain(control')
           /\ control'.critical_error = control.critical_error
    BY <2>1 DEF Following, Control, Plain, ReigniteInv
  <2>3. main.next_mode # "Reignite"
    BY DEF ReigniteInv, Plain
  <2> QED BY <2>1, <2>2, <2>3 DEF ReigniteInv, InCycle, Burns, Returns, Relit
<1>5. CASE AfterPriming
  <2> DEFINE begun == [control EXCEPT !.updated = FALSE, !.mode = "Startup",
                                      !.next_mode = AfterStartup]
  <2>1. pc = "primed" /\ ~Burns /\ UNCHANGED <<local, queue>> /\ control \in Control
        /\ Plain(control) /\ ~control.critical_error
    BY <1>5 DEF AfterPriming, ReigniteInv, TypeOK
  <2>2. begun \in Control /\ Plain(begun) /\ ~begun.critical_error /\ begun.mode = "Startup"
    BY ZenonT(40), <2>1, GrillControlAssumption DEF Control, Plain, Mode
  <2> HIDE DEF begun
  <2>3. \/ /\ control' = begun /\ main' = Kept(begun)
           /\ pc' = "start" /\ cycle' = "Startup" /\ caller' = "mode"
        \/ /\ control' = control /\ main' = Kept(control) /\ pc' = "main"
           /\ control.mode \notin {"Prime", "Startup"}
    BY <1>5 DEF AfterPriming, Call, begun
  <2>4. ASSUME control' = begun, main' = Kept(begun), pc' = "start", cycle' = "Startup",
               caller' = "mode"
        PROVE  ReigniteInv' /\ Returns
    <3>1. Plain(main') /\ main'.mode = "Startup" /\ ~main'.critical_error
      BY <2>2, <2>4, KeptPlain
    <3> QED BY <2>1, <2>2, <2>4, <3>1 DEF ReigniteInv, InCycle, Called, Burns, Returns, Relit
  <2>5. ASSUME control' = control, main' = Kept(control), pc' = "main"
        PROVE  ReigniteInv' /\ Returns
    <3>1. Plain(main') /\ main'.mode = control.mode /\ ~main'.critical_error
      BY <2>1, <2>5, KeptPlain
    <3> QED BY <2>1, <2>5, <3>1 DEF ReigniteInv, InCycle, Burns, Returns, Relit
  <2> QED BY <2>3, <2>4, <2>5
<1> QED BY <1>1, <1>2, <1>3, <1>4, <1>5

\* main() takes up a reignition: only a pending one, and the store says from where.
LEMMA ReigniteMainLoop ==
    ASSUME TypeOK, ReigniteInv, MainLoop
    PROVE  ReigniteInv' /\ Returns
<1>1. PICK d \in Control :
              /\ Noticed(d, control)
              /\ \/ pc' \in {"dead", "boot"} /\ UNCHANGED <<control, main>>
                 \/ /\ main' = Kept(d) /\ control' = d /\ pc' = "main"
                    /\ ~d.updated \/ d.critical_error
                 \/ \E c, stored \in Control :
                       /\ d.updated /\ ~c.critical_error /\ ~stored.critical_error
                       /\ EnterMode(c, stored)
                       /\ c.mode = "Stop" \/ c.mode = d.mode
                       /\ AtRest(c) \/ stored.mode = c.mode
                       /\ stored.mode \in {c.mode, d.mode}
                       /\ c.reignitelaststate = d.reignitelaststate
                       /\ Plain(d) => Plain(c) /\ Plain(stored)
  BY MainLoopCases
<1>2. /\ pc = "merge" /\ UNCHANGED <<queue, local>> /\ Plain(control) /\ ~control.critical_error
      /\ Plain(local) /\ queue \in Seq(Left)
      /\ Burns /\ control.mode = "Reignite"
            => control.updated /\ control.reignitelaststate = main.mode
  BY DEF MainLoop, ReigniteInv
<1>3. /\ Plain(d) /\ ~d.critical_error /\ d.reignitelaststate = control.reignitelaststate
      /\ d.mode = "Reignite" => control.mode = "Reignite"
      /\ control.updated => d.updated
  BY <1>1, <1>2 DEF Noticed
<1>4. ASSUME pc' \in {"dead", "boot"}, UNCHANGED <<control, main>> PROVE ReigniteInv' /\ Returns
  BY <1>2, <1>4 DEF ReigniteInv, InCycle, Burns, Returns, Relit
<1>5. ASSUME main' = Kept(d), control' = d, pc' = "main", ~d.updated \/ d.critical_error
      PROVE  ReigniteInv' /\ Returns
  <2>1. Plain(main') /\ main'.mode = d.mode /\ ~main'.critical_error
    BY <1>3, <1>5, KeptPlain
  <2> QED BY <1>2, <1>3, <1>5, <2>1 DEF ReigniteInv, InCycle, Burns, Returns, Relit
<1>6. ASSUME NEW c \in Control, NEW stored \in Control,
             ~c.critical_error, ~stored.critical_error, EnterMode(c, stored),
             c.mode = "Stop" \/ c.mode = d.mode, AtRest(c) \/ stored.mode = c.mode,
             c.reignitelaststate = d.reignitelaststate, Plain(c), Plain(stored)
      PROVE  ReigniteInv' /\ Returns
  <2>1. /\ \/ pc' = "stopping" /\ AtRest(c) /\ main'.mode = c.mode /\ control' = stored
           \/ pc' = "recipe" /\ c.mode = "Recipe" /\ main'.mode = c.mode /\ control' = stored
           \/ /\ pc' = "start" /\ ~AtRest(c) /\ caller' = "mode"
              /\ main'.mode = c.mode /\ control'.mode = c.mode /\ cycle' = c.mode
           \/ /\ pc' = "start" /\ ~AtRest(c) /\ caller' = "prime"
              /\ main'.mode = "Prime" /\ control'.mode = "Prime"
        /\ main'.mode = "Reignite" => main'.next_mode = c.reignitelaststate
        /\ ~control'.critical_error /\ ~main'.critical_error
        /\ Plain(control') /\ Plain(main')
    BY <1>6, EnterModeCases
  <2>2. Returns
    <3> SUFFICES ASSUME Burns, main'.mode = "Reignite" PROVE main'.next_mode = main.mode
      BY DEF Returns, Relit
    <3>1. c.mode = "Reignite"
      BY <2>1 DEF AtRest
    <3> QED BY <1>2, <1>3, <1>6, <2>1, <3>1
  <2>3. ASSUME Burns' PROVE control'.mode # "Reignite"
    BY <2>1, <2>3 DEF Burns, AtRest
  <2>4. pc' = "start" => Called'
    BY <2>1 DEF Called
  <2>5. pc' \in {"stopping", "recipe", "start"}
    BY <2>1
  <2>6. (pc' = "stopping" => AtRest(main)') /\ (pc' = "recipe" => main'.mode = "Recipe")
    BY <2>1 DEF AtRest
  <2>7. queue' \in Seq(Left) /\ Plain(local')
    BY <1>2
  <2> QED BY <2>1, <2>2, <2>3, <2>4, <2>5, <2>6, <2>7 DEF ReigniteInv, InCycle
<1> QED BY <1>1, <1>3, <1>4, <1>5, <1>6

LEMMA ReigniteRecipe ==
    ASSUME TypeOK, ReigniteInv, RecipeBegin \/ RunStep \/ RecipeNext \/ RecipeResume
    PROVE  ReigniteInv' /\ Returns
<1>1. /\ main.mode = "Recipe" /\ UNCHANGED <<main, queue>> /\ Plain(main) /\ queue \in Seq(Left)
      /\ ~main.critical_error /\ control \in Control /\ Plain(control) /\ ~control.critical_error
      /\ local \in Control /\ Plain(local)
      /\ pc = "recipeStep" => ~local.critical_error
  BY DEF RecipeBegin, RunStep, RecipeNext, RecipeResume, TypeOK, ReigniteInv, store
<1>2. Returns
  BY <1>1 DEF Returns, Relit, Burns
<1>3. ASSUME /\ pc' \in {"main", "recipeStep", "dead"}
                \/ (pc' = "start" /\ caller' \notin {"mode", "prime"}),
             Plain(control'), ~control'.critical_error, Plain(local'),
             pc' = "recipeStep" => ~local'.critical_error
      PROVE  ReigniteInv'
  BY <1>1, <1>3 DEF ReigniteInv, InCycle, Called, Burns
<1>4. ASSUME NEW c \in Control, Plain(c), ~c.critical_error, EndRecipe(c) PROVE ReigniteInv'
  <2>1. Plain(RecipeOver(c)) /\ ~RecipeOver(c).critical_error
    BY <1>4 DEF RecipeOver, Control, Plain
  <2> QED BY <1>3, <1>4, <2>1, DefaultPlain DEF EndRecipe
<1>5. CASE RecipeBegin
  BY <1>1, <1>2, <1>3, <1>5 DEF RecipeBegin, store
<1>6. CASE RunStep
  <2> DEFINE begun == [local EXCEPT !.triggered = FALSE, !.pause = RecipeSteps[step].pause,
                           !.primary_setpoint = RecipeSteps[step].hold_temp,
                           !.updated = FALSE]
  <2>1. pc = "recipeStep" /\ Plain(begun) /\ ~begun.critical_error
    BY <1>1, <1>6 DEF RunStep, Control, Plain
  <2>2. \/ EndRecipe(local)
        \/ /\ local' = begun /\ control' = begun /\ pc' = "start" /\ caller' = "recipe"
    BY <1>6 DEF RunStep, Call
  <2> HIDE DEF begun
  <2> QED BY <1>1, <1>2, <1>3, <1>4, <2>1, <2>2
<1>7. CASE RecipeNext
  <2> DEFINE again == [control EXCEPT !.updated = FALSE, !.mode = "Recipe"]
  <2>1. Plain(again) /\ ~again.critical_error
    BY <1>1 DEF Control, Plain
  <2>2. \/ EndRecipe(control)
        \/ /\ local' = again /\ control' = again /\ pc' = "start" /\ caller' = "recipeReignite"
        \/ local' = control /\ control' = control /\ pc' = "recipeStep"
    BY <1>7 DEF RecipeNext, Call
  <2> HIDE DEF again
  <2> QED BY <1>1, <1>2, <1>3, <1>4, <2>1, <2>2
<1>8. CASE RecipeResume
  <2>1. EndRecipe(control) \/ (local' = local /\ control' = control /\ pc' = "dead")
    BY <1>8 DEF RecipeResume
  <2> QED BY <1>1, <1>2, <1>3, <1>4, <2>1
<1> QED BY <1>5, <1>6, <1>7, <1>8

LEMMA ReigniteCycle ==
    ASSUME TypeOK, ReigniteInv, StartCycle \/ IterationTop \/ IterationBottom \/ Cleanup
    PROVE  ReigniteInv' /\ Returns
<1>0. /\ pc \in {"start"} \cup InCycle /\ Called /\ UNCHANGED <<main, queue, cycle, caller>>
      /\ Plain(main) /\ Plain(control) /\ Plain(local) /\ queue \in Seq(Left)
      /\ ~control.critical_error /\ ~main.critical_error /\ Called'
  BY DEF StartCycle, IterationTop, IterationBottom, Cleanup, ReigniteInv, InCycle, Called
<1>1. /\ Returns
      /\ Burns => main.mode = cycle
      /\ Burns' <=> Burns
  BY <1>0, SMTT(30) DEF Called, Burns, Returns, Relit
<1>2. CASE StartCycle
  <2>1. /\ pc' \in {"top", "cleanup"} /\ Plain(control') /\ ~control'.critical_error
        /\ local' \in {control', default_control}
    BY <1>0, <1>2, StartCases
  <2>2. Burns /\ control'.mode = "Reignite"
          => control'.updated /\ control'.reignitelaststate = main.mode
    BY <1>0, <1>1, <1>2, StartCases DEF ReigniteInv
  <2> QED BY <1>0, <1>1, <2>1, <2>2, DefaultPlain DEF ReigniteInv, InCycle
<1>3. CASE IterationTop
  <2>1. /\ pc' \in {"cleanup", "bottom"} /\ Plain(control') /\ ~control'.critical_error
        /\ local' = control'
    BY <1>0, <1>3, TopCases
  <2>2. Burns /\ control'.mode = "Reignite"
          => control'.updated /\ control'.reignitelaststate = main.mode
    BY <1>0, <1>1, <1>3, TopCases DEF ReigniteInv
  <2>3. Burns /\ pc' = "bottom" => control'.mode # "Reignite"
    BY <1>0, <1>1, <1>3, TopCases DEF ReigniteInv
  <2> QED BY <1>0, <1>1, <2>1, <2>2, <2>3 DEF ReigniteInv, InCycle
<1>4. CASE IterationBottom
  <2>1. /\ pc = "bottom" /\ local \in Control /\ ~local.critical_error
        /\ Burns => local.mode # "Reignite"
    BY <1>4 DEF IterationBottom, TypeOK, ReigniteInv
  <2>2. PICK n \in Control :
              /\ Noticed(n, local) /\ (~NotifyWrites(local) => n = local)
              /\ \/ /\ cycle \in {"Smoke", "Hold"} /\ pc' = "cleanup"
                    /\ control' = Flameout(n) /\ local' = control'
                 \/ /\ cycle \notin {"Smoke", "Hold"} /\ pc' = "cleanup" /\ local' = n
                    /\ control' = IF NotifyWrites(local) THEN n ELSE control
                 \/ /\ pc' = "cleanup" /\ local' = control'
                    /\ control' = [n EXCEPT !.mode = "Error", !.updated = TRUE]
                 \/ /\ StepOver(n) /\ pc' = "cleanup" /\ local' = n
                    /\ control' = IF NotifyWrites(local) THEN n ELSE control
                 \/ /\ pc' = "top" /\ local' = default_control
                    /\ control' = IF NotifyWrites(local) THEN n ELSE control
    BY <1>4, BottomCases
  <2>3. Plain(n) /\ ~n.critical_error /\ (Burns => n.mode # "Reignite")
    BY <1>0, <2>1, <2>2 DEF Noticed
  <2> DEFINE hot == [n EXCEPT !.mode = "Error", !.updated = TRUE]
  <2>4. Plain(hot) /\ ~hot.critical_error /\ hot.mode = "Error"
    BY <2>3 DEF Control, Plain
  <2>5. ASSUME cycle \in {"Smoke", "Hold"}
        PROVE  /\ Plain(Flameout(n)) /\ ~Flameout(n).critical_error /\ Flameout(n).updated
               /\ Flameout(n).mode = "Reignite" => Flameout(n).reignitelaststate = cycle
    BY <2>3, <2>5 DEF Flameout, Control, Plain
  <2> HIDE DEF hot
  <2>6. \/ cycle \in {"Smoke", "Hold"} /\ pc' = "cleanup" /\ control' = Flameout(n)
            /\ local' = control'
        \/ pc' = "cleanup" /\ local' = n /\ control' \in {n, control}
        \/ pc' = "cleanup" /\ local' = hot /\ control' = hot
        \/ pc' = "top" /\ local' = default_control /\ control' \in {n, control}
    BY <2>2 DEF hot
  <2>7. pc' \in {"cleanup", "top"} /\ Plain(control') /\ ~control'.critical_error /\ Plain(local')
        /\ ~local'.critical_error
    BY <1>0, <2>3, <2>4, <2>5, <2>6, DefaultPlain
  <2>8. Burns /\ control'.mode = "Reignite"
          => control'.updated /\ control'.reignitelaststate = main.mode
    BY <1>0, <1>1, <2>3, <2>4, <2>5, <2>6 DEF ReigniteInv
  <2> QED BY <1>0, <1>1, <2>7, <2>8 DEF ReigniteInv, InCycle
<1>5. CASE Cleanup
  <2> DEFINE done == [local EXCEPT !.afterstarttemp = ptemp]
  <2>1. pc = "cleanup" /\ ~local.critical_error /\ local \in Control
    BY <1>5 DEF Cleanup, ReigniteInv, TypeOK
  <2>2. Plain(done) /\ ~done.critical_error
    BY <1>0, <2>1 DEF Control, Plain
  <2> HIDE DEF done
  <2>3. /\ pc' = CASE caller = "prime" -> "primed"
                   [] caller = "recipe" -> "recipeNext"
                   [] caller = "recipeReignite" -> "recipeResume"
                   [] OTHER -> IF cycle \in {"Monitor", "Manual"} THEN "main" ELSE "next"
        /\ control' = IF cycle \in {"Startup", "Reignite"} THEN done ELSE control
        /\ local' = default_control
    BY <1>5 DEF Cleanup, done
  <2>4. Plain(control') /\ ~control'.critical_error
    BY <1>0, <2>2, <2>3
  <2>5. Burns => control' = control
    BY <1>0, <1>1, <2>3 DEF Burns
  <2>6. /\ pc' \in {"primed", "recipeNext", "recipeResume", "main", "next"}
        /\ pc' = "primed" => caller = "prime"
        /\ pc' \in {"recipeNext", "recipeResume"} => caller \in {"recipe", "recipeReignite"}
    BY <2>3
  <2>7. /\ pc' = "primed" => ~Burns
        /\ pc' \in {"recipeNext", "recipeResume"} => main.mode = "Recipe"
    BY <1>0, <2>6 DEF Called, Burns
  <2> QED BY <1>0, <1>1, <2>3, <2>4, <2>5, <2>6, <2>7, DefaultPlain DEF ReigniteInv, InCycle
<1> QED BY <1>2, <1>3, <1>4, <1>5

\* What may be asked, and a reset that works if the process may hang.
Unasked ==
    /\ \A cmd \in ClientCommands :
          /\ ~(cmd.kind = "mode" /\ cmd.mode = "Reignite")
          /\ cmd.kind = "notify.set" => ~cmd.entry.reignite
    /\ "hang" \in Failures => RestartWorks

LEMMA ReigniteOutside ==
    ASSUME Unasked, Hangs, TypeOK, ReigniteInv,
           \/ Merge \/ Client \/ ToggleSwitch \/ Hang \/ Resume \/ Exception
           \/ HeartbeatLost \/ Restart \/ RedisRestart
    PROVE  ReigniteInv' /\ Returns
<1> USE DEF InCycle, Burns, Returns, Relit
<1>1. CASE Merge
  <2>1. /\ Head(queue) \in Left /\ queue' \in Seq(Left) /\ control \in Control
        /\ control' = deep_update(control, Head(queue))
        /\ pc \in {"merge", "top", "next", "recipeNext"}
        /\ UNCHANGED <<pc, cycle, caller, main, local>>
    BY <1>1 DEF Merge, MergeWrite, TypeOK, ReigniteInv, thread
  <2>2. Head(queue) \in Patch /\ Leaves(Head(queue)) /\ Plain(control) /\ ~control.critical_error
    BY <2>1 DEF Left, ReigniteInv
  <2>3. /\ control.updated => control'.updated
        /\ ~control'.critical_error
        /\ control'.reignitelaststate = control.reignitelaststate
        /\ control'.mode = "Reignite" => control.mode = "Reignite"
        /\ Plain(control')
    BY <2>1, <2>2, MergeNoticed DEF Plain, Leaves
  <2> QED BY <2>1, <2>3 DEF ReigniteInv, Called
<1>2. CASE Client
  <2>1. PICK cmd \in ClientCommands : queue' = Append(queue, PatchOf(cmd))
    BY <1>2 DEF Client, execute
  <2>2. cmd \in Command /\ ~(cmd.kind = "mode" /\ cmd.mode = "Reignite")
        /\ (cmd.kind = "notify.set" => ~cmd.entry.reignite)
    BY ControlStoreAssumption DEF Unasked
  <2>3. PatchOf(cmd) \in Patch
    BY <2>2, PatchOfType DEF TypeOK
  <2>4. Leaves(PatchOf(cmd))
    <3>1. CASE cmd.kind = "notify.set"
      <4>1. cmd \in NotifyCommand
        BY <2>2, <3>1 DEF Command, PlainPatch, ModePatch, HoldPatch, PrimePatch, UnitsPatch,
                          ContinuePatch, ManualPatch
      <4>2. PatchOf(cmd) = [kind |-> "notify",
                            notify |-> [control.notify EXCEPT ![cmd.item] = cmd.entry]]
        BY <3>1 DEF PatchOf
      <4>3. \A i \in Item : ~[control.notify EXCEPT ![cmd.item] = cmd.entry][i].reignite
        BY <2>2, <3>1, <4>1 DEF NotifyCommand, TypeOK, Control, ReigniteInv, Plain
      <4> QED BY <4>2, <4>3 DEF Leaves
    <3>2. CASE cmd.kind # "notify.set"
      <4>1. cmd.kind # "notify"
        BY <2>2, <3>2 DEF Command, PlainPatch, ModePatch, HoldPatch, PrimePatch, UnitsPatch,
                          ContinuePatch, ManualPatch, NotifyCommand
      <4> QED BY <2>2, <3>2, <4>1 DEF PatchOf, Leaves
    <3> QED BY <3>1, <3>2
  <2>5. queue' \in Seq(Left)
    BY <2>1, <2>3, <2>4 DEF ReigniteInv, Left
  <2>6. UNCHANGED <<control, pc, cycle, caller, main, local>>
    BY <1>2 DEF Client, execute, thread
  <2> QED BY <2>5, <2>6 DEF ReigniteInv, Plain, AtRest, Called
<1>3. CASE ToggleSwitch \/ Hang \/ Resume \/ Exception \/ Restart
  <2>1. /\ UNCHANGED <<control, queue, cycle, caller, main, local>>
        /\ \/ pc' = pc \/ pc' \in {"dead", "boot"}
           \/ pc = "bottom" /\ pc' = "hung"
           \/ pc = "hung" /\ pc' = "bottom"
    BY <1>3 DEF ToggleSwitch, Hang, Resume, Exception, Restart, store, thread
  <2> QED BY <2>1 DEF ReigniteInv, Plain, AtRest, Called
<1>4. CASE HeartbeatLost
  <2>1. /\ control'.mode = "Error" /\ Plain(control')
        /\ pc' \in {"boot", "dead"} /\ UNCHANGED <<queue, main, local>>
    BY <1>4 DEF HeartbeatLost, TypeOK, Control, Unasked, Hangs, ReigniteInv, Plain
  <2> QED BY <2>1 DEF ReigniteInv, Plain
<1>5. CASE RedisRestart
  <2>1. control' = default_control /\ queue' = <<>> /\ UNCHANGED <<pc, cycle, caller, main, local>>
    BY <1>5 DEF RedisRestart, flush_control, thread
  <2> QED BY <2>1, DefaultPlain DEF ReigniteInv, Plain, AtRest, Called
<1> QED BY <1>1, <1>2, <1>3, <1>4, <1>5

\* A grill that loses its fire in Smoke or Hold, and is lit again by the control
\* process, goes back to that mode: through the clean-up, whatever clients have queued
\* meanwhile, notifications, crashes and a store that loses everything.
THEOREM ReigniteComesBack ==
    ASSUME Unasked
    PROVE  Spec => ReigniteReturns
<1>1. Init => ReigniteInv /\ Hangs
  BY DefaultPlain DEF Init, ReigniteInv, InCycle, Burns, Hangs
<1>2. TypeOK /\ ReigniteInv /\ Hangs /\ Next => ReigniteInv' /\ Returns
  BY ReigniteMain, ReigniteMainLoop, ReigniteRecipe, ReigniteCycle, ReigniteOutside DEF Next
<1>3. TypeOK /\ ReigniteInv /\ Hangs /\ [Next]_vars => ReigniteInv' /\ Hangs'
  <2>1. ReigniteInv /\ UNCHANGED vars => ReigniteInv'
    BY DEF ReigniteInv, InCycle, Plain, AtRest, Called, Burns, vars
  <2> QED BY <1>2, <2>1, HangsStep
<1>4. TypeOK /\ ReigniteInv /\ Hangs /\ [Next]_vars
        => [main.mode \in {"Smoke", "Hold"} /\ main'.mode = "Reignite"
              => main'.next_mode = main.mode]_vars
  BY <1>2 DEF Returns, Relit, Burns
<1> QED BY <1>1, <1>3, <1>4, TypeCorrect, PTL DEF Spec, ReigniteReturns

=============================================================================
