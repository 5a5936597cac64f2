---------------------------- MODULE Appliance_proofs ----------------------------
(***************************************************************************)
(* Theorems about the parts of the appliance, for every value of their     *)
(* constants.  A behaviour belongs to one part, so an invariant of a part  *)
(* is inductive for the whole: the other parts' steps are not taken.       *)
(***************************************************************************)
EXTENDS Appliance, SequenceTheorems, FiniteSetTheorems, WellFoundedInduction, TLAPS

LEMMA PartsStep ==
    ASSUME [Next]_vars
    PROVE  /\ part' = part
           /\ part = "file" => [File!Next]_File!vars
           /\ part = "flex" => [Flex!Next]_Flex!vars
           /\ part = "settings" => [Settings!Next]_Settings!vars
           /\ part = "update" => [Update!Next]_Update!vars
           /\ part = "legacy" => [Legacy!Next]_Legacy!vars
           /\ part = "pid" => [Pid!Next]_Pid!vars
           /\ part = "work" => [Work!Next]_Work!vars
           /\ part = "ports" => [Ports!Next]_Ports!vars
           /\ part = "archive" => [Archive!Next]_Archive!vars
           /\ part = "alerts" => [Alerts!Next]_Alerts!vars
           /\ part = "flat" => [Flat!Next]_Flat!vars
           /\ part = "wireless" => [Wireless!Next]_Wireless!vars
           /\ part = "telling" => [Telling!Next]_Telling!vars
BY DEF Next, vars, tail5, tail6, tail7, tail8, tail9, File!vars, Flex!vars, Settings!vars,
       Update!vars, Legacy!vars, Pid!vars, Work!vars, Ports!vars, Archive!vars, Alerts!vars,
       Flat!vars, Wireless!vars, Telling!vars

-----------------------------------------------------------------------------
(* The updater.                                                            *)

\* A thread that works on the releases is the one that has the lock.
UpdateInv ==
    /\ Update!TypeOK
    /\ \A t \in UpdateThreads : Update!Working(t) => x7 = t

LEMMA UpdateInit == Update!Init => UpdateInv
BY DEF Update!Init, UpdateInv, Update!TypeOK, Update!Working, Update!Directories, Update!Old,
       Update!Tag, Update!Renamed, Update!Nobody

\* The thread takes the lock only when nobody has it; it is the only one at work
\* until it gives it back.
LEMMA UpdateStep ==
    ASSUME Update!Nobody \notin UpdateThreads, UpdateInv, NEW t \in UpdateThreads,
           Update!Ask(t) \/ Update!Step(t) \/ Update!Fail(t)
    PROVE  UpdateInv'
<1>. USE DEF UpdateInv, Update!TypeOK, Update!Working, Update!At, Update!Goto,
             Update!Directories, Update!Old, Update!Tag, Update!Renamed, Update!Nobody
<1>1. CASE Update!Ask(t)
  BY <1>1 DEF Update!Ask
<1>2. CASE Update!Acquire(t)
  BY <1>2 DEF Update!Acquire
<1>3. CASE Update!Check(t)
  BY <1>3 DEF Update!Check
<1>4. CASE Update!Download(t) \/ Update!Extract(t)
  BY <1>4 DEF Update!Download, Update!Extract
<1>5. CASE Update!Remove(t) \/ Update!Copy(t) \/ Update!Link(t)
  BY <1>5 DEF Update!Remove, Update!Copy, Update!Link
<1>6. CASE Update!Restart(t)
  BY <1>6 DEF Update!Restart
<1>7. CASE Update!CopyFails(t) \/ Update!Finish(t)
  BY <1>7 DEF Update!CopyFails, Update!Finish, Update!Raises
<1>8. CASE Update!Fail(t)
  BY <1>8 DEF Update!Fail, Update!Raises
<1> QED BY <1>1, <1>2, <1>3, <1>4, <1>5, <1>6, <1>7, <1>8 DEF Update!Step

LEMMA UpdateNext ==
    ASSUME Update!Nobody \notin UpdateThreads, UpdateInv, [Update!Next]_Update!vars
    PROVE  UpdateInv'
<1>1. CASE Update!Next
  BY <1>1, UpdateStep DEF Update!Next
<1>2. CASE UNCHANGED Update!vars
  BY <1>2 DEF Update!vars, UpdateInv, Update!TypeOK, Update!Working
<1> QED BY <1>1, <1>2

\* However many requests there are and whatever fails, two of them are never at
\* work on the releases together.
THEOREM UpdatesExclude ==
    ASSUME Update!Nobody \notin UpdateThreads
    PROVE  Spec => []OneUpdateAtATime
<1> DEFINE Inv == In("update", UpdateInv)
<1>1. Init => Inv
  BY UpdateInit DEF Init, In
<1>2. Inv /\ [Next]_vars => Inv'
  BY UpdateNext, PartsStep DEF In
<1>3. Inv => OneUpdateAtATime
  BY DEF In, UpdateInv, OneUpdateAtATime, Update!OneUpdateAtATime
<1> HIDE DEF Inv
<1> QED BY <1>1, <1>2, <1>3, PTL DEF Spec

-----------------------------------------------------------------------------
(* The older API: x1 is control, x2 queue, x3 held, x4 units, x5 manual.   *)

LegacyFields == {"mode", "updated", "setpoint", "next", "s_plus", "target", "req", "timer",
           "after", "change", "output", "hopper_check", "settings_update", "units_change"}

\* What is queued: a whole structure, or what the app changes.
LegacyDocs == Legacy!Control \cup {Legacy!Stop}

\* A write has what its request asks for, and everything else as it was read.
LegacySound(w) ==
    /\ w.doc \in LegacyDocs /\ w.base \in Legacy!Control
    /\ DOMAIN w.asks \subseteq LegacyFields
    /\ \A k \in LegacyFields :
          IF k \in DOMAIN w.asks THEN k \in DOMAIN w.doc /\ w.doc[k] \in w.asks[k]
          ELSE k \notin DOMAIN w.doc \/ w.doc[k] = w.base[k]

LegacyAll(q) == \E S : q \in Seq(S) /\ \A w \in S : LegacySound(w)

LegacyInv ==
    /\ x1 \in Legacy!Control /\ LegacyAll(x2) /\ LegacyAll(x3)
    /\ x4 \in {"F", "C"} /\ x5 \in BOOLEAN

LEMMA LegacyAllOf ==
    ASSUME NEW S, NEW q \in Seq(S), \A w \in S : LegacySound(w)
    PROVE  LegacyAll(q)
BY DEF LegacyAll

LEMMA LegacyAllNone == LegacyAll(<<>>)
<1>1. PICK q : q = <<>>
  OBVIOUS
<1>2. q \in Seq({})
  BY <1>1
<1>3. LegacyAll(q)
  BY <1>2, LegacyAllOf
<1> QED BY Zenon, <1>1, <1>3

LEMMA LegacyAllMore ==
    ASSUME NEW q, LegacyAll(q), NEW w, LegacySound(w)
    PROVE  LegacyAll(Append(q, w))
<1>1. PICK S : q \in Seq(S) /\ \A v \in S : LegacySound(v)
  BY DEF LegacyAll
<1>2. w \in S \cup {w} /\ q \in Seq(S \cup {w})
  BY <1>1
<1>3. Append(q, w) \in Seq(S \cup {w})
  BY <1>2, AppendProperties
<1>4. \A v \in S \cup {w} : LegacySound(v)
  BY <1>1
<1> QED BY <1>3, <1>4 DEF LegacyAll

LEMMA LegacyAllButFirst ==
    ASSUME NEW q, LegacyAll(q), q # <<>>
    PROVE  LegacySound(Head(q)) /\ LegacyAll(Tail(q))
<1>1. PICK S : q \in Seq(S) /\ \A v \in S : LegacySound(v)
  BY DEF LegacyAll
<1>2. Head(q) \in S /\ Tail(q) \in Seq(S)
  BY <1>1, HeadTailProperties
<1> QED BY <1>1, <1>2 DEF LegacyAll

LEMMA LegacyAllOne == ASSUME NEW w, LegacySound(w) PROVE LegacyAll(<<w>>)
<1>1. PICK q : q = <<w>>
  OBVIOUS
<1>2. q \in Seq({w})
  BY <1>1
<1>3. LegacyAll(q)
  BY <1>2, LegacyAllOf
<1> QED BY Zenon, <1>1, <1>3

LEMMA LegacyAllTwo ==
    ASSUME NEW v, LegacySound(v), NEW w, LegacySound(w)
    PROVE  LegacyAll(<<v>> \o <<w>>)
<1>1. PICK q : q = <<v>> \o <<w>>
  OBVIOUS
<1>2. <<v>> \in Seq({v, w}) /\ <<w>> \in Seq({v, w})
  OBVIOUS
<1>3. q \in Seq({v, w})
  BY <1>1, <1>2, ConcatProperties
<1>4. LegacyAll(q)
  BY <1>3, LegacyAllOf
<1> QED BY Zenon, <1>1, <1>4

\* A changed copy of what was read, where the changes are those asked for.
LEMMA LegacySoundCopy ==
    ASSUME NEW c \in Legacy!Control, NEW doc \in Legacy!Control, NEW asks,
           DOMAIN asks \subseteq LegacyFields,
           \A k \in LegacyFields :
              IF k \in DOMAIN asks THEN doc[k] \in asks[k] ELSE doc[k] = c[k]
    PROVE  LegacySound([doc |-> doc, base |-> c, asks |-> asks])
<1>1. DOMAIN doc = LegacyFields
  BY DEF Legacy!Control, LegacyFields
<1> QED BY <1>1 DEF LegacySound, LegacyDocs

LEMMA LegacyMade ==
    ASSUME NEW c \in Legacy!Control, NEW doc \in Legacy!Control, NEW asks,
           DOMAIN asks \subseteq LegacyFields,
           \A k \in LegacyFields :
              IF k \in DOMAIN asks THEN doc[k] \in asks[k] ELSE doc[k] = c[k]
    PROVE  LegacyAll(Legacy!Made(doc, c, asks))
BY LegacySoundCopy, LegacyAllOne DEF Legacy!Made

\* Each handler changes what is asked for and nothing else.
LEMMA LegacyHandlers ==
    ASSUME NEW c \in Legacy!Control, NEW b \in BOOLEAN, NEW t \in {0, 1}
    PROVE  /\ \A m \in {"Stop", "Smoke", "Manual"} : LegacyAll(Legacy!Mode(c, m))
           /\ \A n \in {"Stop", "Startup"} : LegacyAll(Legacy!Prime(c, n))
           /\ LegacyAll(Legacy!Hold(c, t)) /\ LegacyAll(Legacy!SPlus(c, b))
           /\ LegacyAll(Legacy!NotifyReq(c, b)) /\ LegacyAll(Legacy!Target(c, t))
           /\ LegacyAll(Legacy!NotifyRefused(c)) /\ LegacyAll(Legacy!TimerStart(c))
           /\ LegacyAll(Legacy!TimerStop(c)) /\ LegacyAll(Legacy!TimerPause(c))
           /\ LegacyAll(Legacy!TimerAfter(c, b)) /\ LegacyAll(Legacy!Manual(c, b))
           /\ LegacyAll(Legacy!ManualRefused(c)) /\ LegacyAll(Legacy!Hopper(c))
           /\ LegacyAll(Legacy!Units(c))
<1> USE DEF Legacy!Control, Legacy!Modes, LegacyFields
<1>1. ASSUME NEW m \in {"Stop", "Smoke", "Manual"} PROVE LegacyAll(Legacy!Mode(c, m))
  <2>1. ASSUME NEW yes \in BOOLEAN
        PROVE  LegacyAll(Legacy!Made([c EXCEPT !.mode = m, !.updated = yes], c,
                                     [mode |-> {m}, updated |-> {yes}]))
    <3> DEFINE doc == [c EXCEPT !.mode = m, !.updated = yes]
               asks == [mode |-> {m}, updated |-> {yes}]
    <3>1. doc \in Legacy!Control
      BY <2>1
    <3>2. DOMAIN asks = {"mode", "updated"} /\ doc["mode"] \in asks["mode"] /\ doc["updated"] \in asks["updated"]
      BY <2>1
    <3>3. \A k \in LegacyFields \ {"mode", "updated"} : doc[k] = c[k]
      OBVIOUS
    <3> HIDE DEF doc, asks
    <3>4. LegacyAll(Legacy!Made(doc, c, asks))
      BY <3>1, <3>2, <3>3, LegacyMade
    <3> QED BY <3>4 DEF doc, asks
  <2> QED BY Zenon, <2>1 DEF Legacy!Mode
<1>2. ASSUME NEW n \in {"Stop", "Startup"} PROVE LegacyAll(Legacy!Prime(c, n))
  <2>1. ASSUME NEW yes \in BOOLEAN
        PROVE  LegacyAll(Legacy!Made([c EXCEPT !.mode = "Prime", !.next = n, !.updated = yes], c,
                                     [mode |-> {"Prime"}, next |-> {n}, updated |-> {yes}]))
    <3> DEFINE doc == [c EXCEPT !.mode = "Prime", !.next = n, !.updated = yes]
               asks == [mode |-> {"Prime"}, next |-> {n}, updated |-> {yes}]
    <3>1. doc \in Legacy!Control
      BY <2>1
    <3>2. DOMAIN asks = {"mode", "next", "updated"} /\ doc["mode"] \in asks["mode"] /\ doc["next"] \in asks["next"] /\ doc["updated"] \in asks["updated"]
      BY <2>1
    <3>3. \A k \in LegacyFields \ {"mode", "next", "updated"} : doc[k] = c[k]
      OBVIOUS
    <3> HIDE DEF doc, asks
    <3>4. LegacyAll(Legacy!Made(doc, c, asks))
      BY <3>1, <3>2, <3>3, LegacyMade
    <3> QED BY <3>4 DEF doc, asks
  <2> QED BY Zenon, <2>1 DEF Legacy!Prime
<1>3. LegacyAll(Legacy!Hold(c, t))
  <2>1. ASSUME NEW yes \in BOOLEAN
        PROVE  LegacyAll(Legacy!Made([c EXCEPT !.mode = "Hold", !.setpoint = t, !.updated = yes], c,
                                     [mode |-> {"Hold"}, setpoint |-> {t}, updated |-> {yes}]))
    <3> DEFINE doc == [c EXCEPT !.mode = "Hold", !.setpoint = t, !.updated = yes]
               asks == [mode |-> {"Hold"}, setpoint |-> {t}, updated |-> {yes}]
    <3>1. doc \in Legacy!Control
      BY <2>1
    <3>2. DOMAIN asks = {"mode", "setpoint", "updated"} /\ doc["mode"] \in asks["mode"] /\ doc["setpoint"] \in asks["setpoint"] /\ doc["updated"] \in asks["updated"]
      BY <2>1
    <3>3. \A k \in LegacyFields \ {"mode", "setpoint", "updated"} : doc[k] = c[k]
      OBVIOUS
    <3> HIDE DEF doc, asks
    <3>4. LegacyAll(Legacy!Made(doc, c, asks))
      BY <3>1, <3>2, <3>3, LegacyMade
    <3> QED BY <3>4 DEF doc, asks
  <2> QED BY Zenon, <2>1 DEF Legacy!Hold
<1>4. LegacyAll(Legacy!NotifyReq(c, b)) /\ LegacyAll(Legacy!NotifyRefused(c))
      /\ LegacyAll(Legacy!SPlus(c, b))
  BY LegacyMade DEF Legacy!NotifyReq, Legacy!NotifyRefused, Legacy!Nothing, Legacy!SPlus
<1>5. LegacyAll(Legacy!Target(c, t))
  BY LegacyMade DEF Legacy!Target
<1>6. LegacyAll(Legacy!TimerStart(c)) /\ LegacyAll(Legacy!TimerAfter(c, b))
  BY LegacyMade DEF Legacy!TimerStart, Legacy!TimerAfter
<1>7. LegacyAll(Legacy!TimerStop(c)) /\ LegacyAll(Legacy!TimerPause(c))
  <2>1. ASSUME NEW no \in BOOLEAN
        PROVE  LegacyAll(Legacy!Made([c EXCEPT !.timer = "off", !.after = no], c,
                                     [timer |-> {"off"}, after |-> {no}]))
    <3> DEFINE doc == [c EXCEPT !.timer = "off", !.after = no]
               asks == [timer |-> {"off"}, after |-> {no}]
    <3>1. doc \in Legacy!Control
      BY <2>1
    <3>2. DOMAIN asks = {"timer", "after"} /\ doc["timer"] \in asks["timer"] /\ doc["after"] \in asks["after"]
      BY <2>1
    <3>3. \A k \in LegacyFields \ {"timer", "after"} : doc[k] = c[k]
      OBVIOUS
    <3> HIDE DEF doc, asks
    <3>4. LegacyAll(Legacy!Made(doc, c, asks))
      BY <3>1, <3>2, <3>3, LegacyMade
    <3> QED BY <3>4 DEF doc, asks
  <2>2. LegacyAll(Legacy!TimerStop(c))
    BY Zenon, <2>1 DEF Legacy!TimerStop
  <2>3. LegacyAll(Legacy!Made([c EXCEPT !.timer = "paused"], c, [timer |-> {"paused"}]))
    BY LegacyMade
  <2> QED BY <2>2, <2>3 DEF Legacy!TimerPause
<1>8. LegacyAll(Legacy!Manual(c, b))
  <2>1. LegacyAll(Legacy!Made([c EXCEPT !.change = "fan", !.output = b], c,
                              [change |-> {"fan"}, output |-> {b}]))
    <3> DEFINE doc == [c EXCEPT !.change = "fan", !.output = b]
               asks == [change |-> {"fan"}, output |-> {b}]
    <3>1. doc \in Legacy!Control
      OBVIOUS
    <3>2. DOMAIN asks = {"change", "output"} /\ doc["change"] \in asks["change"] /\ doc["output"] \in asks["output"]
      OBVIOUS
    <3>3. \A k \in LegacyFields \ {"change", "output"} : doc[k] = c[k]
      OBVIOUS
    <3> HIDE DEF doc, asks
    <3>4. LegacyAll(Legacy!Made(doc, c, asks))
      BY <3>1, <3>2, <3>3, LegacyMade
    <3> QED BY <3>4 DEF doc, asks
  <2> QED BY <2>1, LegacyAllNone DEF Legacy!Manual
<1>9. LegacyAll(Legacy!ManualRefused(c))
  <2>1. LegacyAll(Legacy!Made(c, c, Legacy!Nothing))
    BY LegacyMade DEF Legacy!Nothing
  <2> QED BY <2>1, LegacyAllNone DEF Legacy!ManualRefused
<1>10. LegacyAll(Legacy!Hopper(c))
  <2>1. ASSUME NEW yes \in BOOLEAN
        PROVE  LegacyAll(Legacy!Made([c EXCEPT !.hopper_check = yes], c, [hopper_check |-> {yes}]))
    BY <2>1, LegacyMade
  <2> QED BY Zenon, <2>1 DEF Legacy!Hopper
<1>11. LegacyAll(Legacy!Units(c))
  <2> DEFINE once(yes) == [c EXCEPT !.settings_update = yes]
             twice(yes) == [once(yes) EXCEPT !.updated = yes, !.units_change = yes]
             first(yes) == [doc |-> once(yes), base |-> c, asks |-> [settings_update |-> {yes}]]
             second(yes) == [doc |-> twice(yes), base |-> c,
                             asks |-> [settings_update |-> {yes}, updated |-> {yes},
                                       units_change |-> {yes}]]
  <2>1. ASSUME NEW yes \in BOOLEAN PROVE LegacySound(first(yes))
    BY <2>1, LegacySoundCopy
  <2>2. ASSUME NEW yes \in BOOLEAN PROVE LegacySound(second(yes))
    <3> DEFINE doc == twice(yes)
               asks == [settings_update |-> {yes}, updated |-> {yes}, units_change |-> {yes}]
    <3>1. doc \in Legacy!Control
      BY <2>2
    <3>2. /\ DOMAIN asks = {"settings_update", "updated", "units_change"}
          /\ doc["settings_update"] \in asks["settings_update"]
          /\ doc["updated"] \in asks["updated"] /\ doc["units_change"] \in asks["units_change"]
      BY <2>2
    <3>3. \A k \in LegacyFields \ {"settings_update", "updated", "units_change"} : doc[k] = c[k]
      OBVIOUS
    <3> HIDE DEF doc, asks
    <3>4. LegacySound([doc |-> doc, base |-> c, asks |-> asks])
      BY <3>1, <3>2, <3>3, LegacySoundCopy
    <3> QED BY <3>4 DEF doc, asks
  <2>3. Legacy!Units(c) = <<first(TRUE)>> \o <<second(TRUE)>>
    BY Zenon DEF Legacy!Units, Legacy!Made
  <2> HIDE DEF first, second
  <2>4. LegacySound(first(TRUE)) /\ LegacySound(second(TRUE))
    BY Zenon, <2>1, <2>2
  <2>5. PICK v, w : v = first(TRUE) /\ w = second(TRUE)
    OBVIOUS
  <2>6. LegacyAll(<<v>> \o <<w>>)
    BY Zenon, <2>4, <2>5, LegacyAllTwo
  <2> QED BY Zenon, <2>3, <2>5, <2>6
<1> QED BY <1>1, <1>2, <1>3, <1>4, <1>5, <1>6, <1>7, <1>8, <1>9, <1>10, <1>11

\* What is laid over a structure leaves a structure.
LEMMA LegacyOverlaidType ==
    ASSUME NEW c \in Legacy!Control, NEW doc \in LegacyDocs
    PROVE  Legacy!Overlaid(c, doc) \in Legacy!Control
<1>1. DOMAIN c = LegacyFields
  BY DEF Legacy!Control, LegacyFields
<1>2. CASE doc \in Legacy!Control
  <2>1. DOMAIN doc = LegacyFields /\ doc = [k \in LegacyFields |-> doc[k]]
    BY <1>2 DEF Legacy!Control, LegacyFields
  <2>2. Legacy!Overlaid(c, doc) = doc
    BY <1>1, <2>1 DEF Legacy!Overlaid
  <2> QED BY <1>2, <2>2
<1>3. CASE doc = Legacy!Stop
  <2>1. DOMAIN doc = {"mode", "updated"} /\ doc["mode"] = "Stop" /\ doc["updated"] = TRUE
    BY <1>3 DEF Legacy!Stop
  <2>2. Legacy!Overlaid(c, doc) = [c EXCEPT !.mode = "Stop", !.updated = TRUE]
    BY <1>1, <2>1 DEF Legacy!Overlaid, Legacy!Control, LegacyFields
  <2> QED BY <2>2 DEF Legacy!Control, Legacy!Modes
<1> QED BY <1>2, <1>3 DEF LegacyDocs

LEMMA LegacyInvInit == Legacy!Init => LegacyInv
<1>1. Legacy!Fresh \in Legacy!Control /\ [Legacy!Fresh EXCEPT !.mode = "Prime", !.updated = FALSE] \in Legacy!Control
  BY DEF Legacy!Fresh, Legacy!Control, Legacy!Modes
<1> QED BY <1>1, LegacyAllNone DEF Legacy!Init, LegacyInv

LEMMA LegacyInvStep == ASSUME LegacyInv, Legacy!Next PROVE LegacyInv'
<1>1. x1 \in Legacy!Control /\ LegacyAll(x2) /\ LegacyAll(x3) /\ x4 \in {"F", "C"} /\ x5 \in BOOLEAN
  BY DEF LegacyInv
<1>2. ASSUME NEW writes, LegacyAll(writes), Legacy!Request(writes), x4' \in {"F", "C"}
      PROVE  LegacyInv'
  BY <1>1, <1>2 DEF Legacy!Request, LegacyInv
<1>3. CASE Legacy!SetMode \/ Legacy!SetHold \/ Legacy!SetPrime
  BY <1>1, <1>2, <1>3, LegacyHandlers DEF Legacy!SetMode, Legacy!SetHold, Legacy!SetPrime
<1>4. CASE Legacy!SetNotify \/ Legacy!SetSPlus
  BY <1>1, <1>2, <1>4, LegacyHandlers DEF Legacy!SetNotify, Legacy!SetSPlus
<1>5. CASE Legacy!SetTimer
  BY <1>1, <1>2, <1>5, LegacyHandlers DEF Legacy!SetTimer
<1>6. CASE Legacy!SetManual \/ Legacy!GetHopper \/ Legacy!SetUnits
  BY <1>1, <1>2, <1>6, LegacyHandlers DEF Legacy!SetManual, Legacy!GetHopper, Legacy!SetUnits
<1>7. CASE Legacy!Queue
  BY <1>1, <1>7, LegacyAllMore, LegacyAllButFirst DEF Legacy!Queue, LegacyInv
<1>8. CASE Legacy!AppStops
  <2> DEFINE w == [doc |-> Legacy!Stop, base |-> x1,
                   asks |-> [mode |-> {"Stop"}, updated |-> {TRUE}]]
  <2>1. LegacySound(w)
    <3>1. /\ DOMAIN w.doc = {"mode", "updated"} /\ DOMAIN w.asks = {"mode", "updated"}
          /\ w.doc["mode"] = "Stop" /\ w.asks["mode"] = {"Stop"}
      BY DEF Legacy!Stop
    <3>2. w.doc["updated"] = TRUE /\ w.asks["updated"] = {TRUE}
      BY Zenon DEF Legacy!Stop
    <3>3. w.doc["updated"] \in w.asks["updated"]
      BY Zenon, <3>2
    <3>4. w.doc \in LegacyDocs /\ w.base \in Legacy!Control
      BY <1>1 DEF LegacyDocs
    <3> HIDE DEF w
    <3> QED BY <3>1, <3>3, <3>4 DEF LegacySound, LegacyFields
  <2>2. x2' = Append(x2, w)
    BY <1>8 DEF Legacy!AppStops
  <2> HIDE DEF w
  <2>3. LegacyAll(x2')
    BY <1>1, <2>1, <2>2, LegacyAllMore
  <2> QED BY <1>1, <1>8, <2>3 DEF Legacy!AppStops, LegacyInv
<1>9. CASE Legacy!Merge
  <2>1. LegacySound(Head(x2)) /\ LegacyAll(Tail(x2))
    BY <1>1, <1>9, LegacyAllButFirst DEF Legacy!Merge
  <2>2. x1' \in Legacy!Control
    BY <1>1, <1>9, <2>1, LegacyOverlaidType DEF Legacy!Merge, LegacySound
  <2> QED BY <1>1, <1>9, <2>1, <2>2 DEF Legacy!Merge, LegacyInv
<1>10. ASSUME NEW after \in Legacy!Control, Legacy!ControlWrites(after) PROVE LegacyInv'
  BY <1>1, <1>10 DEF Legacy!ControlWrites, LegacyInv
<1>11. /\ \A flag \in {"hopper_check", "settings_update"} :
             Legacy!Acknowledged(x1, flag) \in Legacy!Control
       /\ Legacy!TakenUp(x1) \in Legacy!Control /\ Legacy!Switched(x1) \in Legacy!Control
       /\ Legacy!Ended(x1) \in Legacy!Control /\ Legacy!TimedOut(x1) \in Legacy!Control
  BY ZenonT(60), <1>1 DEF Legacy!Acknowledged, Legacy!TakenUp, Legacy!Switched, Legacy!Ended, Legacy!TimedOut,
     Legacy!Control, Legacy!Modes
<1>12. CASE Legacy!Acknowledge \/ Legacy!TakeUp \/ Legacy!Switch \/ Legacy!End \/ Legacy!TimeOut
  BY <1>10, <1>11, <1>12 DEF Legacy!Acknowledge, Legacy!TakeUp, Legacy!Switch, Legacy!End,
     Legacy!TimeOut
<1>13. CASE Legacy!Flush
  <2>1. Legacy!Fresh \in Legacy!Control
    BY DEF Legacy!Fresh, Legacy!Control, Legacy!Modes
  <2> QED BY <1>1, <1>13, <2>1, LegacyAllNone DEF Legacy!Flush, LegacyInv
<1> QED BY <1>3, <1>4, <1>5, <1>6, <1>7, <1>8, <1>9, <1>12, <1>13 DEF Legacy!Next

LEMMA LegacyNext == ASSUME LegacyInv, [Legacy!Next]_Legacy!vars PROVE LegacyInv'
<1>1. CASE UNCHANGED Legacy!vars
  BY <1>1 DEF Legacy!vars, LegacyInv
<1> QED BY <1>1, LegacyInvStep

\* A sound write, laid over whatever the structure has become.
LEMMA LegacyMerges ==
    ASSUME LegacyInv, Legacy!Merge
    PROVE  Legacy!DoesWhatItSays(Head(x2), x1, x1')
<1> DEFINE w == Head(x2)
<1>1. LegacySound(w) /\ x1 \in Legacy!Control
  BY LegacyAllButFirst DEF LegacyInv, Legacy!Merge
<1>2. x1' = Legacy!Overlaid(x1, w.doc)
  BY DEF Legacy!Merge
<1> HIDE DEF w
<1>3. DOMAIN x1 = LegacyFields
  BY <1>1 DEF Legacy!Control, LegacyFields
<1>4. ASSUME NEW k \in DOMAIN x1
      PROVE  IF k \in DOMAIN w.asks THEN x1'[k] \in w.asks[k]
             ELSE x1'[k] = x1[k] \/ (x1[k] # w.base[k] /\ x1'[k] = w.base[k])
  <2>1. x1'[k] = IF k \in DOMAIN w.doc THEN w.doc[k] ELSE x1[k]
    BY <1>2 DEF Legacy!Overlaid
  <2> QED BY <1>1, <1>3, <2>1 DEF LegacySound
<1> QED BY <1>4 DEF Legacy!DoesWhatItSays, w

\* However many requests there are, and whatever comes between a request and its merge:
\* a write does what its request asks for, and puts back nothing but what has changed
\* since the request was read.
THEOREM WritesKeepTheRest == Spec => WritesDoWhatTheySay
<1> DEFINE Inv == In("legacy", LegacyInv)
<1>1. Init => Inv
  BY LegacyInvInit DEF Init, In
<1>2. Inv /\ [Next]_vars => Inv'
  BY LegacyNext, PartsStep DEF In
<1>3. Inv /\ [Next]_vars => [In("legacy", Legacy!WritesDoWhatTheySay)]_vars
  BY LegacyMerges DEF In, Legacy!WritesDoWhatTheySay
<1> HIDE DEF Inv
<1> QED BY <1>1, <1>2, <1>3, PTL DEF Spec, WritesDoWhatTheySay

-----------------------------------------------------------------------------
(* The controllers: x1 is kind, x2 opt, x3 c, x4 pit, x5 u.                *)

\* What the user's settings come to: gains of any size, and a center that is a ratio.
PidHypotheses ==
    /\ PidFull \in Nat /\ PidRange \in Nat \ {0} /\ PidJump \in Nat
    /\ PidPs \subseteq Nat /\ PidIs \subseteq Nat /\ PidDs \subseteq Nat /\ PidCenters \subseteq Nat

\* A controller object.
PidObject == [inter : Int, last : -PidRange..PidRange, new_target : BOOLEAN, since : 0..3]

\* The most the integral term of a clamping scheme comes to.
PidMost(o) == PidFull + Pid!Abs(o.d) * PidJump + Pid!Abs(o.i) * PidRange

\* Beside the bound itself: from its second cycle on, the object knows the pit it
\* was asked about last, so the derivative never sees more than one cycle's change.
PidInv ==
    /\ x1 \in Pid!Kinds /\ x2 \in Pid!Options(x1) /\ x3 \in PidObject
    /\ x4 \in -PidRange..PidRange /\ x5 \in Int
    /\ x1 = "pid" /\ x2.center # 0 => Pid!Abs(x2.i * x3.inter) <= Pid!Abs(x2.center)
    /\ x2.clamping =>
          /\ Pid!Abs(x2.i * x3.inter) <= PidMost(x2)
          /\ x3.last = x4 \/ (x3.inter = 0 /\ x3.last = 0)

LEMMA PidOptionsType ==
    ASSUME PidHypotheses, NEW k \in Pid!Kinds, NEW o \in Pid!Options(k)
    PROVE  /\ o.p \in Int /\ o.i \in Int /\ o.d \in Int /\ o.center \in Int
           /\ o.p <= 0 /\ o.i <= 0
           /\ o.clamping \in BOOLEAN
           /\ o.clamping => k \in {"pid_clamping", "pid_clamping_percent_pb", "pid_parallel"}
BY DEF PidHypotheses, Pid!Options, Pid!Kinds

LEMMA PidWithinType ==
    ASSUME NEW x \in Int, NEW low \in Int, NEW high \in Int, low <= high
    PROVE  Pid!Within(x, low, high) \in low..high
BY DEF Pid!Within

LEMMA PidAbsType == ASSUME NEW x \in Int PROVE Pid!Abs(x) \in Nat /\ x <= Pid!Abs(x) /\ -x <= Pid!Abs(x)
BY DEF Pid!Abs

\* Products: their signs, and their size.
LEMMA PidNotNegative == ASSUME NEW x \in Nat, NEW y \in Nat PROVE x * y \in Nat
OBVIOUS

LEMMA PidSigns ==
    ASSUME NEW g \in Int, g <= 0, NEW x \in Int
    PROVE  g * x \in Int /\ (x <= 0 => g * x >= 0) /\ (x >= 0 => g * x <= 0)
<1>1. x <= 0 => g * x >= 0
  <2>1. x <= 0 => (-g) * (-x) \in Nat
    BY PidNotNegative
  <2> QED BY <2>1
<1>2. x >= 0 => g * x <= 0
  <2>1. x >= 0 => (-g) * x \in Nat
    BY PidNotNegative
  <2> QED BY <2>1
<1> QED BY <1>1, <1>2

LEMMA PidSize ==
    ASSUME NEW g \in Int, NEW x \in Int, NEW m \in Nat, Pid!Abs(x) <= m
    PROVE  /\ Pid!Abs(g * x) <= Pid!Abs(g) * m
           /\ g * x \in Int /\ Pid!Abs(g) * m \in Nat
<1>1. -m <= x /\ x <= m
  BY DEF Pid!Abs
<1>2. CASE g >= 0
  <2>1. g * (m - x) \in Nat /\ g * (m + x) \in Nat /\ g * m \in Nat
    BY <1>1, <1>2, PidNotNegative
  <2>2. g * (m - x) = g * m - g * x /\ g * (m + x) = g * m + g * x
    OBVIOUS
  <2>3. Pid!Abs(g) = g
    BY <1>2 DEF Pid!Abs
  <2> QED BY <2>1, <2>2, <2>3 DEF Pid!Abs
<1>3. CASE g < 0
  <2>1. (-g) * (m - x) \in Nat /\ (-g) * (m + x) \in Nat /\ (-g) * m \in Nat
    BY <1>1, <1>3, PidNotNegative
  <2>2. (-g) * (m - x) = (-g) * m + g * x /\ (-g) * (m + x) = (-g) * m - g * x
    OBVIOUS
  <2>3. Pid!Abs(g) = -g
    BY <1>3 DEF Pid!Abs
  <2> QED BY <2>1, <2>2, <2>3 DEF Pid!Abs
<1> QED BY <1>2, <1>3

LEMMA PidSameSign ==
    ASSUME NEW x \in Int, NEW y \in Int, ~(x * y > 0)
    PROVE  ~(x > 0 /\ y > 0) /\ ~(x < 0 /\ y < 0)
OBVIOUS

LEMMA PidNewGood ==
    ASSUME PidHypotheses, NEW k \in Pid!Kinds, NEW o \in Pid!Options(k)
    PROVE  /\ Pid!New(k) \in PidObject
           /\ Pid!Abs(o.i * Pid!New(k).inter) = 0 /\ 0 <= Pid!Abs(o.center) /\ 0 <= PidMost(o)
           /\ o.clamping => Pid!New(k).inter = 0 /\ Pid!New(k).last = 0
<1>1. Pid!New(k).inter = 0 /\ Pid!New(k) \in PidObject
  BY DEF Pid!New, PidObject, PidHypotheses
<1>2. /\ o.i \in Int /\ o.d \in Int /\ o.center \in Int
      /\ o.clamping => k \in {"pid_clamping", "pid_clamping_percent_pb", "pid_parallel"}
  BY PidOptionsType
<1>3. o.i * Pid!New(k).inter = 0
  BY <1>1, <1>2
<1>4. Pid!Abs(o.d) * PidJump \in Nat /\ Pid!Abs(o.i) * PidRange \in Nat /\ 0 <= Pid!Abs(o.center)
  BY <1>2, PidAbsType, PidNotNegative DEF PidHypotheses
<1>5. Pid!Abs(o.i * Pid!New(k).inter) = 0
  BY <1>3 DEF Pid!Abs
<1>6. 0 <= PidMost(o)
  BY <1>4 DEF PidMost, PidHypotheses
<1> QED BY <1>1, <1>2, <1>4, <1>5, <1>6 DEF Pid!New

LEMMA PidInvInit == ASSUME PidHypotheses, Pid!Init PROVE PidInv
BY PidNewGood DEF Pid!Init, PidInv, PidHypotheses

\* One update of a clamping scheme.  An integral that the pit pushes further out has
\* the sign of the proportional term: if the output stays within its limits, or has the
\* other sign, the integral exceeds the limit by the derivative term at most.  One that
\* the pit pushes back is smaller.
LEMMA PidClampedStep ==
    ASSUME PidHypotheses, PidInv, x2.clamping,
           NEW now \in -PidRange..PidRange, now \in (x4 - PidJump)..(x4 + PidJump)
    PROVE  /\ Pid!Clamped(now).u \in Int
           /\ Pid!Clamped(now).c \in PidObject
           /\ Pid!Clamped(now).c.last = now
           /\ Pid!Abs(x2.i * Pid!Clamped(now).c.inter) <= PidMost(x2)
<1> DEFINE inter == x3.inter + now
           out == x2.p * now + x2.i * inter + x2.d * (now - x3.last)
<1>1. /\ x3 \in PidObject /\ x4 \in -PidRange..PidRange
      /\ Pid!Abs(x2.i * x3.inter) <= PidMost(x2)
      /\ x3.last = x4 \/ (x3.inter = 0 /\ x3.last = 0)
  BY DEF PidInv
<1>2. x2.p \in Int /\ x2.i \in Int /\ x2.d \in Int /\ x2.p <= 0 /\ x2.i <= 0
  BY PidOptionsType DEF PidInv
<1>3. /\ now \in Int /\ inter \in Int /\ x3.inter \in Int /\ x3.last \in Int /\ x4 \in Int
      /\ x2.p * now \in Int /\ x2.i * inter \in Int /\ x2.d * (now - x3.last) \in Int
      /\ PidFull \in Nat /\ PidRange \in Nat /\ PidJump \in Nat
  BY <1>1, <1>2 DEF PidObject, PidHypotheses
<1>4. out \in Int
  BY <1>3
<1>5. CASE Pid!Abs(out) >= PidFull /\ x2.i * inter * out > 0
  <2>1. Pid!Clamped(now) = [u |-> out, c |-> [x3 EXCEPT !.last = now]]
    BY <1>1, <1>5 DEF Pid!Clamped, PidObject
  <2> HIDE DEF out
  <2> QED BY <1>1, <1>4, <2>1 DEF PidObject
<1>6. CASE ~(Pid!Abs(out) >= PidFull /\ x2.i * inter * out > 0)
  <2> DEFINE new == [x3 EXCEPT !.inter = inter, !.last = now]
  <2>1. Pid!Clamped(now) = [u |-> out, c |-> new]
    BY <1>6 DEF Pid!Clamped
  <2>2. \/ Pid!Abs(out) < PidFull
        \/ ~(x2.i * inter > 0 /\ out > 0) /\ ~(x2.i * inter < 0 /\ out < 0)
    <3>1. ~(Pid!Abs(out) >= PidFull) \/ ~(x2.i * inter * out > 0)
      BY <1>6
    <3> HIDE DEF out, inter
    <3>2. ~(Pid!Abs(out) >= PidFull) => Pid!Abs(out) < PidFull
      BY <1>3, <1>4, PidAbsType
    <3> QED BY <1>3, <1>4, <3>1, <3>2, PidSameSign
  <2>3. Pid!Abs(x2.i * inter) <= PidMost(x2)
    <3>1. /\ Pid!Abs(x2.d) * PidJump \in Nat /\ Pid!Abs(x2.i) * PidRange \in Nat
      BY <1>2, <1>3, PidAbsType, PidNotNegative
    <3>2. CASE x3.inter = 0 /\ x3.last = 0
      <4>1. inter = now /\ Pid!Abs(now) <= PidRange
        BY <1>3, <3>2 DEF Pid!Abs
      <4>2. Pid!Abs(x2.i * inter) <= Pid!Abs(x2.i) * PidRange
        BY <1>2, <1>3, <4>1, PidSize
      <4>3. Pid!Abs(x2.i * inter) \in Nat
        BY <1>3, PidAbsType
      <4> QED BY <1>3, <3>1, <4>2, <4>3 DEF PidMost
    <3>3. CASE x3.last = x4
      <4>1. Pid!Abs(now - x3.last) <= PidJump /\ now - x3.last \in Int
        BY <1>3, <3>3 DEF Pid!Abs
      <4>2. Pid!Abs(x2.d * (now - x3.last)) <= Pid!Abs(x2.d) * PidJump
        BY <1>2, <1>3, <4>1, PidSize
      <4>3. x2.i * inter = x2.i * x3.inter + x2.i * now
            /\ x2.i * x3.inter \in Int /\ x2.i * now \in Int
        BY <1>2, <1>3
      <4>4. /\ now <= 0 => x2.p * now >= 0 /\ x2.i * now >= 0
            /\ now >= 0 => x2.p * now <= 0 /\ x2.i * now <= 0
        BY <1>2, <1>3, PidSigns
      <4>5. out = x2.p * now + x2.i * inter + x2.d * (now - x3.last)
        OBVIOUS
      <4> HIDE DEF out, inter
      <4>6. PICK before \in Int, add \in Int, after \in Int, prop \in Int, deriv \in Int,
                 swing \in Nat, one \in Nat :
              /\ before = x2.i * x3.inter /\ add = x2.i * now /\ after = x2.i * inter
              /\ prop = x2.p * now /\ deriv = x2.d * (now - x3.last)
              /\ swing = Pid!Abs(x2.d) * PidJump /\ one = Pid!Abs(x2.i) * PidRange
        BY Zenon, <1>3, <3>1, <4>3
      <4>7. after = before + add /\ out = prop + after + deriv
        BY <4>3, <4>5, <4>6
      <4>8. /\ now <= 0 => prop >= 0 /\ add >= 0
            /\ now >= 0 => prop <= 0 /\ add <= 0
        BY <4>4, <4>6
      <4>9. Pid!Abs(deriv) <= swing /\ Pid!Abs(before) <= PidFull + swing + one
        BY <1>1, <4>2, <4>6 DEF PidMost
      <4>10. \/ Pid!Abs(out) < PidFull
             \/ ~(after > 0 /\ out > 0) /\ ~(after < 0 /\ out < 0)
        BY <2>2, <4>6
      <4>11. Pid!Abs(after) <= PidFull + swing + one
        BY <1>3, <1>4, <4>7, <4>8, <4>9, <4>10 DEF Pid!Abs
      <4> QED BY <4>6, <4>11 DEF PidMost
    <3> QED BY <1>1, <3>2, <3>3
  <2> HIDE DEF out, inter
  <2>4. new \in PidObject /\ new.inter = inter /\ new.last = now
    BY <1>1, <1>3 DEF PidObject
  <2> HIDE DEF new
  <2> QED BY <1>4, <2>1, <2>3, <2>4
<1> QED BY <1>5, <1>6

\* A scheme whose clamp the user has switched off: nothing but types.
LEMMA PidClampedType ==
    ASSUME PidHypotheses, PidInv, NEW now \in -PidRange..PidRange
    PROVE  Pid!Clamped(now).u \in Int /\ Pid!Clamped(now).c \in PidObject
<1>1. x2.p \in Int /\ x2.i \in Int /\ x2.d \in Int
  BY PidOptionsType DEF PidInv
<1>2. x3 \in PidObject /\ now \in Int /\ x3.inter \in Int /\ x3.last \in Int
  BY DEF PidInv, PidObject
<1> DEFINE inter == x3.inter + now
           out == x2.p * now + x2.i * inter + x2.d * (now - x3.last)
<1>3. inter \in Int /\ out \in Int
  BY <1>1, <1>2
<1> HIDE DEF out, inter
<1>4. PICK kept \in {x3.inter, inter} :
        Pid!Clamped(now) = [u |-> out, c |-> [x3 EXCEPT !.inter = kept, !.last = now]]
  BY DEF Pid!Clamped, out, inter
<1> DEFINE new == [x3 EXCEPT !.inter = kept, !.last = now]
<1>5. new \in PidObject
  BY <1>2, <1>3, <1>4 DEF PidObject
<1>6. Pid!Clamped(now) = [u |-> out, c |-> new]
  BY <1>4
<1> HIDE DEF new
<1> QED BY <1>3, <1>5, <1>6

\* One update of pid.py.
LEMMA PidDivision ==
    ASSUME NEW a \in Nat, NEW b \in Nat \ {0}
    PROVE  a \div b \in Nat /\ b * (a \div b) <= a
OBVIOUS

LEMMA PidCenteredStep ==
    ASSUME PidHypotheses, PidInv, x1 = "pid", NEW now \in -PidRange..PidRange
    PROVE  /\ Pid!Pid(now).u \in Int /\ Pid!Pid(now).c \in PidObject
           /\ x2.center # 0 => Pid!Abs(x2.i * Pid!Pid(now).c.inter) <= Pid!Abs(x2.center)
<1> DEFINE max == IF x2.i = 0 THEN 0 ELSE Pid!Abs(x2.center) \div Pid!Abs(x2.i)
           inter == IF x2.center # 0 THEN Pid!Within(x3.inter + now, -max, max)
                    ELSE x3.inter + now
           new == [x3 EXCEPT !.inter = inter, !.last = now]
           out == x2.p * now + x2.center + x2.i * inter + x2.d * (now - x3.last)
<1>1. /\ x2.p \in Int /\ x2.i \in Int /\ x2.d \in Int /\ x2.center \in Int
      /\ x3 \in PidObject /\ x3.inter \in Int /\ x3.last \in Int /\ now \in Int
  BY PidOptionsType DEF PidInv, PidObject
<1>2. Pid!Pid(now) = [u |-> out, c |-> new]
  BY DEF Pid!Pid
<1>3. max \in Nat /\ Pid!Abs(x2.i) * max <= Pid!Abs(x2.center)
  <2>1. Pid!Abs(x2.i) \in Nat /\ Pid!Abs(x2.center) \in Nat /\ (x2.i # 0 => Pid!Abs(x2.i) # 0)
    BY <1>1 DEF Pid!Abs
  <2>2. CASE x2.i = 0
    BY <2>1, <2>2
  <2>3. CASE x2.i # 0
    BY <2>1, <2>3, PidDivision
  <2> QED BY <2>2, <2>3
<1> HIDE DEF max
<1>4. inter \in Int /\ (x2.center # 0 => Pid!Abs(inter) <= max)
  <2>1. Pid!Within(x3.inter + now, -max, max) \in -max..max
    <3>1. x3.inter + now \in Int /\ -max \in Int /\ max \in Int /\ -max <= max
      BY <1>1, <1>3
    <3> QED BY <3>1, PidWithinType
  <2> QED BY <1>1, <1>3, <2>1 DEF Pid!Abs
<1> HIDE DEF inter
<1>5. x2.center # 0 => Pid!Abs(x2.i * inter) <= Pid!Abs(x2.center)
  <2>1. x2.center # 0 => Pid!Abs(x2.i * inter) <= Pid!Abs(x2.i) * max
    BY <1>1, <1>3, <1>4, PidSize
  <2>2. /\ Pid!Abs(x2.i * inter) \in Nat /\ Pid!Abs(x2.center) \in Nat
        /\ Pid!Abs(x2.i) * max \in Nat
    BY <1>1, <1>3, <1>4, PidAbsType, PidNotNegative
  <2> QED BY <1>3, <2>1, <2>2
<1>6. out \in Int
  BY <1>1, <1>4
<1>7. new \in PidObject /\ new.inter = inter
  BY <1>1, <1>4 DEF PidObject
<1> HIDE DEF out, new
<1> QED BY <1>2, <1>5, <1>6, <1>7

\* One update of pid_ac.py and pid_sp.py.
LEMMA PidAdaptiveStep ==
    ASSUME PidHypotheses, PidInv, NEW now \in -PidRange..PidRange
    PROVE  Pid!Adaptive(now).u \in Int /\ Pid!Adaptive(now).c \in PidObject
<1>1. /\ x2.p \in Int /\ x2.i \in Int /\ x2.d \in Int /\ x2.center \in Int
      /\ x3 \in PidObject /\ x3.inter \in Int /\ x3.last \in Int /\ now \in Int
  BY PidOptionsType DEF PidInv, PidObject
<1> DEFINE seen == IF x1 = "pid_sp" THEN now + ((now - x3.last) \div 2) ELSE now
           reset == \/ Pid!Abs(now) > Pid!Window
                    \/ /\ x3.new_target /\ Pid!Abs(now) > 1
                       /\ x3.since >= 3 /\ Pid!Abs(now) <= PidRange \div 2
           inter == Pid!Within((IF reset THEN 0 ELSE x3.inter) + seen, -Pid!Sum, Pid!Sum)
           reached == x3.new_target /\ Pid!Abs(now) > 1
           moved == [x3 EXCEPT !.last = now, !.since = Pid!Within(@ + 1, 0, 3)]
           clamped == Pid!Within(x2.i * inter, -x2.center, x2.center)
           out == x2.p * seen + x2.center + clamped + x2.d * (seen - x3.last)
           new == [moved EXCEPT !.inter = inter, !.new_target = reached]
<1>2. seen \in Int
  BY <1>1
<1>3. moved \in PidObject
  <2>1. Pid!Within(x3.since + 1, 0, 3) \in 0..3
    BY <1>1 DEF PidObject, Pid!Within
  <2> QED BY <1>1, <2>1 DEF PidObject
<1>4. inter \in Int
  BY <1>1, <1>2 DEF Pid!Sum, Pid!Within
<1>5. PICK r \in BOOLEAN : r = reached
  OBVIOUS
<1>6. Pid!Adaptive(now) = IF seen < -Pid!Band THEN [u |-> PidFull, c |-> moved]
                          ELSE IF seen > Pid!Window THEN [u |-> 0, c |-> moved]
                          ELSE [u |-> out, c |-> new]
  BY DEF Pid!Adaptive
<1> HIDE DEF seen, inter, moved, reached, reset
<1>7. clamped \in Int
  <2>1. x2.i * inter \in Int
    BY <1>1, <1>4
  <2> QED BY <1>1, <2>1 DEF Pid!Within
<1> HIDE DEF clamped
<1>8. out \in Int
  BY <1>1, <1>2, <1>7
<1>9. new \in PidObject
  BY <1>3, <1>4, <1>5 DEF PidObject
<1> HIDE DEF out, new
<1> QED BY <1>3, <1>6, <1>8, <1>9 DEF PidHypotheses

LEMMA PidInvStep == ASSUME PidHypotheses, PidInv, Pid!Next PROVE PidInv'
<1>1. CASE Pid!Reconfigure
  <2>1. x1' \in Pid!Kinds /\ x2' \in Pid!Options(x1') /\ x3' = Pid!New(x1') /\ x4' = x4 /\ x5' = x5
    BY <1>1 DEF Pid!Reconfigure, Pid!Options, Pid!New
  <2> QED BY <2>1, PidNewGood DEF PidInv, PidMost
<1>2. CASE Pid!Cycle
  <2>1. PICK now \in (x4 - PidJump)..(x4 + PidJump) :
          /\ now \in -PidRange..PidRange
          /\ x4' = now /\ x5' = Pid!Update(now).u /\ x3' = Pid!Update(now).c
          /\ x1' = x1 /\ x2' = x2
    BY <1>2 DEF Pid!Cycle
  <2>2. /\ x1 \in Pid!Kinds /\ x2 \in Pid!Options(x1)
        /\ x2.clamping => x1 \in {"pid_clamping", "pid_clamping_percent_pb", "pid_parallel"}
    BY PidOptionsType DEF PidInv
  <2>3. CASE x1 = "pid"
    BY <2>1, <2>2, <2>3, PidCenteredStep DEF Pid!Update, PidInv
  <2>4. CASE x1 \in {"pid_ac", "pid_sp"}
    BY <2>1, <2>2, <2>4, PidAdaptiveStep DEF Pid!Update, PidInv
  <2>5. CASE x1 \notin {"pid", "pid_ac", "pid_sp"}
    <3>1. Pid!Update(now) = Pid!Clamped(now)
      BY <2>5 DEF Pid!Update
    <3> QED BY <2>1, <2>2, <2>5, <3>1, PidClampedStep, PidClampedType DEF PidInv, PidMost
  <2> QED BY <2>3, <2>4, <2>5
<1> QED BY <1>1, <1>2 DEF Pid!Next

LEMMA PidNext == ASSUME PidHypotheses, PidInv, [Pid!Next]_Pid!vars PROVE PidInv'
<1>1. CASE UNCHANGED Pid!vars
  BY <1>1 DEF Pid!vars, PidInv
<1> QED BY <1>1, PidInvStep

\* Whatever the gains, the full output, the center and the pit's moves, and however long
\* the pit is kept cold or hot: the integral term stays within the center for pid.py,
\* and where a scheme clamps, within the full output and what one swing and one update
\* can add.
THEOREM IntegralsAreBounded == ASSUME PidHypotheses PROVE Spec => []WindupIsBounded
<1> DEFINE Inv == In("pid", PidInv)
<1>1. Init => Inv
  BY PidInvInit DEF Init, In
<1>2. Inv /\ [Next]_vars => Inv'
  BY PidNext, PartsStep DEF In
<1>3. Inv => WindupIsBounded
  BY DEF In, PidInv, PidMost, WindupIsBounded, Pid!WindupIsBounded
<1> HIDE DEF Inv
<1> QED BY <1>1, <1>2, <1>3, PTL DEF Spec

-----------------------------------------------------------------------------
(* The touch screens: x1 is grill, x2 f, x3 phase, x4 asked, x5 said.      *)

LEMMA FlexTwoWords ==
    ASSUME NEW a, NEW b
    PROVE  <<a>> \o <<b>> = <<a, b>> /\ <<a, b>> \o <<>> = <<a, b>>
<1> DEFINE S == {a, b}
           c == <<a>> \o <<b>>
           d == <<a, b>>
<1>1. <<a>> \in Seq(S) /\ <<b>> \in Seq(S) /\ d \in Seq(S)
      /\ Len(<<a>>) = 1 /\ Len(<<b>>) = 1 /\ <<a>>[1] = a /\ <<b>>[1] = b
      /\ Len(d) = 2 /\ d[1] = a /\ d[2] = b
  OBVIOUS
<1>2. c \in Seq(S) /\ Len(c) = 2 /\ c[1] = a /\ c[2] = b
  BY <1>1, ConcatProperties
<1> HIDE DEF S, c, d
<1>3. \A i \in 1..Len(c) : c[i] = d[i]
  BY <1>1, <1>2
<1>4. c = d
  BY <1>1, <1>2, <1>3, SeqEqual
<1>5. d \o <<>> = d
  BY <1>1, ConcatEmptySeq
<1> QED BY <1>4, <1>5 DEF c, d

LEMMA FlexLastWord ==
    ASSUME NEW command, NEW value, Flex!Writes(command, value) # <<>>
    PROVE  LET last == Flex!Writes(command, value)[Len(Flex!Writes(command, value))]
           IN  /\ command \in {"cmd_startup"} => last = "Startup"
               /\ command = "cmd_primestartup" => last = "PrimeThenStartup"
               /\ command \in {"cmd_stop", "cmd_reboot"} => last = "Stop"
               /\ command = "cmd_hold" => last = "Hold"
<1>1. CASE command = "cmd_startup"
  <2>1. Flex!Writes(command, value) = <<"Startup">>
    BY <1>1 DEF Flex!Writes
  <2> QED BY <1>1, <2>1
<1>2. CASE command = "cmd_primestartup"
  <2>1. <<"Startup">> \o <<"PrimeThenStartup">> = <<"Startup", "PrimeThenStartup">>
    BY FlexTwoWords
  <2>2. <<"Startup", "PrimeThenStartup">> \o <<>> = <<"Startup", "PrimeThenStartup">>
    BY FlexTwoWords
  <2>3. Flex!Writes(command, value) = <<"Startup", "PrimeThenStartup">>
    BY <1>2, <2>1, <2>2 DEF Flex!Writes
  <2> QED BY <1>2, <2>3
<1>3. CASE command = "cmd_stop"
  <2>1. Flex!Writes(command, value) = <<"Stop">>
    BY <1>3 DEF Flex!Writes
  <2> QED BY <1>3, <2>1
<1>5. CASE command = "cmd_reboot"
  <2>1. Flex!Writes(command, value) = <<"Stop">>
    BY <1>5 DEF Flex!Writes
  <2> QED BY <1>5, <2>1
<1>4. CASE command = "cmd_hold"
  <2>1. Flex!Writes(command, value) = <<"Hold">> \/ Flex!Writes(command, value) = <<>>
    BY <1>4 DEF Flex!Writes
  <2> QED BY <1>4, <2>1
<1> QED BY <1>1, <1>2, <1>3, <1>4, <1>5

LEMMA FlexWordInit == Flex!Init => Flex!LastWordIsTheButtons
BY DEF Flex!Init, Flex!LastWordIsTheButtons

LEMMA FlexWordStep ==
    ASSUME Flex!LastWordIsTheButtons, [Flex!Next]_Flex!vars
    PROVE  Flex!LastWordIsTheButtons'
<1>1. ASSUME NEW g, NEW command, Flex!Command(g, command) PROVE Flex!LastWordIsTheButtons'
  BY <1>1, FlexLastWord DEF Flex!Command, Flex!LastWordIsTheButtons
<1>2. CASE UNCHANGED <<x4, x5>>
  BY <1>2 DEF Flex!LastWordIsTheButtons
<1>3. CASE Flex!Event
  <2>1. ASSUME NEW g, NEW button, Flex!Chosen(g, button) PROVE Flex!LastWordIsTheButtons'
    BY <1>1, <1>2, <2>1 DEF Flex!Chosen
  <2> QED BY <1>1, <1>2, <1>3, <2>1 DEF Flex!Event, Flex!_process_touch, Flex!_process_button
<1>4. CASE ~Flex!Event
  BY <1>2, <1>4 DEF Flex!Next, Flex!vars, Flex!GrillChanges, Flex!TenSeconds, Flex!Fetch,
     Flex!TooSoonToFetch, Flex!NoEvent, Flex!Draw
<1> QED BY <1>3, <1>4

FlexShown == {"dash"} \cup Flex!Menus
FlexActive == {"off"} \cup FlexShown
FlexLists == {"none"} \cup FlexShown
FlexFields == [active : FlexActive, objects : FlexLists, stored : FlexLists,
           timeout : {"none", "running", "over"}, init : BOOLEAN, status : Flex!Modes,
           last : Flex!Modes \cup {"None"}, value : Nat, panel : Flex!Modes]
FlexTypes ==
    /\ x1 \in Flex!Modes /\ x2 \in FlexFields
    /\ x3 \in {"fetch", "event", "draw", "crashed", "ended"}

LEMMA FlexMenusAre ==
    /\ "off" \notin Flex!Menus /\ "none" \notin Flex!Menus /\ "dash" \notin Flex!Menus
    /\ Flex!Menus = {"main", "main_active_normal", "main_active_monitor", "system", "main_reboot",
          "prime",
                "prime_startup", "prime_only", "startup", "pmode", "hold"}
BY DEF Flex!Menus, Flex!Buttons

LEMMA FlexScreenType ==
    ASSUME NEW g \in FlexFields
    PROVE  /\ \A screen \in FlexShown : Flex!Goto(g, screen) \in FlexFields
                 /\ Flex!Opened(g, screen) \in FlexFields
           /\ Flex!WaitsTen(g) \in FlexFields /\ Flex!Refreshed(g) \in FlexFields
                 /\ Flex!Woken(g) \in FlexFields
           /\ Flex!LayoutRead(g) \in FlexFields /\ Flex!_init_dash(g) \in FlexFields
           /\ \A command : Flex!AfterCommand(g, command) \in FlexFields
           /\ \A input : [g EXCEPT !.value = Flex!Typed(@, input)] \in FlexFields
<1>. USE DEF Flex!Modes
<1>0. /\ FlexShown \subseteq FlexActive /\ FlexShown \subseteq FlexLists /\ "dash" \in FlexShown
      /\ \A x \in FlexActive : x = "off" \/ x \in FlexShown
      /\ "dash" \in FlexLists
  BY DEF FlexActive, FlexLists, FlexShown
<1>1. \A h \in FlexFields, screen \in FlexShown : Flex!Goto(h, screen) \in FlexFields
  BY <1>0 DEF Flex!Goto, FlexFields
<1>2. \A h \in FlexFields : Flex!WaitsTen(h) \in FlexFields /\ Flex!LayoutRead(h) \in FlexFields
  BY DEF Flex!WaitsTen, Flex!LayoutRead, FlexFields
<1>3. \A screen \in FlexShown : Flex!Opened(g, screen) \in FlexFields
  <2>1. g.active = "dash" => [g EXCEPT !.stored = g.objects] \in FlexFields
    BY DEF FlexFields
  <2> QED BY <1>1, <2>1 DEF Flex!Opened
<1>4. Flex!Refreshed(g) \in FlexFields /\ Flex!Woken(g) \in FlexFields
  BY <1>0, <1>1, <1>2 DEF Flex!Refreshed, Flex!Woken
<1>5. Flex!_init_dash(g) \in FlexFields
  <2>1. \A h \in FlexFields :
            [h EXCEPT !.objects = "dash", !.stored = "dash", !.panel = "Stop"] \in FlexFields
    BY <1>0 DEF FlexFields
  <2>2. Flex!LayoutRead(g) \in FlexFields
    BY <1>2
  <2> QED BY <2>1, <2>2 DEF Flex!_init_dash
<1>6. \A command : Flex!AfterCommand(g, command) \in FlexFields
  <2>1. \A h \in FlexFields : [h EXCEPT !.status = "Stop"] \in FlexFields
    BY DEF FlexFields
  <2>2. Flex!Goto(g, "dash") \in FlexFields
    BY <1>0, <1>1
  <2>3. Flex!WaitsTen([Flex!LayoutRead(Flex!Goto(g, "dash")) EXCEPT !.status = "Stop"])
          \in FlexFields
    BY <1>2, <2>1, <2>2
  <2> QED BY <2>2, <2>3 DEF Flex!AfterCommand
<1>7. ASSUME NEW input PROVE [g EXCEPT !.value = Flex!Typed(@, input)] \in FlexFields
  <2>1. \A v \in Nat : Flex!Typed(v, input) \in Nat
    BY DEF Flex!Typed
  <2>2. g.value \in Nat
    BY DEF FlexFields
  <2>3. Flex!Typed(g.value, input) \in Nat
    BY <2>1, <2>2
  <2> QED BY <2>3 DEF FlexFields
<1> QED BY <1>1, <1>2, <1>3, <1>4, <1>5, <1>6, <1>7

LEMMA FlexTypesInit == Flex!Init => FlexTypes
BY DEF Flex!Init, FlexTypes, FlexFields, FlexActive, FlexLists, Flex!Modes

LEMMA FlexChosenType ==
    ASSUME NEW g \in FlexFields, NEW button, Flex!Chosen(g, button)
    PROVE  x2' \in FlexFields /\ x3' \in {"draw", "ended"}
<1>1. ASSUME Flex!Opens(button) PROVE Flex!MenuOf(button) \in Flex!Menus
  BY <1>1 DEF Flex!Opens, Flex!MenuOf
<1>2. Flex!Menus \subseteq FlexShown /\ "dash" \in FlexShown
  BY DEF FlexShown
<1> QED BY <1>1, <1>2, FlexScreenType DEF Flex!Chosen, Flex!Command

LEMMA FlexTypesStep == ASSUME FlexTypes, [Flex!Next]_Flex!vars PROVE FlexTypes'
<1>1. CASE Flex!GrillChanges
  BY <1>1 DEF Flex!GrillChanges, FlexTypes
<1>2. CASE Flex!TenSeconds
  BY <1>2 DEF Flex!TenSeconds, FlexTypes, FlexFields
<1>3. CASE Flex!Fetch
  <2>1. Flex!Fetched(x2) \in FlexFields
    <3>1. "dash" \in FlexActive
      BY DEF FlexActive, FlexShown
    <3> QED BY <3>1 DEF Flex!Fetched, FlexTypes, FlexFields
  <2> QED BY <1>3, <2>1 DEF Flex!Fetch, FlexTypes
<1>4. CASE Flex!TooSoonToFetch \/ Flex!NoEvent \/ UNCHANGED Flex!vars
  BY <1>4 DEF Flex!TooSoonToFetch, Flex!NoEvent, FlexTypes, Flex!vars
<1>5. CASE Flex!Event
  <2>1. x2 \in FlexFields /\ Flex!Refreshed(x2) \in FlexFields /\ Flex!Woken(x2) \in FlexFields
    BY FlexScreenType DEF FlexTypes
  <2>2. x2' \in FlexFields /\ x3' \in {"draw", "ended"}
    <3>1. CASE Flex!_process_touch
      BY <2>1, <3>1, FlexChosenType DEF Flex!_process_touch
    <3>2. CASE Flex!_process_button
      <4>1. Flex!MainMenu(x2.status) \in Flex!Menus
        BY FlexMenusAre DEF Flex!MainMenu
      <4>2. \A screen \in Flex!Menus : Flex!Opened(Flex!Refreshed(x2), screen) \in FlexFields
        BY <2>1, FlexScreenType DEF FlexShown
      <4>3. \A command : Flex!AfterCommand(Flex!Refreshed(x2), command) \in FlexFields
        BY <2>1, FlexScreenType
      <4> QED BY <2>1, <3>2, <4>1, <4>2, <4>3, FlexChosenType DEF Flex!_process_button, Flex!Command
    <3> QED BY <1>5, <3>1, <3>2 DEF Flex!Event
  <2> QED BY <1>5, <2>2 DEF Flex!Event, FlexTypes
<1>6. CASE Flex!Draw
  <2>1. Flex!TimedOut(x2) \in FlexFields
    <3>1. "off" \in FlexActive
      BY DEF FlexActive
    <3> QED BY <3>1 DEF Flex!TimedOut, FlexTypes, FlexFields
  <2>2. \A g \in FlexFields : Flex!Dashed(g) \in FlexFields
    <3>1. \A h \in FlexFields : [h EXCEPT !.objects = h.stored, !.init = FALSE] \in FlexFields
      BY DEF FlexFields
    <3> QED BY <3>1, FlexScreenType DEF Flex!Dashed
  <2>3. \A g \in FlexFields : Flex!Updated(g) \in FlexFields
    BY ZenonT(40) DEF Flex!Updated, FlexFields
  <2>4. \A g \in FlexFields : Flex!Drawn(g) \in FlexFields
    <3>1. \A g \in FlexFields : g.active \in Flex!Menus
              => [g EXCEPT !.objects = g.active, !.init = FALSE] \in FlexFields
      <4>1. Flex!Menus \subseteq FlexLists
        BY DEF FlexLists, FlexShown
      <4> QED BY <4>1 DEF FlexFields
    <3> QED BY <2>2, <2>3, <3>1 DEF Flex!Drawn
  <2>5. [Flex!_init_dash(x2) EXCEPT !.init = FALSE] \in FlexFields /\ x2 \in FlexFields
    <3>1. Flex!_init_dash(x2) \in FlexFields
      BY FlexScreenType DEF FlexTypes
    <3> QED BY <3>1 DEF FlexFields, FlexTypes
  <2>6. x2' \in FlexFields /\ x3' \in {"fetch", "crashed"} /\ x1' = x1
    BY <1>6, <2>1, <2>4, <2>5 DEF Flex!Draw
  <2> QED BY <2>6 DEF FlexTypes
<1> QED BY <1>1, <1>2, <1>3, <1>4, <1>5, <1>6 DEF Flex!Next

LEMMA FlexTypesOK == FlexTypes => Flex!TypeOK
BY DEF FlexTypes, FlexFields, FlexActive, FlexLists, FlexShown, Flex!TypeOK

\* Whatever the user touches and whatever the grill does meanwhile: when a button
\* writes several requests, the one that stays is the one its label says.
THEOREM ButtonsHaveTheLastWord == Spec => []LastWordIsTheButtons
<1>1. Init => LastWordIsTheButtons
  BY FlexWordInit DEF Init, In, LastWordIsTheButtons
<1>2. LastWordIsTheButtons /\ [Next]_vars => LastWordIsTheButtons'
  BY FlexWordStep, PartsStep DEF In, LastWordIsTheButtons
<1> QED BY <1>1, <1>2, PTL DEF Spec

-----------------------------------------------------------------------------
(* settings.json: x1 is file, x2 backups, x3 code, x4 up, x5 job, x6 told,  *)
(* x7 quiet.                                                               *)

\* A version is a number, and the control process is not a thread of the server.
SettingsHypotheses ==
    /\ SettingsVersions \subseteq Int /\ SettingsOld \in Int
    /\ "control" \notin SettingsThreads

\* What the owner is told, and what a process may be at.
SettingsPairs == [choice : Settings!Choices, auth : BOOLEAN]
SettingsOps == {"init", "patch", "password", "wizard", "reset", "import"}
SettingsAgain == [step |-> "again"]
SettingsWriting == [step : {"held", "truncated"}, op : SettingsOps, copy : Settings!Settings]
SettingsJobs == {Settings!Idle, SettingsAgain} \cup SettingsWriting

\* A backup is listed under the version that wrote it.
SettingsTypes ==
    /\ x1 \in Settings!Settings \cup {Settings!Torn}
    /\ x2 \in [SettingsVersions -> Settings!Settings \cup {Settings!NoBackup}]
    /\ \A v \in SettingsVersions : x2[v] # Settings!NoBackup => x2[v].ver = v
    /\ x3 \in SettingsVersions /\ x4 \in BOOLEAN /\ x7 \in BOOLEAN
    /\ x5 \in [Settings!Procs -> SettingsJobs]
    /\ x6 \in [now : SettingsPairs, kept : [SettingsVersions -> SettingsPairs]]

\* Setting the password changes nothing else.
LEMMA SettingsLocked ==
    ASSUME NEW n \in SettingsPairs
    PROVE  [n EXCEPT !.auth = TRUE] = [choice |-> n.choice, auth |-> TRUE]
<1> DEFINE r == [n EXCEPT !.auth = TRUE]
           q == [choice |-> n.choice, auth |-> TRUE]
<1>1. r \in SettingsPairs /\ q \in SettingsPairs
  BY DEF SettingsPairs
<1>2. r.choice = q.choice /\ r.auth = q.auth
  BY DEF SettingsPairs
<1>3. \A x \in SettingsPairs : DOMAIN x = {"choice", "auth"}
          /\ x = [f \in {"choice", "auth"} |-> x[f]]
  BY DEF SettingsPairs
<1> HIDE DEF r, q
<1>4. \A f \in {"choice", "auth"} : r[f] = q[f]
  BY <1>2
<1>5. r = q
  BY <1>1, <1>3, <1>4
<1> QED BY <1>5 DEF r, q

LEMMA SettingsNumbers ==
    ASSUME SettingsHypotheses, SettingsTypes
    PROVE  x3 \in Int /\ \A s \in Settings!Settings : s.ver \in Int
<1>1. x3 \in Int
  BY DEF SettingsHypotheses, SettingsTypes
<1>2. \A s \in Settings!Settings : s.ver \in SettingsVersions
  BY DEF Settings!Settings
<1> QED BY <1>1, <1>2 DEF SettingsHypotheses

LEMMA SettingsDistinct ==
    /\ Settings!Torn \notin Settings!Settings /\ Settings!NoBackup \notin Settings!Settings
    /\ Settings!Idle \notin SettingsWriting /\ SettingsAgain \notin SettingsWriting
          /\ Settings!Idle # SettingsAgain
    /\ Settings!Idle.step = "idle" /\ SettingsAgain.step = "again"
<1>1. ASSUME NEW s \in Settings!Settings PROVE s # [ver |-> 0]
  <2>1. DOMAIN s = {"ver", "choice", "auth", "wizard"} /\ DOMAIN [ver |-> 0] = {"ver"}
    BY DEF Settings!Settings
  <2> QED BY <2>1
<1>2. ASSUME NEW j \in SettingsWriting PROVE j # Settings!Idle /\ j # SettingsAgain
  BY <1>2 DEF SettingsWriting, Settings!Idle, SettingsAgain
<1> QED BY <1>1, <1>2 DEF Settings!Torn, Settings!NoBackup, Settings!Idle, SettingsAgain

\* What a start makes of the settings, and what a request does.
LEMMA SettingsMadeType ==
    ASSUME SettingsTypes
    PROVE  /\ Settings!Defaults \in Settings!Settings /\ Settings!Restored \in Settings!Settings
           /\ \A s \in Settings!Settings : Settings!Started(s) \in Settings!Settings
                 /\ Settings!FactoryReset(s) \in Settings!Settings
           /\ \A s \in Settings!Settings, op \in {"patch", "password", "wizard", "reset"} :
                Settings!Change(op, s) \in Settings!Settings
           /\ \A s, d \in Settings!Settings : Settings!Imported(s, d) \in Settings!Settings
<1>1. Settings!Defaults \in Settings!Settings
  BY DEF SettingsTypes, Settings!Defaults, Settings!Settings, Settings!Choices
<1>2. Settings!Restored \in Settings!Settings
  BY <1>1 DEF SettingsTypes, Settings!Restored
<1>3. ASSUME NEW s \in Settings!Settings
      PROVE  Settings!Started(s) \in Settings!Settings
                   /\ Settings!FactoryReset(s) \in Settings!Settings
  <2>1. Settings!Upgraded(s) \in Settings!Settings
    <3> DEFINE w == s.wizard \/ s.ver <= SettingsOld
    <3>1. w \in BOOLEAN
      BY DEF Settings!Settings
    <3>2. Settings!Upgraded(s) = [s EXCEPT !.ver = x3, !.wizard = w]
      BY DEF Settings!Upgraded
    <3> HIDE DEF w
    <3> QED BY <3>1, <3>2 DEF SettingsTypes, Settings!Settings
  <2>2. Settings!FactoryReset(s) \in Settings!Settings
    BY <1>1 DEF Settings!FactoryReset, Settings!Settings
  <2> QED BY <1>2, <2>1, <2>2 DEF Settings!Started
<1>4. ASSUME NEW s \in Settings!Settings, NEW op \in {"patch", "password", "wizard", "reset"}
      PROVE  Settings!Change(op, s) \in Settings!Settings
  BY <1>3 DEF Settings!Change, Settings!Settings, Settings!Choices
<1>5. ASSUME NEW s \in Settings!Settings, NEW d \in Settings!Settings
      PROVE  Settings!Imported(s, d) \in Settings!Settings
  BY DEF Settings!Imported, Settings!Settings
<1> QED BY <1>1, <1>2, <1>3, <1>4, <1>5

LEMMA SettingsBackupType ==
    ASSUME SettingsTypes, NEW s \in Settings!Settings
    PROVE  /\ Settings!BackedUp(s)
                 \in [SettingsVersions -> Settings!Settings \cup {Settings!NoBackup}]
           /\ \A v \in SettingsVersions :
                Settings!BackedUp(s)[v] = (IF v = s.ver /\ v # x3 THEN s ELSE x2[v])
BY DEF Settings!BackedUp, SettingsTypes, Settings!Settings

LEMMA SettingsHeardType ==
    ASSUME SettingsTypes, NEW op \in SettingsOps, NEW s \in Settings!Settings
    PROVE  Settings!Heard(op, s) \in 
               [now : SettingsPairs, kept : [SettingsVersions -> SettingsPairs]]
<1>1. x6.now \in SettingsPairs /\ x6.kept \in [SettingsVersions -> SettingsPairs]
          /\ Settings!Told(s.choice, s.auth) \in SettingsPairs
  BY DEF SettingsTypes, SettingsPairs, Settings!Told, Settings!Settings
<1>2. /\ [x6.now EXCEPT !.choice = s.choice] \in SettingsPairs
      /\ [x6.now EXCEPT !.auth = TRUE] \in SettingsPairs
  BY <1>1 DEF SettingsPairs, Settings!Settings
<1>3. [x6.kept EXCEPT ![s.ver] = IF s.ver = x3 THEN @ ELSE Settings!Told(s.choice, s.auth)]
        \in [SettingsVersions -> SettingsPairs]
  BY <1>1 DEF Settings!Settings
<1> QED BY <1>1, <1>2, <1>3 DEF Settings!Heard, SettingsTypes

LEMMA SettingsTypesInit == Settings!Init => SettingsTypes
<1>. SUFFICES ASSUME Settings!Init PROVE SettingsTypes
  OBVIOUS
<1>1. x1 \in Settings!Settings /\ x3 \in SettingsVersions /\ x4 \in BOOLEAN /\ x7 \in BOOLEAN
  BY DEF Settings!Init, Settings!Defaults, Settings!Settings, Settings!Choices
<1>2. x2 \in [SettingsVersions -> Settings!Settings \cup {Settings!NoBackup}]
      /\ \A v \in SettingsVersions : x2[v] = Settings!NoBackup
  BY DEF Settings!Init
<1>3. x5 \in [Settings!Procs -> SettingsJobs]
  BY DEF Settings!Init, SettingsJobs
<1>4. Settings!Never \in SettingsPairs
  BY DEF Settings!Never, SettingsPairs, Settings!Choices
<1>5. x6 \in [now : SettingsPairs, kept : [SettingsVersions -> SettingsPairs]]
  BY <1>4 DEF Settings!Init
<1> QED BY <1>1, <1>2, <1>3, <1>5 DEF SettingsTypes

LEMMA SettingsHoldsType ==
    ASSUME SettingsTypes, NEW p \in Settings!Procs, NEW op \in SettingsOps,
           NEW s \in Settings!Settings, Settings!Holds(p, op, s)
    PROVE  /\ x5' \in [Settings!Procs -> SettingsJobs]
                 /\ x5'[p] = [step |-> "held", op |-> op, copy |-> s]
           /\ \A q \in Settings!Procs \ {p} : x5'[q] = x5[q]
<1> DEFINE h == [step |-> "held", op |-> op, copy |-> s]
<1>1. h \in SettingsWriting
  BY DEF SettingsWriting
<1>2. x5' = [x5 EXCEPT ![p] = h]
  BY DEF Settings!Holds
<1> HIDE DEF h
<1>3. x5' \in [Settings!Procs -> SettingsJobs] /\ x5'[p] = h
          /\ \A q \in Settings!Procs \ {p} : x5'[q] = x5[q]
  BY <1>1, <1>2 DEF SettingsTypes, SettingsJobs
<1> QED BY <1>3 DEF h

LEMMA SettingsWritingJob ==
    ASSUME SettingsTypes, NEW p \in Settings!Procs, x5[p].step \in {"held", "truncated"}
    PROVE  x5[p] \in SettingsWriting
BY SettingsDistinct DEF SettingsTypes, SettingsJobs

\* What a file, and what a version's backup, says of the owner's choice is what the
\* owner was told.  A file of another version is that version's until it is read.
SettingsChose(s) == Settings!Told(s.choice, s.auth)
SettingsListed(v) ==
    x6.kept[v] = IF x2[v] = Settings!NoBackup THEN Settings!Never ELSE SettingsChose(x2[v])
SettingsKept(v) ==
    IF v = x1.ver /\ v # x3 THEN x6.kept[v] = SettingsChose(x1) ELSE SettingsListed(v)

\* While changes do not overlap there are three cases: nobody is at work; one process
\* has a copy it writes, which says what the owner has asked for; or one has written an
\* import and reads the file once more.
SettingsResting ==
    /\ \A p \in Settings!Procs : x5[p] = Settings!Idle
    /\ x1 \in Settings!Settings /\ (x4 => x1.ver = x3)
    /\ \A v \in SettingsVersions : SettingsKept(v)
    /\ x6.now = IF x1.ver > x3 THEN x6.kept[x3] ELSE SettingsChose(x1)
SettingsWorking(p) ==
    /\ x5[p] \in SettingsWriting
    /\ SettingsChose(x5[p].copy) = Settings!Heard(x5[p].op, x5[p].copy).now
    /\ IF x5[p].op = "import" THEN x5[p].copy.ver <= x3 ELSE x5[p].copy.ver = x3
    /\ x4 \/ p = "control"
    /\ p = "control" => x5[p].op = "init"
    /\ \A v \in SettingsVersions : SettingsListed(v)
SettingsRereading(p) ==
    /\ x5[p] = SettingsAgain /\ p # "control" /\ x4
    /\ x1 \in Settings!Settings /\ x1.ver <= x3 /\ x6.now = SettingsChose(x1)
    /\ \A v \in SettingsVersions : SettingsKept(v)
SettingsGood ==
    \/ SettingsResting
    \/ \E p \in Settings!Procs : Settings!Alone(p) /\ (SettingsWorking(p) \/ SettingsRereading(p))
SettingsGoodInv == x7 => SettingsGood

LEMMA SettingsGoodInit == ASSUME SettingsHypotheses, Settings!Init PROVE SettingsGood
<1>1. SettingsTypes
  BY SettingsTypesInit
<1>2. x1 \in Settings!Settings /\ x1.ver = x3
  BY <1>1, SettingsMadeType DEF Settings!Init, Settings!Defaults
<1>3. SettingsChose(x1) = Settings!Never /\ x6.now = Settings!Never
          /\ \A v \in SettingsVersions : x6.kept[v] = Settings!Never
  BY DEF Settings!Init, SettingsChose, Settings!Told, Settings!Never, Settings!Defaults
<1>4. \A v \in SettingsVersions : SettingsListed(v)
  BY <1>3 DEF Settings!Init, SettingsListed
<1>5. ~(x3 > x3)
  BY <1>1, SettingsNumbers
<1> QED BY <1>2, <1>3, <1>4, <1>5 DEF SettingsGood, SettingsResting, SettingsKept, Settings!Init

\* A process that is idle while all others are.
LEMMA SettingsAllAtRest ==
    ASSUME SettingsGood, NEW p \in Settings!Procs, Settings!Alone(p), x5[p] = Settings!Idle
    PROVE  SettingsResting
BY SettingsDistinct DEF SettingsGood, SettingsWorking, SettingsRereading, Settings!Alone,
   SettingsAgain

LEMMA SettingsOneAtWork ==
    ASSUME SettingsGood, NEW p \in Settings!Procs, x5[p] # Settings!Idle
    PROVE  Settings!Alone(p) /\ (SettingsWorking(p) \/ SettingsRereading(p))
BY DEF SettingsGood, SettingsResting, Settings!Alone

\* A start of settings leaves what is expected of its version.
LEMMA SettingsStartedIs ==
    ASSUME SettingsHypotheses, SettingsTypes, x1 \in Settings!Settings,
           \A v \in SettingsVersions : SettingsKept(v),
           x6.now = IF x1.ver > x3 THEN x6.kept[x3] ELSE SettingsChose(x1)
    PROVE  Settings!Started(x1).ver = x3 /\ SettingsChose(Settings!Started(x1)) = x6.now
<1>1. CASE x1.ver < x3
  <2>1. /\ Settings!Upgraded(x1).ver = x3 /\ Settings!Upgraded(x1).choice = x1.choice
        /\ Settings!Upgraded(x1).auth = x1.auth
    BY DEF Settings!Upgraded, Settings!Settings
  <2>2. ~(x1.ver > x3)
    BY <1>1, SettingsNumbers
  <2> QED BY <1>1, <2>1, <2>2 DEF Settings!Started, SettingsChose
<1>2. CASE x1.ver > x3
  <2>1. SettingsListed(x3) /\ ~(x1.ver < x3)
    <3>1. x3 # x1.ver /\ x3 \in SettingsVersions /\ ~(x1.ver < x3)
      BY <1>2, SettingsNumbers DEF SettingsTypes
    <3> QED BY <3>1 DEF SettingsKept
  <2>2. SettingsChose(Settings!Defaults) = Settings!Never /\ Settings!Defaults.ver = x3
    BY DEF SettingsChose, Settings!Told, Settings!Never, Settings!Defaults
  <2>3. Settings!Restored.ver = x3 /\ SettingsChose(Settings!Restored) = x6.kept[x3]
    BY <2>1, <2>2 DEF Settings!Restored, SettingsListed, SettingsTypes
  <2> QED BY <1>2, <2>1, <2>3 DEF Settings!Started
<1>3. CASE x1.ver = x3
  BY <1>3, SettingsNumbers DEF Settings!Started
<1> QED BY <1>1, <1>2, <1>3, SettingsNumbers

LEMMA SettingsReadInitStep ==
    ASSUME SettingsHypotheses, SettingsTypes, SettingsGoodInv, NEW p \in Settings!Procs,
           Settings!ReadInit(p)
    PROVE  SettingsTypes' /\ SettingsGoodInv'
<1>1. /\ UNCHANGED <<x1, x3, x4, x6>> /\ x1 \in Settings!Settings
      /\ Settings!Holds(p, "init", Settings!Started(x1)) /\ x2' = Settings!BackedUp(x1)
      /\ x7' = (x7 /\ Settings!Alone(p))
  BY DEF Settings!ReadInit, SettingsTypes
<1>2. Settings!Started(x1) \in Settings!Settings
  BY <1>1, SettingsMadeType
<1>3. /\ x5' \in [Settings!Procs -> SettingsJobs]
      /\ x5'[p] = [step |-> "held", op |-> "init", copy |-> Settings!Started(x1)]
      /\ \A q \in Settings!Procs \ {p} : x5'[q] = x5[q]
  BY <1>1, <1>2, SettingsHoldsType DEF SettingsOps
<1>4. /\ x2' \in [SettingsVersions -> Settings!Settings \cup {Settings!NoBackup}]
      /\ \A v \in SettingsVersions : x2'[v] = (IF v = x1.ver /\ v # x3 THEN x1 ELSE x2[v])
  BY <1>1, SettingsBackupType
<1>5. SettingsTypes'
  BY <1>1, <1>3, <1>4 DEF SettingsTypes
<1>6. ASSUME x7' PROVE SettingsGood'
  <2>1. x7 /\ Settings!Alone(p) /\ SettingsGood
    BY <1>1, <1>6 DEF SettingsGoodInv
  <2>2. /\ \A v \in SettingsVersions : SettingsKept(v)
        /\ x6.now = IF x1.ver > x3 THEN x6.kept[x3] ELSE SettingsChose(x1)
        /\ x4 \/ p = "control"
    <3>1. CASE p = "control" /\ ~x4 /\ x5[p] = Settings!Idle
      BY <2>1, <3>1, SettingsAllAtRest DEF SettingsResting
    <3>2. CASE x5[p].step = "again"
      <4>1. x5[p] # Settings!Idle /\ x5[p] \notin SettingsWriting
        BY <3>2, SettingsDistinct DEF SettingsWriting
      <4>2. SettingsRereading(p)
        BY <2>1, <4>1, SettingsOneAtWork DEF SettingsWorking
      <4>3. ~(x1.ver > x3)
        BY <1>1, <4>2, SettingsNumbers DEF SettingsRereading
      <4> QED BY <4>2, <4>3 DEF SettingsRereading
    <3> QED BY <3>1, <3>2 DEF Settings!ReadInit
  <2>3. Settings!Started(x1).ver = x3 /\ SettingsChose(Settings!Started(x1)) = x6.now
    BY <1>1, <2>2, SettingsStartedIs
  <2>4. \A v \in SettingsVersions : SettingsListed(v)'
    BY <1>1, <1>4, <2>2, SettingsDistinct DEF SettingsListed, SettingsKept
  <2>5. x5'[p] \in SettingsWriting /\ x5'[p].op = "init" /\ x5'[p].copy = Settings!Started(x1)
    BY <1>2, <1>3 DEF SettingsWriting, SettingsOps
  <2>6. Settings!Heard("init", Settings!Started(x1))' = x6
    BY <1>1 DEF Settings!Heard
  <2>7. SettingsWorking(p)'
    BY <1>1, <2>2, <2>3, <2>4, <2>5, <2>6 DEF SettingsWorking, Settings!Heard
  <2>8. Settings!Alone(p)'
    BY <1>3, <2>1 DEF Settings!Alone
  <2> QED BY <2>7, <2>8 DEF SettingsGood
<1> QED BY <1>5, <1>6 DEF SettingsGoodInv

\* What was asked for in other versions changes when one of their backups is imported.
LEMMA SettingsHeardIs ==
    ASSUME SettingsTypes, NEW op \in SettingsOps, NEW s \in Settings!Settings
    PROVE  /\ op # "import" => Settings!Heard(op, s).kept = x6.kept
           /\ op = "import" => \A v \in SettingsVersions :
                Settings!Heard(op, s).kept[v] =
                    (IF v = s.ver /\ v # x3 THEN SettingsChose(s) ELSE x6.kept[v])
<1>1. x6.now \in SettingsPairs /\ x6.kept \in [SettingsVersions -> SettingsPairs]
  BY DEF SettingsTypes
<1>2. CASE op = "import"
  <2> DEFINE k == [x6.kept EXCEPT ![s.ver] =
                     IF s.ver = x3 THEN @ ELSE Settings!Told(s.choice, s.auth)]
  <2>1. Settings!Heard(op, s).kept = k
    BY <1>2 DEF Settings!Heard, SettingsTypes
  <2>2. \A v \in SettingsVersions :
            k[v] = (IF v = s.ver /\ v # x3 THEN SettingsChose(s) ELSE x6.kept[v])
    BY <1>1 DEF SettingsChose
  <2> HIDE DEF k
  <2> QED BY <1>2, <2>1, <2>2
<1>3. CASE op # "import"
  BY <1>3 DEF Settings!Heard, SettingsTypes
<1> QED BY <1>2, <1>3

LEMMA SettingsGiveUpStep ==
    ASSUME SettingsTypes, NEW p \in Settings!Procs, Settings!GiveUp(p)
    PROVE  SettingsTypes' /\ SettingsGoodInv'
<1>1. /\ UNCHANGED <<x1, x2, x3, x4, x6>> /\ x7' = FALSE
      /\ Settings!Holds(p, "init", Settings!Restored) /\ Settings!Restored \in Settings!Settings
  BY SettingsMadeType DEF Settings!GiveUp
<1>2. x5' \in [Settings!Procs -> SettingsJobs]
  BY <1>1, SettingsHoldsType DEF SettingsOps
<1> QED BY <1>1, <1>2 DEF SettingsTypes, SettingsGoodInv

LEMMA SettingsBeginStep ==
    ASSUME SettingsHypotheses, SettingsTypes, SettingsGoodInv, NEW p \in SettingsThreads,
           NEW op \in SettingsOps \ {"init"},
           NEW copy \in Settings!Settings, Settings!Begin(p, op, copy),
           \/ op # "import" /\ copy = Settings!Change(op, x1)
           \/ op = "import" /\ copy.choice = "owner" /\ copy.auth = x1.auth
    PROVE  SettingsTypes' /\ SettingsGoodInv'
<1>1. /\ UNCHANGED <<x1, x2, x3, x4, x6>> /\ Settings!Holds(p, op, copy) /\ x1 \in Settings!Settings
      /\ x7' = (x7 /\ x4 /\ Settings!Alone(p) /\ ~(op = "import" /\ copy.ver > x3))
      /\ x5[p] = Settings!Idle /\ p \in Settings!Procs /\ p # "control" /\ op \in SettingsOps
  BY DEF Settings!Begin, SettingsTypes, Settings!Procs, SettingsHypotheses
<1>2. /\ x5' \in [Settings!Procs -> SettingsJobs]
      /\ x5'[p] = [step |-> "held", op |-> op, copy |-> copy]
      /\ \A q \in Settings!Procs \ {p} : x5'[q] = x5[q]
  BY <1>1, SettingsHoldsType
<1>3. SettingsTypes'
  BY <1>1, <1>2 DEF SettingsTypes
<1>4. ASSUME x7' PROVE SettingsGood'
  <2>1. /\ SettingsResting /\ x4 /\ Settings!Alone(p) /\ ~(op = "import" /\ copy.ver > x3)
    BY <1>1, <1>4, SettingsAllAtRest DEF SettingsGoodInv
  <2>2. x1.ver = x3 /\ x6.now = SettingsChose(x1) /\ \A v \in SettingsVersions : SettingsListed(v)
    BY <2>1, SettingsNumbers, <1>1 DEF SettingsResting, SettingsKept
  <2>3. SettingsChose(copy) = Settings!Heard(op, copy).now
    <3>1. x6 \in [now : SettingsPairs, kept : [SettingsVersions -> SettingsPairs]]
      BY DEF SettingsTypes
    <3>2. x6.now = [choice |-> x1.choice, auth |-> x1.auth]
      BY <2>2 DEF SettingsChose, Settings!Told
    <3>3. CASE op = "import"
      <4>1. Settings!Heard(op, copy).now = [x6.now EXCEPT !.choice = copy.choice]
        BY <3>1, <3>3 DEF Settings!Heard
      <4> QED BY <1>1, <3>2, <3>3, <4>1 DEF SettingsChose, Settings!Told
    <3>4. CASE op = "patch"
      <4>1. copy.auth = x1.auth
        BY <1>1, <3>4 DEF Settings!Change, Settings!Settings
      <4>2. Settings!Heard(op, copy).now = [x6.now EXCEPT !.choice = copy.choice]
        BY <3>1, <3>4 DEF Settings!Heard
      <4> QED BY <3>2, <4>1, <4>2 DEF SettingsChose, Settings!Told
    <3>5. CASE op = "reset"
      <4>1. copy.auth = x1.auth
        BY <1>1, <3>5, SettingsMadeType
           DEF Settings!Change, Settings!FactoryReset, Settings!Settings
      <4>2. Settings!Heard(op, copy).now = [x6.now EXCEPT !.choice = copy.choice]
        BY <3>1, <3>5 DEF Settings!Heard
      <4> QED BY <3>2, <4>1, <4>2 DEF SettingsChose, Settings!Told
    <3>6. CASE op = "password"
      <4>1. copy.auth = TRUE /\ copy.choice = x1.choice
        BY <1>1, <3>6 DEF Settings!Change, Settings!Settings
      <4>2. Settings!Heard(op, copy).now = [x6.now EXCEPT !.auth = TRUE]
        BY <3>1, <3>6 DEF Settings!Heard
      <4>3. \A n \in SettingsPairs : [n EXCEPT !.auth = TRUE] = [choice |-> n.choice, auth |-> TRUE]
        BY SettingsLocked
      <4>4. x6.now \in SettingsPairs /\ x6.now.choice = x1.choice
        BY <3>1, <3>2
      <4>5. Settings!Heard(op, copy).now = [choice |-> x1.choice, auth |-> TRUE]
        BY <4>2, <4>3, <4>4
      <4>6. SettingsChose(copy) = [choice |-> x1.choice, auth |-> TRUE]
        BY <4>1, Zenon DEF SettingsChose, Settings!Told
      <4> QED BY <4>5, <4>6
    <3>7. CASE op = "wizard"
      <4>1. copy.auth = x1.auth /\ copy.choice = x1.choice
        BY <1>1, <3>7 DEF Settings!Change, Settings!Settings
      <4>2. Settings!Heard(op, copy).now = x6.now
        BY <3>1, <3>7 DEF Settings!Heard
      <4> QED BY <3>2, <4>1, <4>2 DEF SettingsChose, Settings!Told
    <3> QED BY <3>3, <3>4, <3>5, <3>6, <3>7 DEF SettingsOps
  <2>4. IF op = "import" THEN copy.ver <= x3 ELSE copy.ver = x3
    <3>1. CASE op = "import"
      BY <2>1, <3>1, SettingsNumbers
    <3>2. CASE op # "import"
      <4>1. Settings!Defaults.ver = x3 /\ Settings!Defaults \in Settings!Settings
        BY SettingsMadeType DEF Settings!Defaults
      <4> QED BY <1>1, <2>2, <3>2, <4>1
                 DEF Settings!Change, Settings!FactoryReset, Settings!Settings, SettingsOps
    <3> QED BY <3>1, <3>2
  <2>5. x5'[p] \in SettingsWriting /\ x5'[p].op = op /\ x5'[p].copy = copy
    BY <1>1, <1>2 DEF SettingsWriting
  <2>6. (\A v \in SettingsVersions : SettingsListed(v)') /\ x4'
    BY <1>1, <2>1, <2>2 DEF SettingsListed
  <2>7. Settings!Heard(op, copy)' = Settings!Heard(op, copy)
    BY <1>1 DEF Settings!Heard
  <2>8. SettingsWorking(p)'
    BY <1>1, <2>3, <2>4, <2>5, <2>6, <2>7 DEF SettingsWorking, Settings!Heard
  <2>9. Settings!Alone(p)'
    BY <1>2, <2>1 DEF Settings!Alone
  <2> QED BY <1>1, <2>8, <2>9 DEF SettingsGood
<1> QED BY <1>3, <1>4 DEF SettingsGoodInv

LEMMA SettingsTruncateStep ==
    ASSUME SettingsHypotheses, SettingsTypes, SettingsGoodInv, NEW p \in Settings!Procs,
           Settings!Truncate(p)
    PROVE  SettingsTypes' /\ SettingsGoodInv'
<1>1. /\ UNCHANGED <<x2, x3, x4, x6, x7>> /\ x1' = Settings!Torn
      /\ x5' = [x5 EXCEPT ![p].step = "truncated"] /\ x5[p] \in SettingsWriting
  BY SettingsWritingJob DEF Settings!Truncate
<1>2. /\ x5'[p] \in SettingsWriting /\ x5'[p].op = x5[p].op /\ x5'[p].copy = x5[p].copy
      /\ x5' \in [Settings!Procs -> SettingsJobs] /\ \A q \in Settings!Procs \ {p} : x5'[q] = x5[q]
  <2> DEFINE j == [x5[p] EXCEPT !.step = "truncated"]
  <2>1. j \in SettingsWriting /\ j.op = x5[p].op /\ j.copy = x5[p].copy
    BY <1>1 DEF SettingsWriting
  <2>2. x5' = [x5 EXCEPT ![p] = j]
    BY <1>1
  <2> HIDE DEF j
  <2> QED BY <2>1, <2>2 DEF SettingsTypes, SettingsJobs
<1>3. SettingsTypes'
  BY <1>1, <1>2 DEF SettingsTypes
<1>4. ASSUME x7' PROVE SettingsGood'
  <2>1. Settings!Alone(p) /\ SettingsWorking(p)
    BY <1>1, <1>4, SettingsOneAtWork, SettingsDistinct DEF SettingsGoodInv, SettingsRereading
  <2>2. (\A v \in SettingsVersions : SettingsListed(v)') /\ Settings!Alone(p)'
    BY <1>1, <1>2, <2>1 DEF SettingsWorking, SettingsListed, Settings!Alone
  <2>3. Settings!Heard(x5[p].op, x5[p].copy)' = Settings!Heard(x5[p].op, x5[p].copy)
    BY <1>1, <1>2 DEF Settings!Heard
  <2>4. SettingsWorking(p)'
    BY <1>1, <1>2, <2>1, <2>2, <2>3 DEF SettingsWorking
  <2> QED BY <2>2, <2>4 DEF SettingsGood
<1> QED BY <1>3, <1>4 DEF SettingsGoodInv

LEMMA SettingsFillStep ==
    ASSUME SettingsHypotheses, SettingsTypes, SettingsGoodInv, NEW p \in Settings!Procs,
           Settings!Fill(p)
    PROVE  SettingsTypes' /\ SettingsGoodInv'
<1>1. PICK j : j = x5[p]
  OBVIOUS
<1>2. /\ UNCHANGED <<x2, x3, x7>> /\ x1' = j.copy /\ x4' = (x4 \/ p = "control")
      /\ x6' = Settings!Heard(j.op, j.copy) /\ j \in SettingsWriting
      /\ x5' = [x5 EXCEPT ![p] = IF j.op = "import" THEN SettingsAgain ELSE Settings!Idle]
  BY <1>1, SettingsWritingJob DEF Settings!Fill, SettingsAgain
<1>3. j.op \in SettingsOps /\ j.copy \in Settings!Settings
  BY <1>2 DEF SettingsWriting
<1>4. /\ x5' \in [Settings!Procs -> SettingsJobs] /\ \A q \in Settings!Procs \ {p} : x5'[q] = x5[q]
      /\ x5'[p] = (IF j.op = "import" THEN SettingsAgain ELSE Settings!Idle)
  BY <1>2 DEF SettingsTypes, SettingsJobs
<1>5. x6' \in [now : SettingsPairs, kept : [SettingsVersions -> SettingsPairs]]
  BY <1>2, <1>3, SettingsHeardType
<1>6. x4' \in BOOLEAN
  BY <1>2
<1>7. SettingsTypes'
  BY <1>2, <1>3, <1>4, <1>5, <1>6 DEF SettingsTypes
<1>8. ASSUME x7' PROVE SettingsGood'
  <2>1. Settings!Alone(p) /\ SettingsWorking(p)
    BY <1>1, <1>2, <1>8, SettingsOneAtWork, SettingsDistinct DEF SettingsGoodInv, SettingsRereading
  <2>2. x6'.now = SettingsChose(x1')
    BY <1>1, <1>2, <2>1 DEF SettingsWorking
  <2>3. \A v \in SettingsVersions : SettingsListed(v)
    BY <2>1 DEF SettingsWorking
  <2>4. Settings!Alone(p)'
    BY <1>4, <2>1 DEF Settings!Alone
  <2>5. CASE j.op = "import"
    <3>1. /\ x4' /\ p # "control" /\ x1' \in Settings!Settings /\ x1'.ver <= x3'
          /\ x5'[p] = SettingsAgain
      BY <1>1, <1>2, <1>3, <1>4, <2>1, <2>5 DEF SettingsWorking
    <3>2. ASSUME NEW v \in SettingsVersions PROVE SettingsKept(v)'
      <4>1. x6'.kept[v] = (IF v = x1'.ver /\ v # x3 THEN SettingsChose(x1') ELSE x6.kept[v])
        BY <1>2, <1>3, <2>5, SettingsHeardIs
      <4> QED BY <1>2, <2>3, <4>1 DEF SettingsKept, SettingsListed, SettingsChose
    <3>3. SettingsRereading(p)'
      BY <2>2, <3>1, <3>2 DEF SettingsRereading, SettingsChose
    <3> QED BY <2>4, <3>3 DEF SettingsGood
  <2>6. CASE j.op # "import"
    <3>1. x1'.ver = x3' /\ x1' \in Settings!Settings /\ ~(x1'.ver > x3')
      BY <1>1, <1>2, <1>3, <2>1, <2>6, SettingsNumbers DEF SettingsWorking
    <3>2. \A v \in SettingsVersions : SettingsListed(v)'
      BY <1>2, <1>3, <2>3, <2>6, SettingsHeardIs DEF SettingsListed
    <3>3. \A q \in Settings!Procs : x5'[q] = Settings!Idle
      BY <1>4, <2>4, <2>6 DEF Settings!Alone
    <3>4. SettingsResting'
      BY <2>2, <3>1, <3>2, <3>3 DEF SettingsResting, SettingsKept, SettingsChose
    <3> QED BY <3>4 DEF SettingsGood
  <2> QED BY <2>5, <2>6
<1> QED BY <1>7, <1>8 DEF SettingsGoodInv

LEMMA SettingsInstallStep ==
    ASSUME SettingsHypotheses, SettingsTypes, SettingsGoodInv, NEW v \in SettingsVersions,
           Settings!Install(v)
    PROVE  SettingsTypes' /\ SettingsGoodInv'
<1>1. /\ UNCHANGED <<x1, x2, x5, x7>> /\ x3' = v /\ ~x4' /\ x4' \in BOOLEAN /\ x4 /\ v # x3
      /\ x6' = [now |-> Settings!Expected(v), kept |-> [x6.kept EXCEPT ![x3] = x6.now]]
      /\ \A p \in Settings!Procs : x5[p] = Settings!Idle
  BY DEF Settings!Install
<1>2. /\ x6.now \in SettingsPairs /\ x6.kept \in [SettingsVersions -> SettingsPairs]
             /\ x3 \in SettingsVersions
      /\ Settings!Expected(v) \in SettingsPairs
  BY DEF SettingsTypes, Settings!Expected
<1>3. /\ x6'.now = Settings!Expected(v) /\ x6'.kept = [x6.kept EXCEPT ![x3] = x6.now]
      /\ x6' \in [now : SettingsPairs, kept : [SettingsVersions -> SettingsPairs]]
  BY <1>1, <1>2
<1>4. SettingsTypes'
  BY <1>1, <1>3 DEF SettingsTypes
<1>5. ASSUME x7 PROVE SettingsGood'
  <2>1. SettingsResting
    BY <1>1, <1>5, SettingsDistinct
       DEF SettingsGoodInv, SettingsGood, SettingsWorking, SettingsRereading
  <2>2. /\ x1 \in Settings!Settings /\ x1.ver = x3 /\ x6.now = SettingsChose(x1)
        /\ \A w \in SettingsVersions : SettingsListed(w)
    BY <1>1, <2>1, SettingsNumbers DEF SettingsResting, SettingsKept
  <2>3. ASSUME NEW w \in SettingsVersions PROVE SettingsKept(w)'
    <3>1. x6'.kept[w] = IF w = x3 THEN SettingsChose(x1) ELSE x6.kept[w]
      BY <1>2, <1>3, <2>2
    <3> QED BY <1>1, <2>2, <3>1 DEF SettingsKept, SettingsListed, SettingsChose
  <2>4. x6'.now = IF x1.ver > v THEN x6'.kept[v] ELSE SettingsChose(x1)
    <3>1. CASE v > x3
      BY <1>1, <1>3, <2>2, <3>1, SettingsNumbers, v \in Int
         DEF Settings!Expected, SettingsHypotheses
    <3>2. CASE ~(v > x3)
      <4>1. x3 > v
        BY <1>1, <3>2, SettingsNumbers DEF SettingsHypotheses
      <4> QED BY <1>1, <1>2, <1>3, <2>2, <3>2, <4>1 DEF Settings!Expected
    <3> QED BY <3>1, <3>2
  <2>5. SettingsResting'
    BY <1>1, <2>2, <2>3, <2>4 DEF SettingsResting, SettingsChose
  <2> QED BY <2>5 DEF SettingsGood
<1> QED BY <1>1, <1>4, <1>5 DEF SettingsGoodInv

LEMMA SettingsCrashStep ==
    ASSUME SettingsTypes, SettingsGoodInv, Settings!Crash
    PROVE  SettingsTypes' /\ SettingsGoodInv'
<1>1. /\ UNCHANGED <<x1, x2, x3, x6>> /\ x4' = FALSE
      /\ x5' = [p \in Settings!Procs |-> Settings!Idle]
            /\ x7' = (x7 /\ \A p \in Settings!Procs : x5[p] = Settings!Idle)
  BY DEF Settings!Crash
<1>2. SettingsTypes'
  BY <1>1 DEF SettingsTypes, SettingsJobs
<1>3. ASSUME x7' PROVE SettingsGood'
  <2>1. SettingsResting
    BY <1>1, <1>3, SettingsDistinct
       DEF SettingsGoodInv, SettingsGood, SettingsWorking, SettingsRereading
  <2>2. SettingsResting'
    BY <1>1, <2>1 DEF SettingsResting, SettingsKept, SettingsListed
  <2> QED BY <2>2 DEF SettingsGood
<1> QED BY <1>2, <1>3 DEF SettingsGoodInv

LEMMA SettingsOwnersStep ==
    ASSUME SettingsHypotheses, SettingsTypes, SettingsGoodInv, [Settings!Next]_Settings!vars
    PROVE  SettingsTypes' /\ SettingsGoodInv'
<1>1. ASSUME NEW p \in Settings!Procs, Settings!Step(p) PROVE SettingsTypes' /\ SettingsGoodInv'
  BY <1>1, SettingsReadInitStep, SettingsGiveUpStep, SettingsTruncateStep, SettingsFillStep
     DEF Settings!Step
<1>2. ASSUME NEW p \in SettingsThreads, Settings!Use(p) PROVE SettingsTypes' /\ SettingsGoodInv'
  <2>1. PICK op \in {"patch", "password", "wizard", "reset"} :
            Settings!Begin(p, op, Settings!Change(op, x1))
    BY <1>2 DEF Settings!Use
  <2>2. Settings!Change(op, x1) \in Settings!Settings
    BY <2>1, SettingsMadeType DEF Settings!Begin, SettingsTypes
  <2> QED BY <2>1, <2>2, SettingsBeginStep DEF SettingsOps
<1>3. ASSUME NEW p \in SettingsThreads, Settings!Import(p) PROVE SettingsTypes' /\ SettingsGoodInv'
  <2>1. PICK v \in SettingsVersions :
          Settings!Begin(p, "import",
                Settings!Imported(x1,
                    [ver |-> v, choice |-> "owner", auth |-> TRUE, wizard |-> FALSE]))
    BY <1>3 DEF Settings!Import
  <2> DEFINE doc == [ver |-> v, choice |-> "owner", auth |-> TRUE, wizard |-> FALSE]
  <2>2. doc \in Settings!Settings /\ x1 \in Settings!Settings
    BY <2>1 DEF Settings!Settings, Settings!Choices, Settings!Begin, SettingsTypes
  <2>3. /\ Settings!Imported(x1, doc) \in Settings!Settings
               /\ Settings!Imported(x1, doc).choice = "owner"
        /\ Settings!Imported(x1, doc).auth = x1.auth
    BY <2>2, SettingsMadeType DEF Settings!Imported
  <2>4. Settings!Begin(p, "import", Settings!Imported(x1, doc))
    BY <2>1
  <2> HIDE DEF doc
  <2> QED BY <2>3, <2>4, SettingsBeginStep DEF SettingsOps
<1>4. CASE UNCHANGED Settings!vars
  BY <1>4 DEF Settings!vars, SettingsTypes, SettingsGoodInv, SettingsGood, SettingsResting,
     SettingsWorking, SettingsRereading, Settings!Alone, SettingsKept, SettingsListed,
     Settings!Heard
<1> QED BY <1>1, <1>2, <1>3, <1>4, SettingsInstallStep, SettingsCrashStep DEF Settings!Next

LEMMA SettingsOwnersHold ==
    ASSUME SettingsHypotheses, SettingsTypes, SettingsGoodInv
    PROVE  Settings!SettingsAreTheOwners
<1>1. ASSUME SettingsResting, x4
      PROVE  x1 # Settings!Torn /\ x1.ver = x3 /\ Settings!Told(x1.choice, x1.auth) = x6.now
  BY <1>1, SettingsNumbers, SettingsDistinct DEF SettingsResting, SettingsChose
<1>2. ASSUME x7, \A p \in Settings!Procs : x5[p] = Settings!Idle PROVE SettingsResting
  BY <1>2, SettingsDistinct DEF SettingsGoodInv, SettingsGood, SettingsWorking, SettingsRereading
<1> QED BY <1>1, <1>2 DEF Settings!SettingsAreTheOwners

LEMMA SettingsTypesOK == SettingsTypes => Settings!TypeOK
BY DEF SettingsTypes, Settings!TypeOK, SettingsJobs, Settings!Idle, SettingsAgain, SettingsWriting

\* Whatever is asked for, installed, rolled back, reset or imported, and whatever
\* crashes between two requests: as long as no two changes overlap, the file holds
\* what the owner last asked for in the version that is installed.
THEOREM OwnersKeepTheirSettings ==
    ASSUME SettingsHypotheses
    PROVE  Spec => []SettingsAreTheOwners
<1> DEFINE Inv == In("settings", SettingsTypes /\ SettingsGoodInv)
<1>1. Init => Inv
  BY SettingsTypesInit, SettingsGoodInit DEF Init, In, SettingsGoodInv
<1>2. Inv /\ [Next]_vars => Inv'
  <2>1. ASSUME SettingsTypes, SettingsGoodInv, [Settings!Next]_Settings!vars
        PROVE  SettingsTypes' /\ SettingsGoodInv'
    BY <2>1, SettingsOwnersStep
  <2> QED BY <2>1, PartsStep DEF In
<1>3. Inv => SettingsAreTheOwners
  BY SettingsOwnersHold DEF In, SettingsAreTheOwners
<1> HIDE DEF Inv
<1> QED BY <1>1, <1>2, <1>3, PTL DEF Spec

-----------------------------------------------------------------------------
(* The wired probes: x4 is queue, x5 last, x8 same.                        *)

\* TempQueue has two places at least and accepts a positive deviation.
PortsHypotheses ==
    PortsQLength \in Nat /\ PortsQLength > 1 /\ PortsDeviation \in Nat \ {0}
    /\ PortsFahrenheit \subseteq Int /\ PortsCelsius \subseteq Int

LEMMA Least == ASSUME NEW T, T \subseteq Nat, T # {} PROVE \E n \in T : \A m \in T : ~(m < n)
<1> DEFINE R == {ss \in Nat \X Nat : ss[1] < ss[2]}
<1>1. IsWellFoundedOn(R, Nat)
  BY NatLessThanWellFounded DEF OpToRel
<1> HIDE DEF R
<1>2. \E n \in T : \A m \in T : ~(<<m, n>> \in R)
  BY <1>1, WFMin
<1> QED BY <1>2 DEF R

\* The sum of a value that comes k times.
LEMMA PortsTotalOfOne ==
    ASSUME NEW q, NEW k \in Nat, NEW v \in Int, Len(q) = k, \A i \in 1..k : q[i] = v
    PROVE  Ports!Total(q) = k * v
<1> DEFINE Sums(f) == f = [i \in 0..k |-> IF i = 0 THEN 0 ELSE q[i] + f[i - 1]]
           sum == CHOOSE f : Sums(f)
<1>1. Sums([i \in 0..k |-> i * v])
  <2> DEFINE g == [i \in 0..k |-> i * v]
  <2>1. ASSUME NEW i \in 0..k PROVE g[i] = IF i = 0 THEN 0 ELSE q[i] + g[i - 1]
    <3>1. CASE i = 0
      BY <3>1
    <3>2. CASE i # 0
      <4>1. i \in 1..k /\ i - 1 \in 0..k
        BY <3>2
      <4>2. q[i] = v /\ g[i - 1] = (i - 1) * v /\ g[i] = i * v
        BY <4>1
      <4>3. i * v = v + (i - 1) * v
        OBVIOUS
      <4> QED BY <3>2, <4>2, <4>3
    <3> QED BY <3>1, <3>2
  <2> QED BY <2>1
<1>2. Sums(sum)
  BY <1>1
<1> HIDE DEF sum
<1>3. \A i \in 0..k : sum[i] = i * v
  <2> DEFINE T == {n \in 0..k : sum[n] # n * v}
  <2>1. SUFFICES ASSUME T # {} PROVE FALSE
    OBVIOUS
  <2>2. PICK n \in T : \A m \in T : ~(m < n)
    <3>1. T \subseteq Nat
      OBVIOUS
    <3> HIDE DEF T
    <3> QED BY <2>1, <3>1, Least
  <2>3. n \in 0..k /\ sum[n] = IF n = 0 THEN 0 ELSE q[n] + sum[n - 1]
    BY <1>2, <2>2
  <2>4. n # 0
    <3>1. n = 0 => sum[n] = 0 /\ n * v = 0
      BY <2>3
    <3> QED BY <2>2, <3>1
  <2>5. n - 1 \in 0..k /\ n \in 1..k /\ n - 1 \notin T
    BY <2>2, <2>3, <2>4
  <2>6. sum[n] = v + (n - 1) * v
    BY <2>3, <2>4, <2>5
  <2>7. v + (n - 1) * v = n * v
    BY <2>5
  <2> QED BY <2>2, <2>6, <2>7
<1>4. sum[k] = k * v
  BY <1>3
<1> QED BY <1>4 DEF Ports!Total, sum

\* Its readings do not deviate at all.
LEMMA PortsOneIsSteady ==
    ASSUME PortsHypotheses, NEW q \in Seq(Int), Len(q) = PortsQLength, NEW v \in Int,
           \A i \in 1..PortsQLength : q[i] = v
    PROVE  Ports!AveragedSum(q) = PortsQLength * v
<1>1. PortsQLength \in Nat /\ PortsQLength > 1 /\ PortsDeviation \in Nat /\ PortsDeviation > 0
  BY DEF PortsHypotheses
<1>2. Ports!Total(q) = PortsQLength * v
  BY <1>1, PortsTotalOfOne
<1>3. Ports!Squares(q) = PortsQLength * (v * v)
  <2> DEFINE p == [i \in 1..Len(q) |-> q[i] * q[i]]
  <2>1. v * v \in Int
    OBVIOUS
  <2>2. p \in [1..PortsQLength -> Int] /\ \A i \in 1..PortsQLength : p[i] = v * v
    <3>1. p \in [1..PortsQLength -> Int]
      <4>1. \A i \in 1..PortsQLength : q[i] \in Int
        OBVIOUS
      <4>2. \A i \in 1..PortsQLength : q[i] * q[i] \in Int
        BY <4>1
      <4> QED BY <4>2
    <3> QED BY <3>1
  <2>3. Len(p) = PortsQLength
    <3> HIDE DEF p
    <3> QED BY <1>1, <2>2
  <2> HIDE DEF p
  <2>4. Ports!Total(p) = PortsQLength * (v * v)
    BY <1>1, <2>1, <2>2, <2>3, PortsTotalOfOne
  <2> QED BY <2>4 DEF Ports!Squares, p
<1>4. PortsQLength * (PortsQLength * (v * v)) - (PortsQLength * v) * (PortsQLength * v) = 0
  BY <1>1
<1>5. PortsDeviation * PortsDeviation * PortsQLength * (PortsQLength - 1) > 0
  <2>1. \A a, b \in Int : a > 0 /\ b > 0 => a * b > 0 /\ a * b \in Int
    OBVIOUS
  <2>2. PortsDeviation * PortsDeviation > 0 /\ PortsDeviation * PortsDeviation \in Int
    BY <1>1, <2>1
  <2>3. PortsDeviation * PortsDeviation * PortsQLength > 0
            /\ PortsDeviation * PortsDeviation * PortsQLength \in Int
    BY <1>1, <2>1, <2>2
  <2>4. PortsQLength - 1 > 0 /\ PortsQLength - 1 \in Int
    BY <1>1
  <2> QED BY <2>1, <2>3, <2>4
<1>6. Ports!Steady(q)
  BY <1>2, <1>3, <1>4, <1>5 DEF Ports!Steady
<1> QED BY <1>2, <1>6 DEF Ports!AveragedSum

\* The newest readings, as many as came in a row, are the latest one; when they are
\* all that the queue holds, so is the average.
PortsInv ==
    /\ x4 = <<>> \/ (x4 \in Seq(Int) /\ Len(x4) = PortsQLength)
    /\ x8.times \in 0..PortsQLength /\ x8.value \in Int
    /\ x8.times > 0 => x4 # <<>> /\ \A i \in 1..x8.times : x4[i] = x8.value
    /\ x8.times = PortsQLength => x5 = PortsQLength * x8.value

LEMMA PortsEnqueuedIs ==
    ASSUME PortsHypotheses, NEW q, q = <<>> \/ (q \in Seq(Int) /\ Len(q) = PortsQLength),
           NEW v \in Int
    PROVE  /\ Ports!Enqueued(q, v) \in Seq(Int) /\ Len(Ports!Enqueued(q, v)) = PortsQLength
           /\ Ports!Enqueued(q, v) # <<>> /\ Ports!Enqueued(q, v)[1] = v
           /\ q # <<>> => \A i \in 2..PortsQLength : Ports!Enqueued(q, v)[i] = q[i - 1]
<1>1. PortsQLength \in Nat /\ PortsQLength > 1
  BY DEF PortsHypotheses
<1>2. CASE q = <<>>
  <2> DEFINE p == [i \in 1..PortsQLength |-> v]
  <2>1. p \in Seq(Int) /\ Len(p) = PortsQLength /\ p[1] = v
    BY <1>1
  <2>2. Ports!Enqueued(q, v) = p
    BY <1>2 DEF Ports!Enqueued
  <2> HIDE DEF p
  <2> QED BY <1>1, <1>2, <2>1, <2>2
<1>3. CASE q # <<>>
  <2> DEFINE f == SubSeq(q, 1, Len(q) - 1)
             p == <<v>> \o f
  <2>1. q \in Seq(Int) /\ Len(q) = PortsQLength
    BY <1>3
  <2>2. f \in Seq(Int) /\ Len(f) = PortsQLength - 1 /\ \A i \in 1..(PortsQLength - 1) : f[i] = q[i]
    BY <1>1, <2>1, SubSeqProperties
  <2>3. <<v>> \in Seq(Int) /\ Len(<<v>>) = 1 /\ <<v>>[1] = v
    OBVIOUS
  <2> HIDE DEF f
  <2>4. p \in Seq(Int) /\ Len(p) = PortsQLength
        /\ \A i \in 1..PortsQLength : p[i] = IF i <= 1 THEN v ELSE f[i - 1]
    BY <1>1, <2>2, <2>3, ConcatProperties
  <2>5. Ports!Enqueued(q, v) = p
    BY <1>3 DEF Ports!Enqueued, Ports!Front, f
  <2> HIDE DEF p
  <2>6. ASSUME NEW i \in 2..PortsQLength PROVE p[i] = q[i - 1]
    <3>1. i \in 1..PortsQLength /\ ~(i <= 1) /\ i - 1 \in 1..(PortsQLength - 1)
      BY <1>1
    <3> QED BY <2>2, <2>4, <3>1
  <2>7. p[1] = v /\ p # <<>>
    BY <1>1, <2>4
  <2> QED BY <2>4, <2>5, <2>6, <2>7
<1> QED BY <1>2, <1>3

LEMMA PortsInvInit == ASSUME PortsHypotheses, Ports!Init PROVE PortsInv
BY DEF PortsHypotheses, Ports!Init, PortsInv

LEMMA PortsReadStep ==
    ASSUME PortsHypotheses, PortsInv, NEW v \in Int, Ports!ReadWired(v)
    PROVE  PortsInv'
<1>1. /\ x4' = Ports!Enqueued(x4, v) /\ x5' = Ports!AveragedSum(x4')
      /\ x8' = [value |-> v,
                  times |-> IF v = x8.value THEN Ports!Min({x8.times + 1, PortsQLength}) ELSE 1]
  BY DEF Ports!ReadWired
<1>2. PortsQLength \in Nat /\ PortsQLength > 1 /\ x8.times \in 0..PortsQLength /\ x8.value \in Int
  BY DEF PortsHypotheses, PortsInv
<1>3. Ports!Min({x8.times + 1, PortsQLength}) =
          IF x8.times < PortsQLength THEN x8.times + 1 ELSE PortsQLength
  BY <1>2 DEF Ports!Min
<1> DEFINE p == Ports!Enqueued(x4, v)
<1>4. /\ p \in Seq(Int) /\ Len(p) = PortsQLength /\ p # <<>> /\ p[1] = v
      /\ x4 # <<>> => \A i \in 2..PortsQLength : p[i] = x4[i - 1]
  BY PortsEnqueuedIs DEF PortsInv
<1> HIDE DEF p
<1> DEFINE t == IF v = x8.value THEN Ports!Min({x8.times + 1, PortsQLength}) ELSE 1
<1>5. t \in 1..PortsQLength /\ (v # x8.value => t = 1) /\ (v = x8.value => t <= x8.times + 1)
  BY <1>2, <1>3
<1> HIDE DEF t
<1>6. \A i \in 1..t : p[i] = v
  <2> SUFFICES ASSUME NEW i \in 1..t, i # 1 PROVE p[i] = v
    BY <1>4
  <2>1. v = x8.value /\ i - 1 \in 1..x8.times /\ i \in 2..PortsQLength
    BY <1>2, <1>5
  <2>2. x4 # <<>> /\ x4[i - 1] = x8.value
    BY <1>2, <2>1 DEF PortsInv
  <2> QED BY <1>4, <2>1, <2>2
<1>7. t = PortsQLength => Ports!AveragedSum(p) = PortsQLength * v
  BY <1>4, <1>6, PortsOneIsSteady
<1>8. x4' = p /\ x5' = Ports!AveragedSum(p) /\ x8'.value = v /\ x8'.times = t
  BY <1>1 DEF p, t
<1> QED BY <1>2, <1>4, <1>5, <1>6, <1>7, <1>8 DEF PortsInv

LEMMA PortsInvStep == ASSUME PortsHypotheses, PortsInv, [Ports!Next]_Ports!vars PROVE PortsInv'
<1>1. ASSUME Ports!ReadProbes PROVE PortsInv'
  <2>1. PICK voltage \in Ports!Temps \cup {Ports!Beyond} : Ports!ReadWired(Ports!Converted(voltage))
    BY <1>1 DEF Ports!ReadProbes
  <2>2. Ports!Converted(voltage) \in Int
    BY <2>1 DEF Ports!Converted, Ports!Temps, Ports!Beyond, PortsHypotheses
  <2> QED BY <2>1, <2>2, PortsReadStep
<1>2. CASE Ports!Restart
  BY <1>2 DEF Ports!Restart, PortsInv, PortsHypotheses
<1>3. CASE Ports!UpdateUnits \/ UNCHANGED Ports!vars
  BY <1>3 DEF Ports!UpdateUnits, Ports!vars, PortsInv
<1> QED BY <1>1, <1>2, <1>3 DEF Ports!Next

LEMMA PortsInvShows == ASSUME PortsHypotheses, PortsInv PROVE Ports!SettledReadingIsShown
<1>1. \A n \in Nat \ {0}, v \in Int : (n * v) \div n = v
  OBVIOUS
<1> QED BY <1>1 DEF PortsHypotheses, PortsInv, Ports!SettledReadingIsShown

\* However long the queue, wide the deviation it accepts, and whatever it held: a
\* temperature that has come as often as the queue is long is the one reported.
THEOREM SettledReadingsAreShown ==
    ASSUME PortsHypotheses
    PROVE  Spec => []SettledReadingIsShown
<1> DEFINE PInv == In("ports", PortsInv)
<1>1. Init => PInv
  BY PortsInvInit DEF Init, In
<1>2. PInv /\ [Next]_vars => PInv'
  <2>1. ASSUME PortsInv, [Ports!Next]_Ports!vars PROVE PortsInv'
    BY <2>1, PortsInvStep
  <2> QED BY <2>1, PartsStep DEF In
<1>3. PInv => SettledReadingIsShown
  BY PortsInvShows DEF In, SettledReadingIsShown
<1> HIDE DEF PInv
<1> QED BY <1>1, <1>2, <1>3, PTL DEF Spec

\* The sum of a queue whose elements are in a set closed under addition is in it.
LEMMA PortsTotalIn ==
    ASSUME NEW S, S \subseteq Int, 0 \in S, \A a, b \in S : a + b \in S, NEW q \in Seq(S)
    PROVE  Ports!Total(q) \in S
<1> DEFINE k == Len(q)
           Sums(f) == f = [i \in 0..k |-> IF i = 0 THEN 0 ELSE q[i] + f[i - 1]]
           Upto(n, f) == /\ f \in [0..n -> S] /\ f[0] = 0
                         /\ \A i \in 1..n : f[i] = q[i] + f[i - 1]
           sum == CHOOSE f : Sums(f)
<1>1. k \in Nat /\ \A i \in 1..k : q[i] \in S
  OBVIOUS
<1> HIDE DEF k
<1>2. \A n \in 0..k : \E f : Upto(n, f)
  <2> DEFINE T == {n \in 0..k : ~ \E f : Upto(n, f)}
  <2>1. SUFFICES ASSUME T # {} PROVE FALSE
    OBVIOUS
  <2>2. PICK n \in T : \A m \in T : ~(m < n)
    <3>1. T \subseteq Nat
      OBVIOUS
    <3> HIDE DEF T
    <3> QED BY <2>1, <3>1, Least
  <2>3. n # 0
    <3>1. Upto(0, [i \in 0..0 |-> 0])
      OBVIOUS
    <3> QED BY <2>2, <3>1
  <2>4. n \in 1..k /\ n - 1 \in 0..k /\ n - 1 < n
    <3> HIDE DEF Upto
    <3> QED BY <1>1, <2>2, <2>3
  <2>5. PICK f : Upto(n - 1, f)
    <3> HIDE DEF Upto
    <3> QED BY <2>2, <2>4
  <2> DEFINE g == [i \in 0..n |-> IF i = n THEN q[n] + f[n - 1] ELSE f[i]]
  <2>6. q[n] \in S /\ f[n - 1] \in S /\ q[n] + f[n - 1] \in S
    <3>1. q[n] \in S
      BY <1>1, <2>4
    <3>2. f[n - 1] \in S
      BY <2>4, <2>5
    <3> QED BY <3>1, <3>2
  <2>7. g \in [0..n -> S] /\ g[0] = 0
    BY <2>4, <2>5, <2>6
  <2>8. ASSUME NEW i \in 1..n PROVE g[i] = q[i] + g[i - 1]
    <3>1. CASE i = n
      <4>1. g[i] = q[n] + f[n - 1] /\ g[i - 1] = f[n - 1]
        BY <2>4, <3>1
      <4> QED BY <3>1, <4>1
    <3>2. CASE i # n
      <4>1. i \in 1..(n - 1) /\ g[i] = f[i] /\ g[i - 1] = f[i - 1]
        BY <2>4, <3>2
      <4> QED BY <2>5, <4>1
    <3> QED BY <3>1, <3>2
  <2>9. Upto(n, g)
    BY <2>7, <2>8
  <2> QED BY <2>2, <2>9
<1>3. PICK f : Upto(k, f)
  <2> HIDE DEF Upto
  <2> QED BY <1>1, <1>2
<1>4. Sums(f)
  <2>1. f = [i \in 0..k |-> f[i]]
    BY <1>3
  <2>2. \A i \in 0..k : f[i] = IF i = 0 THEN 0 ELSE q[i] + f[i - 1]
    <3> TAKE i \in 0..k
    <3>1. i = 0 \/ i \in 1..k
      BY <1>1
    <3> QED BY <1>3, <3>1
  <2> QED BY <2>1, <2>2
<1>5. Sums(sum)
  BY <1>4
<1> HIDE DEF sum
<1>6. \A i \in 0..k : sum[i] \in S
  <2> DEFINE T == {n \in 0..k : sum[n] \notin S}
  <2>1. SUFFICES ASSUME T # {} PROVE FALSE
    OBVIOUS
  <2>2. PICK n \in T : \A m \in T : ~(m < n)
    <3>1. T \subseteq Nat
      OBVIOUS
    <3> HIDE DEF T
    <3> QED BY <2>1, <3>1, Least
  <2>3. n \in 0..k /\ sum[n] = IF n = 0 THEN 0 ELSE q[n] + sum[n - 1]
    BY <1>5, <2>2
  <2>4. n # 0
    BY <2>2, <2>3
  <2>5. n \in 1..k /\ n - 1 \in 0..k /\ n - 1 \notin T
    BY <1>1, <2>2, <2>3, <2>4
  <2>6. q[n] \in S /\ sum[n - 1] \in S
    BY <1>1, <2>5
  <2> QED BY <2>2, <2>3, <2>4, <2>6
<1>7. sum[k] \in S
  BY <1>1, <1>6
<1> QED BY <1>7 DEF Ports!Total, sum, k

\* What the queue may hold.
PortsReadings == PortsFahrenheit \cup PortsCelsius \cup {0}

\* The queue is empty or full, and its average is not negative.
PortsTypes ==
    /\ x1 \in Ports!Kinds /\ x2 \in Ports!SetToSeqs(Ports!Devices) /\ x3 \in {"F", "C"}
    /\ x4 \in Seq(PortsReadings) /\ Len(x4) \in {0, PortsQLength}
    /\ x5 \in Nat /\ x7 \in BOOLEAN
    /\ x6 \in [Ports!Devices -> Int]
    /\ x8.times \in 0..PortsQLength

PortsTemperatures == PortsFahrenheit \subseteq Nat /\ PortsCelsius \subseteq Nat

\* The devices before the virtual one are at most two, and not itself.
LEMMA PortsEarlierIs ==
    ASSUME x2 \in Ports!SetToSeqs(Ports!Devices)
    PROVE  /\ Ports!Earlier \in Seq({"wired", "transient"})
           /\ Len(Ports!Earlier) \in {0, 1, 2}
<1>1. Cardinality(Ports!Devices) = 3
  <2>1. IsFiniteSet({"wired"}) /\ Cardinality({"wired"}) = 1
    BY FS_Singleton
  <2>2. IsFiniteSet({"wired"} \cup {"transient"}) /\ Cardinality({"wired"} \cup {"transient"}) = 2
    BY <2>1, FS_AddElement
  <2>3. Cardinality(({"wired"} \cup {"transient"}) \cup {"virtual"}) = 3
    BY <2>2, FS_AddElement
  <2>4. Ports!Devices = ({"wired"} \cup {"transient"}) \cup {"virtual"}
    BY DEF Ports!Devices
  <2> QED BY <2>3, <2>4
<1>2. x2 \in [1..3 -> Ports!Devices] /\ \A i, j \in 1..3 : i # j => x2[i] # x2[j]
  <2>1. Ports!SetToSeqs(Ports!Devices)
          = {f \in [1..3 -> Ports!Devices] : \A i, j \in 1..3 : i # j => f[i] # f[j]}
    <3>1. \A S : Ports!Cardinality(S) = Cardinality(S)
      BY DEF Ports!Cardinality, Cardinality
    <3>2. Ports!Cardinality(Ports!Devices) = 3
      BY <1>1, <3>1
    <3> QED BY <3>2 DEF Ports!SetToSeqs
  <2> QED BY <2>1
<1>3. \E i \in 1..3 : x2[i] = "virtual"
  <2>1. x2[1] \in Ports!Devices /\ x2[2] \in Ports!Devices /\ x2[3] \in Ports!Devices
        /\ x2[1] # x2[2] /\ x2[1] # x2[3] /\ x2[2] # x2[3]
    BY <1>2
  <2> QED BY <2>1 DEF Ports!Devices
<1> DEFINE k == Ports!Place("virtual")
<1>4. k \in 1..3 /\ x2[k] = "virtual"
  BY <1>2, <1>3 DEF Ports!Place
<1> HIDE DEF k
<1>5. x2 \in Seq(Ports!Devices) /\ Len(x2) = 3
  <2>1. x2 = [i \in 1..3 |-> x2[i]] /\ \A i \in 1..3 : x2[i] \in Ports!Devices
    BY <1>2
  <2>2. [i \in 1..3 |-> x2[i]] \in Seq(Ports!Devices) /\ Len([i \in 1..3 |-> x2[i]]) = 3
    BY <2>1
  <2> QED BY <2>1, <2>2
<1> DEFINE e == SubSeq(x2, 1, k - 1)
<1>6. e \in Seq(Ports!Devices) /\ Len(e) = k - 1 /\ \A i \in 1..(k - 1) : e[i] = x2[i]
  <2>1. \A i \in 1..(k - 1) : x2[i] \in Ports!Devices
    <3>1. \A i \in 1..3 : x2[i] \in Ports!Devices
      BY <1>5, ElementOfSeq
    <3>2. \A i \in 1..(k - 1) : i \in 1..3
      BY <1>4
    <3> QED BY <3>1, <3>2
  <2>2. k - 1 \in Int /\ 1 \in Int /\ (k - 1) - 1 + 1 = k - 1
    BY <1>4
  <2>3. /\ e \in Seq(Ports!Devices)
        /\ Len(e) = IF 1 <= k - 1 THEN (k - 1) - 1 + 1 ELSE 0
        /\ \A i \in 1..((k - 1) - 1 + 1) : e[i] = x2[1 + i - 1]
    BY <2>1, <2>2, SubSeqProperties
  <2>4. Len(e) = k - 1
    BY <2>2, <2>3, <1>4
  <2>5. \A i \in 1..(k - 1) : 1 + i - 1 = i
    BY <1>4
  <2> HIDE DEF e
  <2> QED BY <2>2, <2>3, <2>4, <2>5
<1> HIDE DEF e
<1>7. \A i \in 1..(k - 1) : e[i] \in {"wired", "transient"}
  <2> TAKE i \in 1..(k - 1)
  <2>1. i \in 1..3 /\ i # k
    BY <1>4
  <2>2. x2[i] \in Ports!Devices /\ x2[i] # "virtual"
    BY <1>2, <1>4, <2>1
  <2> QED BY <1>6, <2>2 DEF Ports!Devices
<1>8. e \in Seq({"wired", "transient"})
  BY <1>4, <1>6, <1>7
<1> QED BY <1>4, <1>6, <1>8 DEF Ports!Earlier, e, k

\* What a virtual device reports for one number or two.
LEMMA PortsCombinedIs ==
    ASSUME x1 \in Ports!Kinds, NEW values \in Seq(Int), Len(values) \in {1, 2}
    PROVE  Ports!Combined(values) \in Int
<1>1. Ports!Average(values) \in Int
  <2>1. Ports!Total(values) \in Int
    BY PortsTotalIn
  <2> QED BY <2>1 DEF Ports!Average
<1>2. /\ values[1] \in Int /\ (Len(values) = 2 => values[2] \in Int)
      /\ Len(values) = 1 => Ports!ToSet(values) = {values[1]}
      /\ Len(values) = 2 => Ports!ToSet(values) = {values[1], values[2]}
  <2>1. DOMAIN values = 1..Len(values)
    OBVIOUS
  <2>2. ASSUME Len(values) = 1 PROVE Ports!ToSet(values) = {values[1]}
    <3>1. DOMAIN values = {1}
      BY <2>1, <2>2
    <3> QED BY <3>1 DEF Ports!ToSet
  <2>3. ASSUME Len(values) = 2 PROVE Ports!ToSet(values) = {values[1], values[2]}
    <3>1. DOMAIN values = {1, 2}
      BY <2>1, <2>3
    <3> QED BY <3>1 DEF Ports!ToSet
  <2> QED BY <2>2, <2>3
<1>3. \A a \in Int : Ports!Max({a}) \in Int /\ Ports!Min({a}) \in Int
  BY DEF Ports!Max, Ports!Min
<1>4. \A a, b \in Int : Ports!Max({a, b}) \in Int /\ Ports!Min({a, b}) \in Int
  <2> TAKE a, b \in Int
  <2>1. \E m \in {a, b} : \A y \in {a, b} : m >= y
    OBVIOUS
  <2>2. \E m \in {a, b} : \A y \in {a, b} : m =< y
    OBVIOUS
  <2> QED BY <2>1, <2>2 DEF Ports!Max, Ports!Min
<1>5. Ports!Highest(values) \in Int /\ Ports!Lowest(values) \in Int
  <2>1. CASE Len(values) = 1
    <3>1. Ports!ToSet(values) = {values[1]} /\ values[1] \in Int
      BY <1>2, <2>1
    <3>2. Ports!Missing \in Int
      BY DEF Ports!Missing
    <3> QED BY <1>3, <3>1, <3>2 DEF Ports!Highest, Ports!Lowest
  <2>2. CASE Len(values) = 2
    <3>1. Ports!ToSet(values) = {values[1], values[2]} /\ values[1] \in Int /\ values[2] \in Int
      BY <1>2, <2>2
    <3>2. Ports!Missing \in Int
      BY DEF Ports!Missing
    <3> QED BY <1>4, <3>1, <3>2 DEF Ports!Highest, Ports!Lowest
  <2> QED BY <2>1, <2>2
<1> QED BY <1>1, <1>5 DEF Ports!Combined, Ports!Kinds, Ports!Median

LEMMA PortsTypesInit == ASSUME PortsHypotheses, Ports!Init PROVE PortsTypes
BY DEF PortsHypotheses, Ports!Init, PortsTypes, PortsReadings

LEMMA PortsTypesStep ==
    ASSUME PortsHypotheses, PortsTemperatures, PortsTypes, [Ports!Next]_Ports!vars
    PROVE  PortsTypes'
<1>0. PortsQLength \in Nat /\ PortsQLength > 1 /\ PortsReadings \subseteq Nat
  BY DEF PortsHypotheses, PortsTemperatures, PortsReadings
<1>1. CASE Ports!ReadProbes
  <2>1. PICK voltage \in Ports!Temps \cup {Ports!Beyond},
            radio \in Ports!Temps \cup {Ports!Missing} :
           /\ Ports!ReadWired(Ports!Converted(voltage))
           /\ LET now  == [wired |-> x5' \div PortsQLength, transient |-> radio]
                  seen == [i \in DOMAIN Ports!Earlier |-> now[Ports!Earlier[i]]]
              IN  /\ x7' = ~Ports!Raises(seen)
                  /\ x6' = IF Ports!Raises(seen) THEN x6
                           ELSE [wired |-> now.wired, transient |-> radio,
                                 virtual |-> Ports!Combined(seen)]
    BY <1>1 DEF Ports!ReadProbes
  <2>2. Ports!Converted(voltage) \in PortsReadings /\ radio \in Int
    <3>1. Ports!Temps \subseteq PortsReadings
      BY DEF Ports!Temps, PortsReadings
    <3>2. Ports!Converted(voltage) \in PortsReadings
      <4>1. 0 \in PortsReadings
        BY DEF PortsReadings
      <4>2. voltage \in Ports!Temps \/ voltage = Ports!Beyond
        OBVIOUS
      <4> QED BY <3>1, <4>1, <4>2 DEF Ports!Converted
    <3>3. radio \in Int
      BY <1>0, <3>1 DEF Ports!Missing
    <3> QED BY <3>2, <3>3
  <2> DEFINE v == Ports!Converted(voltage)
  <2>3. x4' = Ports!Enqueued(x4, v) /\ x5' = Ports!AveragedSum(x4')
        /\ x8' = [value |-> v,
                  times |-> IF v = x8.value THEN Ports!Min({x8.times + 1, PortsQLength}) ELSE 1]
    BY <2>1 DEF Ports!ReadWired
  <2> HIDE DEF v
  <2>4. v \in PortsReadings
    BY <2>2 DEF v
  <2>5. x4' \in Seq(PortsReadings) /\ Len(x4') = PortsQLength
    <3>1. CASE x4 = <<>>
      <4>1. x4' = [i \in 1..PortsQLength |-> v]
        BY <2>3, <3>1 DEF Ports!Enqueued
      <4> QED BY <1>0, <2>4, <4>1
    <3>2. CASE x4 # <<>>
      <4> DEFINE f == SubSeq(x4, 1, Len(x4) - 1)
      <4>1. x4 \in Seq(PortsReadings) /\ Len(x4) = PortsQLength
        BY <3>2 DEF PortsTypes
      <4>2. f \in Seq(PortsReadings) /\ Len(f) = PortsQLength - 1
        BY <1>0, <4>1, SubSeqProperties
      <4>3. x4' = <<v>> \o f
        BY <2>3, <3>2 DEF Ports!Enqueued, Ports!Front
      <4> HIDE DEF f
      <4>4. <<v>> \in Seq(PortsReadings) /\ Len(<<v>>) = 1
        BY <2>4
      <4> QED BY <1>0, <4>2, <4>3, <4>4, ConcatProperties
    <3> QED BY <3>1, <3>2
  <2>6. x5' \in Nat
    <3>1. x4' \in Seq(Nat)
      <4>1. PICK p : p = x4'
        OBVIOUS
      <4>2. p \in Seq(PortsReadings)
        BY <2>5, <4>1
      <4>3. \A i \in 1..Len(p) : p[i] \in Nat
        <5> TAKE i \in 1..Len(p)
        <5>1. p[i] \in PortsReadings
          BY <4>2
        <5> QED BY <1>0, <5>1
      <4>4. p = [i \in 1..Len(p) |-> p[i]]
        BY <4>2
      <4>5. [i \in 1..Len(p) |-> p[i]] \in Seq(Nat)
        BY <4>2, <4>3
      <4> QED BY <4>1, <4>4, <4>5
    <3>2. Ports!Total(x4') \in Nat
      BY <3>1, PortsTotalIn
    <3> QED BY <2>3, <3>2 DEF Ports!AveragedSum, PortsTypes
  <2>7. x8'.times \in 0..PortsQLength
    <3>1. Ports!Min({x8.times + 1, PortsQLength})
            = IF x8.times < PortsQLength THEN x8.times + 1 ELSE PortsQLength
      BY <1>0 DEF PortsTypes, Ports!Min
    <3> QED BY <1>0, <2>3, <3>1 DEF PortsTypes
  <2>8. x6' \in [Ports!Devices -> Int] /\ x7' \in BOOLEAN
    <3>1. PICK w : w = x5' \div PortsQLength
      OBVIOUS
    <3>2. w \in Int
      BY <1>0, <2>6, <3>1
    <3> DEFINE now == [wired |-> w, transient |-> radio]
               seen == [i \in DOMAIN Ports!Earlier |-> now[Ports!Earlier[i]]]
    <3>3. x7' = ~Ports!Raises(seen)
          /\ x6' = IF Ports!Raises(seen) THEN x6
                   ELSE [wired |-> w, transient |-> radio, virtual |-> Ports!Combined(seen)]
      BY <2>1, <3>1
    <3>4. seen \in Seq(Int) /\ Len(seen) \in {0, 1, 2}
      <4>1. Ports!Earlier \in Seq({"wired", "transient"}) /\ Len(Ports!Earlier) \in {0, 1, 2}
        BY PortsEarlierIs DEF PortsTypes
      <4>2. PICK e : e = Ports!Earlier
        OBVIOUS
      <4>3. \A d \in {"wired", "transient"} : now[d] \in Int
        BY <2>2, <3>2
      <4> HIDE DEF now
      <4>4. DOMAIN e = 1..Len(e) /\ \A i \in 1..Len(e) : now[e[i]] \in Int
        BY <4>1, <4>2, <4>3
      <4>5. [i \in DOMAIN e |-> now[e[i]]] \in Seq(Int)
                /\ Len([i \in DOMAIN e |-> now[e[i]]]) = Len(e)
        BY <4>1, <4>2, <4>4
      <4> QED BY <4>1, <4>2, <4>5
    <3> HIDE DEF seen
    <3>5. CASE Ports!Raises(seen)
      BY <3>3, <3>5 DEF PortsTypes
    <3>6. CASE ~Ports!Raises(seen)
      <4>1. Len(seen) \in {1, 2}
        BY <3>4, <3>6 DEF Ports!Raises
      <4>2. PICK c \in Int : c = Ports!Combined(seen)
        BY <3>4, <4>1, PortsCombinedIs DEF PortsTypes
      <4>3. [wired |-> w, transient |-> radio, virtual |-> c] \in [Ports!Devices -> Int]
        BY <2>2, <3>2 DEF Ports!Devices
      <4> QED BY <3>3, <3>6, <4>2, <4>3
    <3> QED BY <3>5, <3>6
  <2> QED BY <1>1, <2>5, <2>6, <2>7, <2>8 DEF Ports!ReadProbes, PortsTypes
<1>2. CASE Ports!Restart
  BY <1>0, <1>2 DEF Ports!Restart, PortsTypes
<1>3. CASE Ports!UpdateUnits \/ UNCHANGED Ports!vars
  BY <1>3 DEF Ports!UpdateUnits, Ports!vars, PortsTypes
<1> QED BY <1>1, <1>2, <1>3 DEF Ports!Next

LEMMA PortsTypesOK == PortsTypes => Ports!TypeOK
BY DEF PortsTypes, PortsReadings, Ports!TypeOK

-----------------------------------------------------------------------------
(* The small displays: x1 is panel, x2 mode, x3 d, x4 event, x5 phase.    *)

\* Where a menu may be, and the fields of a display.
FlatPlaces == DOMAIN Flat!Menus \cup {"none", "grill_hold_value"}
FlatFields ==
    [command : {"none", "clear", "splash", "text", "network"},
     timeout : {"none", "running", "over"}, active : BOOLEAN, data : BOOLEAN,
     units : {"F", "C"}, setpoint : Int, menu : [at : FlatPlaces, option : Int], opened : BOOLEAN,
     age : {"fresh", "old"},
     screen : {"blank", "splash", "text", "network", "menu", "current"}]

\* Every field has its type, and the option is one of the menu's.
FlatGood(dd) == dd \in FlatFields /\ Flat!InMenu(dd)
FlatInv ==
    /\ x1 \in {"colour", "mono"} /\ x2 \in Flat!Modes
    /\ FlatGood(x3)
    /\ x4 \in [key : Flat!Keys \cup {"none"}, counter : {0, 1, 8}]
    /\ x5 \in {"input", "output", "drawn"}

\* The menus of the panel, and how long they are.
LEMMA FlatMenusAre ==
    ASSUME x1 \in {"colour", "mono"}
    PROVE  /\ DOMAIN Flat!Menus \subseteq DOMAIN Flat!ColourMenus
           /\ "inactive" \in DOMAIN Flat!Menus /\ "active" \in DOMAIN Flat!Menus
           /\ x1 = "colour" => 
                 DOMAIN Flat!Menus =
                     {"inactive", "active", "active_recipe", "prime_selection", "power_menu"}
           /\ "none" \notin DOMAIN Flat!Menus /\ "grill_hold_value" \notin DOMAIN Flat!Menus
           /\ \A at \in DOMAIN Flat!Menus : Len(Flat!Menus[at]) \in Nat \ {0}
<1>1. DOMAIN Flat!ColourMenus =
          {"inactive", "active", "active_recipe", "prime_selection", "power_menu"}
  BY DEF Flat!ColourMenus
<1>2. DOMAIN Flat!MonoMenus = {"inactive", "active"}
  BY DEF Flat!MonoMenus
<1>3. \A at \in DOMAIN Flat!ColourMenus : Len(Flat!ColourMenus[at]) \in Nat \ {0}
  BY SMTT(30), <1>1 DEF Flat!ColourMenus
<1>4. \A at \in DOMAIN Flat!MonoMenus : Len(Flat!MonoMenus[at]) \in Nat \ {0}
  BY <1>2 DEF Flat!MonoMenus
<1>5. CASE x1 = "colour"
  <2>1. Flat!Menus = Flat!ColourMenus
    BY <1>5 DEF Flat!Menus
  <2> HIDE DEF Flat!Menus
  <2> QED BY <2>1, <1>1, <1>3
<1>6. CASE x1 = "mono"
  <2>1. Flat!Menus = Flat!MonoMenus
    BY <1>6 DEF Flat!Menus
  <2> HIDE DEF Flat!Menus
  <2> QED BY <2>1, <1>6, <1>1, <1>2, <1>4
<1> QED BY <1>5, <1>6

LEMMA FlatInit == Flat!Init => FlatInv
<1> SUFFICES ASSUME Flat!Init PROVE FlatInv
  OBVIOUS
<1>1. x3.menu = Flat!NoMenu
  BY DEF Flat!Init
<1>2. Flat!InMenu(x3)
  BY <1>1, FlatMenusAre DEF Flat!InMenu, Flat!Init, Flat!NoMenu
<1> QED BY <1>2 DEF Flat!Init, FlatInv, FlatGood, FlatFields, FlatPlaces, Flat!Modes, Flat!NoKey,
           Flat!NoMenu

FlatPanel == x1 \in {"colour", "mono"}

\* What does not touch the menu leaves the option where it is.
LEMMA FlatSameMenu ==
    ASSUME NEW dd, FlatGood(dd), NEW e \in FlatFields, e.menu = dd.menu
    PROVE  FlatGood(e)
BY DEF FlatGood, Flat!InMenu

LEMMA FlatClosed == ASSUME FlatPanel, NEW dd, FlatGood(dd) PROVE FlatGood(Flat!Closed(dd))
<1>1. Flat!Closed(dd) \in FlatFields
  <2>1. Flat!NoMenu \in [at : FlatPlaces, option : Int]
    BY DEF Flat!NoMenu, FlatPlaces
  <2> QED BY <2>1 DEF FlatGood, FlatFields, Flat!Closed
<1>2. Flat!Closed(dd).menu.at = "none"
  BY DEF FlatGood, FlatFields, Flat!Closed, Flat!NoMenu
<1> QED BY <1>1, <1>2, FlatMenusAre DEF FlatPanel, FlatGood, Flat!InMenu

LEMMA FlatAt ==
    ASSUME FlatPanel, NEW dd, FlatGood(dd), NEW menu \in DOMAIN Flat!Menus
    PROVE  FlatGood(Flat!At(dd, menu))
<1>1. Flat!At(dd, menu) \in FlatFields
  BY DEF FlatGood, FlatFields, Flat!At, FlatPlaces
<1>2. Flat!At(dd, menu).menu = [at |-> menu, option |-> 0]
  BY DEF FlatGood, FlatFields, Flat!At
<1>3. 0 \in 0..(Len(Flat!Menus[menu]) - 1)
  BY FlatMenusAre DEF FlatPanel
<1> QED BY <1>1, <1>2, <1>3 DEF FlatGood, Flat!InMenu

LEMMA FlatHold == ASSUME FlatPanel, NEW dd, FlatGood(dd) PROVE FlatGood(Flat!HoldValue(dd))
<1>1. Flat!HoldValue(dd) \in FlatFields
  <2>1. \A v \in Int : [at |-> "grill_hold_value", option |-> v] \in [at : FlatPlaces, option : Int]
    BY DEF FlatPlaces
  <2>2. dd.setpoint \in Int
    BY DEF FlatGood, FlatFields
  <2> DEFINE first == IF x1 = "mono" THEN IF dd.units = "F" THEN 225 ELSE 100
                      ELSE IF ~dd.data \/ dd.setpoint = 0 THEN IF dd.units = "F" THEN 200 ELSE 100
                      ELSE dd.setpoint
  <2>3. first \in Int
    BY <2>2
  <2>4. Flat!HoldValue(dd) = [dd EXCEPT !.menu = [at |-> "grill_hold_value", option |-> first],
                                        !.active = TRUE]
    BY Zenon DEF Flat!HoldValue
  <2> HIDE DEF first
  <2>5. [dd EXCEPT !.menu = [at |-> "grill_hold_value", option |-> first], !.active = TRUE]
          \in FlatFields
    BY <2>1, <2>3 DEF FlatGood, FlatFields
  <2> QED BY <2>4, <2>5
<1>2. Flat!HoldValue(dd).menu.at = "grill_hold_value"
  BY DEF FlatGood, FlatFields, Flat!HoldValue
<1> QED BY <1>1, <1>2, FlatMenusAre DEF FlatPanel, FlatGood, Flat!InMenu

LEMMA FlatMoved ==
    ASSUME FlatPanel, NEW dd, FlatGood(dd), dd.menu.at \in DOMAIN Flat!Menus, NEW key
    PROVE  FlatGood(Flat!Moved(dd, key))
<1> DEFINE n == Len(Flat!Menus[dd.menu.at])
           o == IF key = "UP" THEN (dd.menu.option + 1) % n ELSE (dd.menu.option + n - 1) % n
<1>1. n \in Nat \ {0}
  BY FlatMenusAre DEF FlatPanel
<1>2. dd.menu.option \in Int
  BY DEF FlatGood, FlatFields
<1>3. o \in 0..(n - 1)
  <2>1. PICK m \in Nat \ {0} : m = n
    BY <1>1
  <2>2. PICK up \in Int : up = dd.menu.option + 1
    BY <1>2
  <2>3. PICK down \in Int : down = dd.menu.option + m - 1
    BY <1>2
  <2> HIDE DEF n
  <2>4. up % m \in 0..(m - 1) /\ down % m \in 0..(m - 1)
    OBVIOUS
  <2> QED BY <2>1, <2>2, <2>3, <2>4
<1>4. Flat!Moved(dd, key) = [dd EXCEPT !.menu = [dd.menu EXCEPT !.option = o]]
  BY DEF FlatGood, FlatFields, Flat!Moved
<1> HIDE DEF o, n
<1>5. [dd.menu EXCEPT !.option = o] \in [at : FlatPlaces, option : Int]
  BY <1>1, <1>3 DEF FlatGood, FlatFields
<1>6. Flat!Moved(dd, key) \in FlatFields /\ Flat!Moved(dd, key).menu = [dd.menu EXCEPT !.option = o]
  BY <1>4, <1>5 DEF FlatGood, FlatFields
<1>7. [dd.menu EXCEPT !.option = o].at = dd.menu.at /\ [dd.menu EXCEPT !.option = o].option = o
  BY DEF FlatGood, FlatFields
<1> QED BY <1>3, <1>6, <1>7 DEF FlatGood, Flat!InMenu, n

LEMMA FlatStepped ==
    ASSUME FlatPanel, NEW dd, FlatGood(dd), dd.menu.at = "grill_hold_value",
           NEW key \in {"UP", "DOWN"},
           NEW counter \in Int
    PROVE  FlatGood([dd EXCEPT !.menu.option = Flat!Stepped(@, key, dd.units, counter)])
<1> DEFINE o == Flat!Stepped(dd.menu.option, key, dd.units, counter)
<1>1. Flat!StepValue(dd.units, counter) \in Int
  BY DEF Flat!StepValue
<1>2. o \in Int
  BY <1>1 DEF FlatGood, FlatFields, Flat!Stepped
<1>4. [dd EXCEPT !.menu.option = Flat!Stepped(@, key, dd.units, counter)]
        = [dd EXCEPT !.menu = [dd.menu EXCEPT !.option = o]]
  BY DEF FlatGood, FlatFields
<1> HIDE DEF o
<1>5. [dd.menu EXCEPT !.option = o] \in [at : FlatPlaces, option : Int]
      /\ [dd.menu EXCEPT !.option = o].at = "grill_hold_value"
  BY <1>2 DEF FlatGood, FlatFields
<1>6. [dd EXCEPT !.menu = [dd.menu EXCEPT !.option = o]] \in FlatFields
      /\ [dd EXCEPT !.menu = [dd.menu EXCEPT !.option = o]].menu.at = "grill_hold_value"
  BY <1>5 DEF FlatGood, FlatFields
<1>7. FlatGood([dd EXCEPT !.menu = [dd.menu EXCEPT !.option = o]])
  BY <1>6, FlatMenusAre DEF FlatPanel, FlatGood, Flat!InMenu
<1> QED BY <1>4, <1>7

LEMMA FlatDrawn ==
    ASSUME FlatPanel, NEW dd, FlatGood(dd), NEW item PROVE FlatGood(Flat!Drawn(dd, item))
<1>1. FlatGood([dd EXCEPT !.screen = "menu"])
  BY FlatSameMenu DEF FlatGood, FlatFields
<1> QED BY <1>1 DEF Flat!Drawn

LEMMA FlatChosen ==
    ASSUME FlatPanel, NEW dd, FlatGood(dd), NEW item
    PROVE  /\ x1 = "colour" => FlatGood(Flat!ChosenColour(dd, item))
           /\ x1 = "mono" => FlatGood(Flat!ChosenMono(dd, item))
<1>1. FlatGood(Flat!Closed(dd)) /\ FlatGood(Flat!HoldValue(dd))
  BY FlatClosed, FlatHold
<1>2. \A e : FlatGood(e) =>
        /\ FlatGood([e EXCEPT !.opened = TRUE]) /\ FlatGood([e EXCEPT !.command = "network"])
        /\ FlatGood([e EXCEPT !.data = FALSE]) /\ FlatGood([e EXCEPT !.active = TRUE])
        /\ FlatGood([e EXCEPT !.command = "clear"])
  <2> TAKE e
  <2> HAVE FlatGood(e)
  <2>1. /\ [e EXCEPT !.opened = TRUE] \in FlatFields /\ [e EXCEPT !.opened = TRUE].menu = e.menu
        /\ [e EXCEPT !.command = "network"] \in FlatFields
              /\ [e EXCEPT !.command = "network"].menu = e.menu
        /\ [e EXCEPT !.data = FALSE] \in FlatFields /\ [e EXCEPT !.data = FALSE].menu = e.menu
        /\ [e EXCEPT !.active = TRUE] \in FlatFields /\ [e EXCEPT !.active = TRUE].menu = e.menu
        /\ [e EXCEPT !.command = "clear"] \in FlatFields
              /\ [e EXCEPT !.command = "clear"].menu = e.menu
    BY DEF FlatGood, FlatFields
  <2> QED BY <2>1, FlatSameMenu
<1>3. x1 = "colour" => FlatGood(Flat!Submenu(dd, item))
          \/ item \notin {"Menu_Back", "Prime", "Power"}
  BY FlatAt, FlatMenusAre DEF FlatPanel, Flat!Submenu
<1>4. x1 = "colour" => FlatGood(Flat!ChosenColour(dd, item))
  BY <1>1, <1>2, <1>3 DEF Flat!ChosenColour
<1>5. x1 = "mono" => FlatGood(Flat!ChosenMono(dd, item))
  BY <1>1, <1>2 DEF Flat!ChosenMono
<1> QED BY <1>4, <1>5

\* _menu_display, from the fields a key has just overridden.
LEMMA FlatMenu ==
    ASSUME FlatPanel, x2 \in Flat!Modes, NEW dd, FlatGood(dd), NEW key \in Flat!Keys,
           NEW counter \in Int, Flat!menu_display(dd, key, counter)
    PROVE  FlatGood(x3')
<1>1. CASE dd.menu.at = "none"
  <2>1. Flat!MenuFor(x2) \in DOMAIN Flat!Menus
    BY FlatMenusAre DEF FlatPanel, Flat!MenuFor
  <2>2. x3' = Flat!Drawn(Flat!At(dd, Flat!MenuFor(x2)), "none")
    BY <1>1 DEF Flat!menu_display
  <2> QED BY <2>1, <2>2, FlatAt, FlatDrawn
<1>2. CASE dd.menu.at = "grill_hold_value" /\ key = "ENTER"
  <2>1. FlatGood(Flat!Closed(dd))
    BY FlatClosed
  <2>2. FlatGood([Flat!Closed(dd) EXCEPT !.command = "clear"])
    BY <2>1, FlatSameMenu DEF FlatGood, FlatFields
  <2>3. \/ x3' = Flat!Drawn(Flat!Closed(dd), "none")
        \/ x3' = Flat!Drawn([Flat!Closed(dd) EXCEPT !.command = "clear"], "none")
    BY <1>2 DEF Flat!menu_display
  <2> QED BY <2>1, <2>2, <2>3, FlatDrawn
<1>3. CASE dd.menu.at = "grill_hold_value" /\ key # "ENTER"
  <2>1. x3' = Flat!Drawn([dd EXCEPT !.menu.option = Flat!Stepped(@, key, dd.units, counter)],
            "none")
    BY <1>3 DEF Flat!menu_display
  <2>2. key \in {"UP", "DOWN"}
    BY <1>3 DEF Flat!Keys
  <2> QED BY <1>3, <2>1, <2>2, FlatStepped, FlatDrawn
<1>4. CASE dd.menu.at \in DOMAIN Flat!Menus /\ key # "ENTER"
  <2>1. x3' = Flat!Drawn(Flat!Moved(dd, key), "none")
    BY <1>4, FlatMenusAre DEF FlatPanel, Flat!menu_display
  <2> QED BY <1>4, <2>1, FlatMoved, FlatDrawn
<1>5. CASE dd.menu.at \in DOMAIN Flat!Menus /\ key = "ENTER"
  <2> DEFINE item == Flat!Selected(dd)
  <2>1. x3' = Flat!Drawn(IF x1 = "colour" THEN Flat!ChosenColour(dd, item)
                         ELSE Flat!ChosenMono(dd, item), item)
    BY <1>5, FlatMenusAre, Zenon DEF FlatPanel, Flat!menu_display
  <2> HIDE DEF item
  <2>2. FlatGood(IF x1 = "colour" THEN Flat!ChosenColour(dd, item) ELSE Flat!ChosenMono(dd, item))
    BY FlatChosen DEF FlatPanel
  <2> QED BY <2>1, <2>2, FlatDrawn
<1>6. dd.menu.at \in FlatPlaces
  BY DEF FlatGood, FlatFields
<1> QED BY <1>1, <1>2, <1>3, <1>4, <1>5, <1>6 DEF FlatPlaces

\* The rest of the loop leaves the menu or closes it.
LEMMA FlatOutput ==
    ASSUME FlatInv, Flat!Output
    PROVE  FlatGood(x3') /\ x5' \in {"input", "output", "drawn"}
<1>0. FlatPanel /\ FlatGood(x3)
  BY DEF FlatInv, FlatPanel
<1> DEFINE dd == Flat!Expired(x3)
<1>1. FlatGood(dd)
  <2>1. x3 \in FlatFields
    BY <1>0 DEF FlatGood
  <2>2. PICK t \in {"none", x3.timeout}, c \in {"clear", x3.command} :
          dd = [x3 EXCEPT !.timeout = t, !.command = c]
    BY <2>1 DEF Flat!Expired, FlatFields
  <2> HIDE DEF dd
  <2>3. dd \in FlatFields /\ dd.menu = x3.menu
    BY <2>1, <2>2 DEF FlatFields
  <2> QED BY <1>0, <2>3, FlatSameMenu
<1>2. \A e : FlatGood(e) => FlatGood(Flat!Cleared(e))
  <2>1. ASSUME NEW e, FlatGood(e)
        PROVE  Flat!Cleared(e) \in FlatFields /\ Flat!Cleared(e).menu = e.menu
    BY <2>1 DEF FlatGood, FlatFields, Flat!Cleared
  <2> QED BY <2>1, FlatSameMenu
<1>3. \A e : FlatGood(e) => FlatGood(Flat!Shown(e))
  <2> TAKE e
  <2> HAVE FlatGood(e)
  <2>1. FlatGood(Flat!Closed(e))
    BY <1>0, FlatClosed
  <2>2. FlatGood(Flat!MenuTimedOut(e))
    <3>1. Flat!MenuTimedOut(e) \in FlatFields /\ Flat!MenuTimedOut(e).menu = Flat!Closed(e).menu
      BY <2>1 DEF FlatGood, FlatFields, Flat!MenuTimedOut
    <3> QED BY <2>1, <3>1, FlatSameMenu
  <2>3. FlatGood([e EXCEPT !.screen = "current", !.data = (x1 = "mono")])
    <3>1. PICK b \in BOOLEAN : b = (x1 = "mono")
      OBVIOUS
    <3>2. [e EXCEPT !.screen = "current", !.data = b] \in FlatFields
          /\ [e EXCEPT !.screen = "current", !.data = b].menu = e.menu
      BY DEF FlatGood, FlatFields
    <3> QED BY <3>1, <3>2, FlatSameMenu
  <2> QED BY <2>2, <2>3 DEF Flat!Shown
<1>4. \A e : FlatGood(e) => FlatGood(Flat!Splash(e))
  <2>1. ASSUME NEW e, FlatGood(e)
        PROVE  Flat!Splash(e) \in FlatFields /\ Flat!Splash(e).menu = e.menu
    BY <2>1 DEF FlatGood, FlatFields, Flat!Splash
  <2> QED BY <2>1, FlatSameMenu
<1>5. \A e : FlatGood(e) /\ e.command \in {"text", "network"}
          => FlatGood([e EXCEPT !.screen = e.command])
  <2>1. \A e : FlatGood(e) /\ e.command \in {"text", "network"} =>
          [e EXCEPT !.screen = e.command] \in FlatFields
              /\ [e EXCEPT !.screen = e.command].menu = e.menu
    BY DEF FlatGood, FlatFields
  <2> QED BY <2>1, FlatSameMenu
<1> HIDE DEF dd
<1>6. \/ x3' = Flat!Shown(Flat!Cleared(dd)) /\ x5' = "input"
      \/ x3' = Flat!Cleared(dd) /\ x5' = "input"
      \/ x3' = Flat!Splash(dd) /\ x5' = "input"
      \/ dd.command \in {"text", "network"} /\ x3' = [dd EXCEPT !.screen = dd.command]
            /\ x5' = "drawn"
      \/ x3' = Flat!Shown(dd) /\ x5' = "input"
  BY DEF dd, Flat!Output
<1> QED BY <1>1, <1>2, <1>3, <1>4, <1>5, <1>6

LEMMA FlatStep == ASSUME FlatInv, [Flat!Next]_Flat!vars PROVE FlatInv'
<1>0. FlatPanel /\ FlatGood(x3) /\ x2 \in Flat!Modes
  BY DEF FlatInv, FlatPanel
<1>8. ASSUME x1' = x1, FlatGood(x3') PROVE FlatGood(x3)'
  BY <1>8 DEF FlatGood, FlatFields, FlatPlaces, Flat!InMenu, Flat!Menus
<1>9. ASSUME NEW e, e \in FlatFields, e.menu = x3.menu, x3' = e, x1' = x1
      PROVE  FlatGood(x3)'
  BY <1>0, <1>8, <1>9, FlatSameMenu
<1>1. CASE Flat!Input
  <2>1. CASE x4.key = "none"
    <3>1. x3' = x3 /\ x1' = x1
      BY <1>1, <2>1 DEF Flat!Input
    <3> QED BY <1>0, <1>1, <1>8, <3>1 DEF Flat!Input, FlatInv, Flat!NoKey
  <2>2. CASE x4.key # "none"
    <3> DEFINE dd == [x3 EXCEPT !.timeout = "none", !.command = "none", !.opened = TRUE,
                            !.age = "fresh", !.active = IF x1 = "mono" THEN TRUE ELSE @]
    <3>1. dd \in FlatFields /\ dd.menu = x3.menu
      BY <1>0 DEF FlatGood, FlatFields
    <3>2. Flat!menu_display(dd, x4.key, x4.counter)
      BY <1>1, <2>2 DEF Flat!Input
    <3>3. x4.key \in Flat!Keys /\ x4.counter \in Int
      BY <2>2 DEF FlatInv
    <3> HIDE DEF dd
    <3>4. FlatGood(dd)
      BY <1>0, <3>1, FlatSameMenu
    <3>5. FlatGood(x3')
      BY <1>0, <3>2, <3>3, <3>4, FlatMenu
    <3> QED BY <3>5, <1>1, <1>8 DEF Flat!Input, FlatInv, Flat!NoKey
  <2> QED BY <2>1, <2>2
<1>2. CASE Flat!Output
  BY <1>2, <1>8, FlatOutput DEF Flat!Output, FlatInv
<1>3. CASE Flat!NoAddress
  <2> DEFINE e == [Flat!Expired(x3) EXCEPT !.command = "text"]
  <2>1. e \in FlatFields /\ e.menu = x3.menu
    BY <1>0 DEF FlatGood, FlatFields, Flat!Expired
  <2>2. x3' = e /\ x1' = x1
    BY <1>3 DEF Flat!NoAddress
  <2> HIDE DEF e
  <2>3. FlatGood(x3)'
    BY <2>1, <2>2, <1>9
  <2> QED BY <2>3, <1>3 DEF Flat!NoAddress, FlatInv
<1>4. CASE Flat!Forget
  <2> DEFINE e == [x3 EXCEPT !.command = "none", !.timeout = "running",
                      !.active = IF x1 = "mono" THEN TRUE ELSE @]
  <2>1. e \in FlatFields /\ e.menu = x3.menu
    BY <1>0 DEF FlatGood, FlatFields
  <2>2. x3' = e /\ x1' = x1
    BY <1>4 DEF Flat!Forget
  <2> HIDE DEF e
  <2>3. FlatGood(x3)'
    BY <2>1, <2>2, <1>9
  <2> QED BY <2>3, <1>4 DEF Flat!Forget, FlatInv
<1>5. CASE Flat!TimePasses
  <2> DEFINE e == [x3 EXCEPT !.timeout = IF @ = "running" THEN "over" ELSE @, !.age = "old"]
  <2>1. e \in FlatFields /\ e.menu = x3.menu
    BY <1>0 DEF FlatGood, FlatFields
  <2>2. x3' = e /\ x1' = x1
    BY <1>5 DEF Flat!TimePasses
  <2> HIDE DEF e
  <2>3. FlatGood(x3)'
    BY <2>1, <2>2, <1>9
  <2> QED BY <2>3, <1>5 DEF Flat!TimePasses, FlatInv
<1>6. ASSUME NEW e, e \in FlatFields, e.menu = x3.menu, Flat!Called(e) PROVE FlatInv'
  <2>1. FlatGood(x3)'
    BY <1>6, <1>9 DEF Flat!Called
  <2> QED BY <1>6, <2>1 DEF Flat!Called, FlatInv
<1>7. CASE \/ \E u \in {"F", "C"}, sp \in {0, 230} : Flat!display_status(u, sp)
           \/ Flat!display_text \/ Flat!clear_display
  <2>1. ASSUME NEW u \in {"F", "C"}, NEW sp \in {0, 230}
        PROVE  LET e == [x3 EXCEPT !.units = u, !.active = TRUE, !.data = TRUE, !.setpoint = sp]
               IN  e \in FlatFields /\ e.menu = x3.menu
    <3>1. x3 \in FlatFields /\ sp \in Int
      BY <1>0 DEF FlatGood
    <3>2. PICK g : g = [x3 EXCEPT !.units = u, !.setpoint = sp]
      OBVIOUS
    <3>3. g \in FlatFields /\ g.menu = x3.menu
      BY <3>1, <3>2 DEF FlatFields
    <3>4. [g EXCEPT !.active = TRUE, !.data = TRUE] \in FlatFields
          /\ [g EXCEPT !.active = TRUE, !.data = TRUE].menu = g.menu
      BY <3>3 DEF FlatFields
    <3> DEFINE e == [x3 EXCEPT !.units = u, !.active = TRUE, !.data = TRUE, !.setpoint = sp]
    <3>5. e = [g EXCEPT !.active = TRUE, !.data = TRUE]
      BY <3>1, <3>2 DEF FlatFields
    <3> HIDE DEF e
    <3>6. e \in FlatFields /\ e.menu = x3.menu
      BY <3>3, <3>4, <3>5
    <3> QED BY <3>6 DEF e
  <2>2. LET e == [x3 EXCEPT !.command = "text"] IN e \in FlatFields /\ e.menu = x3.menu
    BY <1>0 DEF FlatGood, FlatFields
  <2>3. LET e == [x3 EXCEPT !.command = "clear"] IN e \in FlatFields /\ e.menu = x3.menu
    BY <1>0 DEF FlatGood, FlatFields
  <2> QED BY ZenonT(40), <1>6, <1>7, <2>1, <2>2, <2>3
             DEF Flat!display_status, Flat!display_text, Flat!clear_display
<1>10. CASE Flat!ModeChanges
  BY <1>0, <1>8, <1>10 DEF Flat!ModeChanges, FlatInv
<1>11. CASE \E k \in Flat!Keys, n \in {1, 8} : Flat!Press(k, n)
  BY <1>0, <1>8, <1>11 DEF Flat!Press, FlatInv
<1>12. CASE UNCHANGED Flat!vars
  BY <1>0, <1>8, <1>12 DEF Flat!vars, FlatInv
<1> QED BY <1>1, <1>2, <1>3, <1>4, <1>5, <1>7, <1>10, <1>11, <1>12 DEF Flat!Next, Flat!Loop

LEMMA FlatTypesOK == FlatInv => Flat!TypeOK /\ Flat!OnAnOption
<1> SUFFICES ASSUME FlatInv PROVE Flat!TypeOK /\ Flat!OnAnOption
  OBVIOUS
<1>1. x3.menu.at \in DOMAIN Flat!ColourMenus \cup {"none", "grill_hold_value"}
  BY FlatMenusAre DEF FlatInv, FlatGood, FlatFields, FlatPlaces
<1> QED BY <1>1 DEF FlatInv, FlatGood, FlatFields, Flat!TypeOK, Flat!OnAnOption

\* However the keys and the mode changes come, an open menu has its cursor on one of
\* its options: drawing it never looks past the end of the list.
THEOREM CursorsStayOnAnOption == Spec => []In("flat", Flat!OnAnOption)
<1> DEFINE Inv == In("flat", FlatInv)
<1>1. Init => Inv
  BY FlatInit DEF Init, In
<1>2. Inv /\ [Next]_vars => Inv'
  BY FlatStep, PartsStep DEF In
<1>3. Inv => In("flat", Flat!OnAnOption)
  BY FlatTypesOK DEF In
<1> HIDE DEF Inv
<1> QED BY <1>1, <1>2, <1>3, PTL DEF Spec

-----------------------------------------------------------------------------
(* A wireless probe: x1 is driver, x2 dev, x3 link, x4 session, x5 fresh,  *)
(* x6 replaced, x7 shown, x8 drops.                                        *)

\* The budgets are numbers.
WirelessHypotheses == WirelessDrops \in Nat /\ WirelessUnitChanges \in Nat

\* What a thread can find in its lists.
WirelessHeard == Wireless!Sessions \cup {Wireless!Missing, Wireless!Short}
WirelessDevices ==
    [setup : BOOLEAN, active : BOOLEAN, parsed : WirelessHeard, values : WirelessHeard]

\* While the link is up a connection was made; iGrill's list always has its places.
WirelessInv ==
    /\ x1 \in Wireless!Drivers /\ x2 \in WirelessDevices
    /\ x1 = "igrill_alt" => x2.values \in Wireless!Sessions \cup {Wireless!Missing}
    /\ x3 \in BOOLEAN /\ x4 \in {0} \cup Wireless!Sessions /\ (x3 => x4 \in Wireless!Sessions)
    /\ x5 \in BOOLEAN /\ x6 \in 0..WirelessUnitChanges
    /\ x7 \in Wireless!Sessions \cup {Wireless!Unset, Wireless!Missing}
    /\ x8 \in 0..WirelessDrops

LEMMA WirelessInit == ASSUME WirelessHypotheses, Wireless!Init PROVE WirelessInv
<1>1. Wireless!NewDevice(x1) \in WirelessDevices
  BY DEF Wireless!NewDevice, WirelessDevices, WirelessHeard
<1>2. x2.values = Wireless!Missing \/ x1 # "igrill_alt"
  BY DEF Wireless!Init, Wireless!NewDevice
<1>3. x6 \in 0..WirelessUnitChanges /\ x8 \in 0..WirelessDrops
  BY DEF Wireless!Init, WirelessHypotheses
<1> QED BY <1>1, <1>2, <1>3 DEF Wireless!Init, WirelessInv

\* What a driver's threads do: the device object goes on with fields of its types.
LEMMA WirelessThreads ==
    ASSUME WirelessInv,
           \/ Wireless!Ibbq \/ Wireless!IbbqAlt \/ Wireless!Igrill \/ Wireless!Meater
           \/ Wireless!MeaterAlt \/ Wireless!MeaterExp \/ Wireless!Cloud
    PROVE  WirelessInv'
<1> DEFINE Heard == Wireless!Sessions \cup {Wireless!Missing}
<1>1. ASSUME NEW dr, NEW e \in WirelessDevices, dr = "igrill_alt" => e.values \in Heard,
             Wireless!Device(dr, e),
             \/ Wireless!Connected
             \/ Wireless!Still
             \/ x5' = TRUE /\ UNCHANGED <<x3, x4, x8>>
             \/ x3' = FALSE /\ UNCHANGED <<x4, x5, x8>>
      PROVE  WirelessInv'
  <2>1. /\ x1' = x1 /\ x2' \in WirelessDevices /\ x6' = x6 /\ x7' = x7
        /\ x1 = "igrill_alt" => x2'.values \in Heard
    BY <1>1 DEF Wireless!Device
  <2>2. /\ x3' \in BOOLEAN /\ x4' \in {0} \cup Wireless!Sessions
        /\ x3' => x4' \in Wireless!Sessions
        /\ x5' \in BOOLEAN /\ x8' = x8
    <3> USE DEF WirelessInv
    <3>1. CASE Wireless!Connected
      BY <3>1 DEF Wireless!Connected
    <3>2. CASE Wireless!Still
      BY <3>2 DEF Wireless!Still
    <3>3. CASE x5' = TRUE /\ UNCHANGED <<x3, x4, x8>>
      BY <3>3
    <3>4. CASE x3' = FALSE /\ UNCHANGED <<x4, x5, x8>>
      BY <3>4
    <3> QED BY <1>1, <3>1, <3>2, <3>3, <3>4
  <2>3. Wireless!Sessions' = Wireless!Sessions
    BY DEF Wireless!Sessions
  <2> QED BY <2>1, <2>2, <2>3 DEF WirelessInv, WirelessDevices, WirelessHeard
<1>2. ASSUME NEW dr, NEW e, Wireless!Device(dr, e) PROVE x1 = dr /\ x2' = e
  BY <1>2 DEF Wireless!Device
<1>3. /\ \A b \in BOOLEAN : /\ [x2 EXCEPT !.setup = b] \in WirelessDevices
                             /\ [x2 EXCEPT !.active = b] \in WirelessDevices
      /\ \A v \in WirelessHeard : /\ [x2 EXCEPT !.parsed = v] \in WirelessDevices
                                   /\ [x2 EXCEPT !.values = v] \in WirelessDevices
                                   /\ [x2 EXCEPT !.values = v].values = v
      /\ \A b \in BOOLEAN, p \in WirelessHeard :
            [x2 EXCEPT !.setup = b, !.parsed = p] \in WirelessDevices
      /\ \A b \in BOOLEAN, v \in WirelessHeard :
            [x2 EXCEPT !.active = b, !.values = v] \in WirelessDevices
      /\ \A p, v \in WirelessHeard : [x2 EXCEPT !.parsed = p, !.values = v] \in WirelessDevices
      /\ \A b \in BOOLEAN, p, v \in WirelessHeard :
            [x2 EXCEPT !.active = b, !.parsed = p, !.values = v] \in WirelessDevices
  BY DEF WirelessInv, WirelessDevices
<1>4. /\ \A b, a \in BOOLEAN : /\ [x2 EXCEPT !.setup = b, !.active = a] \in WirelessDevices
                                /\ [x2 EXCEPT !.active = b, !.setup = a] \in WirelessDevices
      /\ \A b, a \in BOOLEAN, p \in WirelessHeard :
            [x2 EXCEPT !.setup = b, !.active = a, !.parsed = p] \in WirelessDevices
      /\ \A b, a \in BOOLEAN, v \in WirelessHeard :
            /\ [x2 EXCEPT !.setup = b, !.active = a, !.values = v] \in WirelessDevices
            /\ [x2 EXCEPT !.setup = b, !.active = a, !.values = v].values = v
  BY DEF WirelessInv, WirelessDevices
<1>5. /\ Wireless!Short \in WirelessHeard /\ Wireless!Missing \in WirelessHeard
      /\ x2.parsed \in WirelessHeard /\ (x3 => x4 \in WirelessHeard)
      /\ Wireless!Missing \in Heard /\ (x3 => x4 \in Heard)
  BY DEF WirelessHeard, WirelessInv, WirelessDevices
<1>6. CASE Wireless!Ibbq
  <2>1. CASE Wireless!IbbqSetup
    BY <2>1, <1>1, <1>3, <1>5 DEF Wireless!IbbqSetup
  <2>2. CASE Wireless!IbbqSensing
    BY <2>2, <1>1, <1>3 DEF Wireless!IbbqSensing
  <2>3. CASE Wireless!IbbqNotified
    BY <2>3, <1>1, <1>3, <1>5 DEF Wireless!IbbqNotified
  <2>4. CASE Wireless!IbbqGone
    BY <2>4, <1>1, <1>4 DEF Wireless!IbbqGone
  <2> QED BY <1>6, <2>1, <2>2, <2>3, <2>4 DEF Wireless!Ibbq
<1>7. CASE Wireless!IbbqAlt
  <2>1. CASE Wireless!IbbqAltConnected
    BY <2>1, <1>1, <1>4 DEF Wireless!IbbqAltConnected
  <2>2. CASE Wireless!IbbqAltTemp
    BY <2>2, <1>1, <1>3, <1>5 DEF Wireless!IbbqAltTemp
  <2>3. CASE Wireless!IbbqAltGone
    BY <2>3, <1>1, <1>4 DEF Wireless!IbbqAltGone
  <2> QED BY <1>7, <2>1, <2>2, <2>3 DEF Wireless!IbbqAlt
<1>8. CASE Wireless!Igrill
  <2>1. CASE Wireless!IgrillConnected
    <3>1. PICK heard \in {x4', Wireless!Missing} :
            Wireless!Device("igrill_alt",
                [x2 EXCEPT !.setup = TRUE, !.active = TRUE, !.values = heard])
      BY <2>1 DEF Wireless!IgrillConnected
    <3>2. heard \in Heard /\ heard \in WirelessHeard /\ Wireless!Connected
      BY <2>1 DEF Wireless!IgrillConnected, Wireless!Connected, WirelessHeard
    <3> QED BY <3>1, <3>2, <1>1, <1>4
  <2>2. CASE Wireless!IgrillProbe
    <3>1. PICK heard \in {x4, Wireless!Missing} :
              Wireless!Device("igrill_alt", [x2 EXCEPT !.values = heard])
      BY <2>2 DEF Wireless!IgrillProbe
    <3>2. heard \in Heard /\ heard \in WirelessHeard /\ Wireless!Still
      BY <2>2, <1>5 DEF Wireless!IgrillProbe
    <3> QED BY <3>1, <3>2, <1>1, <1>3
  <2>3. CASE Wireless!IgrillGone
    BY <2>3, <1>1, <1>4, <1>5 DEF Wireless!IgrillGone
  <2> QED BY <1>8, <2>1, <2>2, <2>3 DEF Wireless!Igrill
<1>9. CASE Wireless!Meater
  <2>1. CASE Wireless!MeaterSetup
    BY <2>1, <1>1, <1>3, <1>5 DEF Wireless!MeaterSetup
  <2>2. CASE Wireless!MeaterUpdate
    BY <2>2, <1>1, <1>3, <1>5 DEF Wireless!MeaterUpdate
  <2>3. CASE Wireless!MeaterGone
    BY <2>3, <1>1, <1>4 DEF Wireless!MeaterGone
  <2> QED BY <1>9, <2>1, <2>2, <2>3 DEF Wireless!Meater
<1>10. CASE Wireless!MeaterAlt
  <2>1. CASE Wireless!MeaterAltConnected
    BY <2>1, <1>1, <1>4, <1>5 DEF Wireless!MeaterAltConnected
  <2>2. CASE Wireless!MeaterAltUpdate
    BY <2>2, <1>1, <1>3, <1>5 DEF Wireless!MeaterAltUpdate, Wireless!MeaterAltTips
  <2>3. CASE Wireless!MeaterAltGone
    BY <2>3, <1>1, <1>4, <1>5 DEF Wireless!MeaterAltGone
  <2> QED BY <1>10, <2>1, <2>2, <2>3 DEF Wireless!MeaterAlt
<1>11. CASE Wireless!MeaterExp
  <2>0. "igrill_alt" \notin Wireless!ExpDrivers
    BY DEF Wireless!ExpDrivers
  <2>1. CASE Wireless!ExpSetup
    BY <2>0, <2>1, <1>1, <1>3, <1>5 DEF Wireless!ExpSetup
  <2>2. CASE Wireless!ExpNotified
    BY <2>0, <2>2, <1>1, <1>3, <1>5 DEF Wireless!ExpNotified
  <2>3. CASE Wireless!ExpSensing
    BY <2>0, <2>3, <1>1, <1>3, <1>5 DEF Wireless!ExpSensing, Wireless!ExpTips
  <2>4. CASE Wireless!ExpRaised
    BY <2>4, <1>1, <1>4, <1>5 DEF Wireless!ExpRaised
  <2> QED BY <1>11, <2>1, <2>2, <2>3, <2>4 DEF Wireless!MeaterExp
<1>12. CASE Wireless!Cloud
  <2>1. CASE Wireless!CloudConnected
    BY <2>1, <1>1, <1>3 DEF Wireless!CloudConnected
  <2>2. CASE Wireless!CloudReport
    BY <2>2, <1>1, <1>3, <1>5 DEF Wireless!CloudReport
  <2>3. CASE Wireless!CloudGone
    BY <2>3, <1>1, <1>3 DEF Wireless!CloudGone
  <2>4. CASE Wireless!CloudExpires
    BY <2>4 DEF Wireless!CloudExpires, WirelessInv
  <2> QED BY <1>12, <2>1, <2>2, <2>3, <2>4 DEF Wireless!Cloud
<1> QED BY <1>6, <1>7, <1>8, <1>9, <1>10, <1>11, <1>12

LEMMA WirelessStep ==
    ASSUME WirelessHypotheses, WirelessInv, [Wireless!Next]_Wireless!vars PROVE WirelessInv'
<1>1. CASE Wireless!ReadAllPorts
  <2>1. x2.values \in WirelessHeard /\ Wireless!IbbqValues(x2) \in WirelessHeard
    BY DEF WirelessInv, WirelessDevices, WirelessHeard, Wireless!IbbqValues
  <2>2. \A v \in WirelessHeard :
          Wireless!Kept(v) \in Wireless!Sessions \cup {Wireless!Unset, Wireless!Missing}
    BY DEF WirelessHeard, Wireless!Kept, WirelessInv
  <2>3. x7' \in Wireless!Sessions \cup {Wireless!Unset, Wireless!Missing}
    <3>1. Wireless!ExpAnswer \in Wireless!Sessions \cup {Wireless!Missing}
          /\ Wireless!CloudAnswer \in Wireless!Sessions \cup {Wireless!Missing}
      BY <2>1 DEF Wireless!ExpAnswer, Wireless!CloudAnswer, WirelessHeard
    <3> QED BY <1>1, <2>1, <2>2, <3>1
            DEF Wireless!ReadAllPorts, Wireless!IbbqAnswer, Wireless!IbbqAltAnswer,
                Wireless!IgrillAnswer,
                Wireless!MeaterAnswer, Wireless!MeaterAltAnswer, WirelessInv, Wireless!Drivers,
                Wireless!ExpDrivers
  <2>4. x2' \in WirelessDevices /\ (x1 = "igrill_alt" => x2' = x2)
    <3> DEFINE p == IF x1 = "ibbq" /\ Wireless!IbbqValues(x2) = Wireless!Missing
                    THEN Wireless!Missing ELSE x2.parsed
    <3>1. p \in WirelessHeard
      BY DEF WirelessInv, WirelessDevices, WirelessHeard
    <3>2. x2' = IF x1 \in {"ibbq", "ibbq_alt"}
                THEN [x2 EXCEPT !.values = Wireless!IbbqValues(x2), !.parsed = p] ELSE x2
      BY <1>1 DEF Wireless!ReadAllPorts
    <3> HIDE DEF p
    <3> QED BY <2>1, <3>1, <3>2 DEF WirelessInv, WirelessDevices
  <2> QED BY <1>1, <2>3, <2>4 DEF Wireless!ReadAllPorts, WirelessInv
<1>2. CASE Wireless!UpdateUnits
  <2>1. Wireless!NewDevice(x1) \in WirelessDevices
        /\ (x1 = "igrill_alt" => Wireless!NewDevice(x1).values = Wireless!Missing)
    BY DEF Wireless!NewDevice, WirelessDevices, WirelessHeard
  <2>2. x6' \in 0..WirelessUnitChanges
    BY <1>2 DEF Wireless!UpdateUnits, WirelessInv, WirelessHypotheses
  <2> QED BY <1>2, <2>1, <2>2 DEF Wireless!UpdateUnits, WirelessInv
<1>3. CASE Wireless!LinkLost
  <2>1. x8' \in 0..WirelessDrops
    BY <1>3 DEF Wireless!LinkLost, WirelessInv, WirelessHypotheses
  <2> QED BY <1>3, <2>1 DEF Wireless!LinkLost, WirelessInv
<1>4. CASE UNCHANGED Wireless!vars
  BY <1>4 DEF Wireless!vars, WirelessInv
<1> QED BY <1>1, <1>2, <1>3, <1>4, WirelessThreads DEF Wireless!Next

LEMMA WirelessTypesOK == WirelessInv => Wireless!TypeOK
BY DEF WirelessInv, WirelessDevices, WirelessHeard, Wireless!TypeOK

-----------------------------------------------------------------------------
(* MQTT and the lights: x1 is mode, x2 scheme, x3 wled, x5 adrift, x6 mqtt, *)
(* x8 unheard.                                                             *)

\* What the two handlers remember.
TellingWled ==
    [last_mode : TellingModes \cup {"none"}, duration : {"short", "long"},
     age : {"now", "second", "long"}]
TellingSaid ==
    [mode : TellingModes \cup {"none"}, msg : TellingModes \cup TellingEvents \cup {"none"}]
TellingMqtt ==
    [last : TellingSaid, last_mode : TellingModes \cup {"none"},
     link : {"down", "connecting", "up"}, wait : BOOLEAN]
TellingInv ==
    /\ x1 \in TellingModes /\ x2 \in {"profiles", "suggested", "traditional"}
    /\ x3 \in TellingWled /\ x5 \in BOOLEAN
    /\ x6 \in TellingMqtt /\ x8 \in BOOLEAN

LEMMA TellingInit == Telling!Init => TellingInv
<1>1. Telling!NewWled \in TellingWled
  BY DEF TellingWled, Telling!NewWled, Telling!None
<1>2. Telling!NewMqtt \in TellingMqtt
  BY DEF TellingSaid, TellingMqtt, Telling!NewMqtt, Telling!None
<1> QED BY <1>1, <1>2 DEF Telling!Init, TellingInv

\* What a handler of the broker makes of what it is to say.
TellingGood(m) == m.h \in TellingMqtt /\ m.lost \in BOOLEAN /\ DOMAIN m = {"h", "heard", "lost"}
                  /\ m = [h |-> m.h, heard |-> m.heard, lost |-> m.lost]

LEMMA TellingMade ==
    ASSUME NEW h \in TellingMqtt, NEW heard, NEW lost \in BOOLEAN
    PROVE  TellingGood([h |-> h, heard |-> heard, lost |-> lost])
BY DEF TellingGood

LEMMA TellingAsked == ASSUME NEW m, TellingGood(m) PROVE TellingGood(Telling!Asked(m))
<1> DEFINE g == [m.h EXCEPT !.link = "connecting", !.wait = TRUE]
<1>1. Telling!Asked(m) \in {m, [h |-> g, heard |-> m.heard, lost |-> m.lost]}
  BY DEF Telling!Asked, TellingGood
<1>2. g \in TellingMqtt
  BY DEF TellingGood, TellingMqtt
<1> HIDE DEF g
<1> QED BY <1>1, <1>2, TellingMade DEF TellingGood

LEMMA TellingSays ==
    ASSUME NEW m, TellingGood(m), NEW msg \in TellingModes \cup TellingEvents
    PROVE  TellingGood(Telling!Said(m, msg))
<1> DEFINE said == [m.h.last EXCEPT !.msg = msg]
           g == [m.h EXCEPT !.last = said]
           next == [h |-> g, heard |-> m.heard, lost |-> m.lost]
<1>1. [m EXCEPT !.h.last.msg = msg] = next
  BY DEF TellingGood
<1>2. said \in TellingSaid
  BY DEF TellingGood, TellingMqtt, TellingSaid
<1> HIDE DEF said
<1>3. g \in TellingMqtt
  BY <1>2 DEF TellingGood, TellingMqtt
<1> HIDE DEF g
<1>4. TellingGood(next)
  BY <1>3, TellingMade DEF TellingGood
<1> HIDE DEF next
<1> QED BY <1>1, <1>4, TellingAsked DEF Telling!Said

LEMMA TellingControls ==
    ASSUME TellingInv, NEW m, TellingGood(m), NEW other \in BOOLEAN
    PROVE  TellingGood(Telling!Controls(m, other))
<1> DEFINE said == [m.h.last EXCEPT !.mode = x1]
           g == [m.h EXCEPT !.last = said]
<1>1. PICK lost \in BOOLEAN, no \in BOOLEAN : lost = (m.lost \/ x1 # m.h.last.mode) /\ no = FALSE
  OBVIOUS
<1> DEFINE up == [h |-> g, heard |-> x1, lost |-> no]
           down == [h |-> g, heard |-> m.heard, lost |-> lost]
<1>2. g = [m.h EXCEPT !.last.mode = x1]
  BY DEF TellingGood, TellingMqtt
<1>3. said \in TellingSaid
  BY DEF TellingInv, TellingGood, TellingMqtt, TellingSaid
<1> HIDE DEF said
<1>4. g \in TellingMqtt
  BY <1>3 DEF TellingGood, TellingMqtt
<1> HIDE DEF g
<1>5. Telling!Controls(m, other) \in {m, up, Telling!Asked(down)}
  BY Zenon, <1>1, <1>2 DEF Telling!Controls
<1>6. TellingGood(up) /\ TellingGood(down)
  BY <1>4, TellingMade
<1> HIDE DEF up, down
<1> QED BY <1>5, <1>6, TellingAsked

LEMMA TellingTold ==
    ASSUME TellingInv, NEW m, TellingGood(m), NEW due \in BOOLEAN, NEW other \in BOOLEAN,
           NEW more \in BOOLEAN
    PROVE  TellingGood(Telling!Told(m, due, other, more))
<1> DEFINE first == Telling!Controls(m, other)
           second == Telling!Said(first, x1)
           g == [second.h EXCEPT !.last_mode = x1]
           third == [h |-> g, heard |-> second.heard, lost |-> second.lost]
           c == IF x1 # m.h.last_mode THEN [second EXCEPT !.h.last_mode = x1]
                ELSE IF due THEN first ELSE m
<1>1. x1 \in TellingModes
  BY DEF TellingInv
<1>2. TellingGood(first)
  BY TellingControls
<1> HIDE DEF first
<1>3. TellingGood(second)
  BY <1>1, <1>2, TellingSays
<1> HIDE DEF second
<1>4. g \in TellingMqtt
  BY <1>1, <1>3 DEF TellingGood, TellingMqtt
<1>5. [second EXCEPT !.h.last_mode = x1] = third
  BY <1>3 DEF TellingGood
<1> HIDE DEF g
<1>6. TellingGood(third)
  BY <1>3, <1>4, TellingMade DEF TellingGood
<1> HIDE DEF third
<1>7. TellingGood(c)
  BY <1>2, <1>5, <1>6
<1>8. Telling!Told(m, due, other, more) = IF more THEN Telling!Asked(c) ELSE c
  BY DEF Telling!Told, first, second
<1> HIDE DEF c
<1> QED BY <1>7, <1>8, TellingAsked

LEMMA TellingStep == ASSUME TellingInv, [Telling!Next]_Telling!vars PROVE TellingInv'
<1>0. TellingGood(Telling!Now)
  BY DEF TellingInv, TellingGood, Telling!Now
<1>1. ASSUME NEW m, TellingGood(m), Telling!Mqtt(m) PROVE x6' \in TellingMqtt /\ x8' \in BOOLEAN
  BY <1>1 DEF TellingGood, Telling!Mqtt
<1>2. CASE Telling!Pass
  <2>1. PICK due \in BOOLEAN, other \in BOOLEAN, more \in BOOLEAN :
          Telling!Mqtt(Telling!Told(Telling!Now, due, other, more))
    BY <1>2 DEF Telling!Pass
  <2>2. x6' \in TellingMqtt /\ x8' \in BOOLEAN
    BY <1>0, <1>1, <2>1, TellingTold
  <2>3. x3' \in TellingWled /\ x5' \in BOOLEAN
    <3>1. Telling!WledState
      BY <1>2 DEF Telling!Pass
    <3>2. x3' \in TellingWled
      <4>1. [x3 EXCEPT !.last_mode = x1, !.duration = "short"] \in TellingWled
        BY DEF TellingInv, TellingWled
      <4>2. [last_mode |-> x1, duration |-> "short", age |-> "now"] \in TellingWled
        BY DEF TellingInv, TellingWled
      <4> QED BY <3>1, <4>1, <4>2 DEF Telling!WledState, TellingInv
    <3>3. x5' \in BOOLEAN
      BY <3>1 DEF Telling!WledState, TellingInv
    <3> QED BY <3>2, <3>3
  <2> QED BY <1>2, <2>2, <2>3 DEF Telling!Pass, TellingInv
<1>3. ASSUME NEW e \in TellingEvents, Telling!Notice(e) PROVE TellingInv'
  <2>1. TellingGood(Telling!Said(Telling!Now, e))
    BY <1>0, TellingSays
  <2>2. PICK due \in BOOLEAN, other \in BOOLEAN, more \in BOOLEAN :
          Telling!Mqtt(Telling!Told(Telling!Said(Telling!Now, e), due, other, more))
    BY <1>3 DEF Telling!Notice
  <2>3. x6' \in TellingMqtt /\ x8' \in BOOLEAN
    BY <1>1, <2>1, <2>2, TellingTold
  <2>4. x3' \in TellingWled /\ x5' \in BOOLEAN
    <3>1. [x3 EXCEPT !.age = "now"] \in TellingWled
      BY DEF TellingInv, TellingWled
    <3>2. Telling!Forgotten \in TellingWled
      BY DEF Telling!Forgotten, Telling!None, TellingWled
    <3> QED BY <1>3, <3>1, <3>2 DEF Telling!Notice, Telling!WledEvent, TellingInv
  <2> QED BY <1>3, <2>3, <2>4 DEF Telling!Notice, TellingInv
<1>4. ASSUME NEW m \in TellingModes, Telling!SetMode(m) PROVE TellingInv'
  BY <1>4 DEF Telling!SetMode, TellingInv
<1>5. CASE Telling!Elapse
  BY <1>5 DEF Telling!Elapse, TellingInv, TellingWled
<1>6. CASE Telling!BackedOff \/ Telling!Connected \/ Telling!LinkLost
  BY <1>6 DEF Telling!BackedOff, Telling!Connected, Telling!LinkLost, TellingInv, TellingMqtt
<1>7. CASE Telling!Restart
  BY <1>7 DEF Telling!Restart, Telling!NewWled, Telling!NewMqtt, Telling!None, TellingInv,
     TellingWled,
              TellingMqtt, TellingSaid
<1>8. CASE UNCHANGED Telling!vars
  BY <1>8 DEF Telling!vars, TellingInv
<1> QED BY <1>2, <1>3, <1>4, <1>5, <1>6, <1>7, <1>8 DEF Telling!Next

LEMMA TellingTypesOK == TellingInv => Telling!TypeOK
BY DEF TellingInv, TellingWled, TellingMqtt, Telling!TypeOK, Telling!None

-----------------------------------------------------------------------------
(* A work cycle.  Its lemmas are those of WorkCycle_proofs, whose constants *)
(* and variables are here the appliance's.                                  *)

WorkP == INSTANCE WorkCycle_proofs WITH
    Cycle <- WorkCycleTime, Least <- WorkLeast, Most <- WorkMost, LidPause <- WorkLidPause,
    Override <- WorkOverride, On <- WorkOn, Off <- WorkOff, DcFan <- WorkDcFan,
    Changes <- WorkChanges,
    mode <- x1, out <- x2, s <- x3, ask <- x4, run <- x5, forced <- x6, still <- x7,
    left <- x8

LEMMA WorkInitIsP == Work!Init <=> WorkP!Init
BY
   DEF Work!AugerModes, WorkP!AugerModes, Work!Modes, WorkP!Modes, Work!FanOn, WorkP!FanOn,
       Work!Startable, WorkP!Startable, Work!Init, WorkP!Init

LEMMA WorkNextIsP == [Work!Next]_Work!vars <=> [WorkP!Next]_WorkP!vars
<1>1. Work!Next <=> WorkP!Next
  BY ZenonT(120)
     DEF Work!TotalFan, WorkP!TotalFan, Work!MostFan, WorkP!MostFan, Work!Larger,
         WorkP!Larger, Work!Longest, WorkP!Longest, Work!Cap, WorkP!Cap, Work!AugerModes,
         WorkP!AugerModes, Work!Modes, WorkP!Modes, Work!Changed, WorkP!Changed, Work!Soon,
         WorkP!Soon, Work!Older, WorkP!Older, Work!Less, WorkP!Less, Work!FanOn,
         WorkP!FanOn, Work!FanOff, WorkP!FanOff, Work!SetDuty, WorkP!SetDuty,
         Work!Startable, WorkP!Startable, Work!ManualPart, WorkP!ManualPart, Work!Ratio,
         WorkP!Ratio, Work!AugerPart, WorkP!AugerPart, Work!Opened, WorkP!Opened,
         Work!LidPart, WorkP!LidPart, Work!DutyPart, WorkP!DutyPart, Work!FanPidPart,
         WorkP!FanPidPart, Work!SmokePlus, WorkP!SmokePlus, Work!FanPart, WorkP!FanPart,
         Work!Ticked, WorkP!Ticked, Work!Answers, WorkP!Answers, Work!Pits, WorkP!Pits,
         Work!Fans, WorkP!Fans, Work!Forgotten, WorkP!Forgotten, Work!HeldOff,
         WorkP!HeldOff, Work!Pass, WorkP!Pass, Work!UserAsks, WorkP!UserAsks,
         Work!TogglesSmokePlus, WorkP!TogglesSmokePlus, Work!TogglesPwm, WorkP!TogglesPwm,
         Work!TogglesLid, WorkP!TogglesLid, Work!Overrides, WorkP!Overrides, Work!End,
         WorkP!End, Work!Next, WorkP!Next
<1> QED BY <1>1 DEF Work!vars, WorkP!vars

WorkInv == WorkP!Inv /\ WorkP!FanInv

WorkGoes == In("work", WorkInv)

LEMMA WorkInvHolds == ASSUME WorkP!Settings PROVE Spec => []WorkGoes
<1>1. Init => WorkGoes
  BY WorkInitIsP, WorkP!InvInit, WorkP!FanInit DEF Init, In, WorkInv, WorkGoes
<1>2. WorkGoes /\ [Next]_vars => WorkGoes'
  <2>1. ASSUME WorkInv, [Work!Next]_Work!vars PROVE WorkInv'
    BY <2>1, WorkNextIsP, WorkP!InvNext, WorkP!FanNext DEF WorkInv
  <2> QED BY <2>1, PartsStep DEF In, WorkGoes
<1> QED BY <1>1, <1>2, PTL DEF Spec

\* However long the cycle, whatever its shares and however often the user
\* interferes: an auger nobody holds is never on for longer than the largest share.
THEOREM AugerGoesOff == ASSUME WorkP!Settings PROVE Spec => []AugerIsBounded
<1>1. ASSUME WorkP!Inv PROVE Work!AugerIsBounded
  BY <1>1 DEF WorkP!Settings, WorkP!Inv, WorkP!Types, WorkP!RunInv, WorkP!Untouched,
              WorkP!Outs, Work!AugerIsBounded
<1>2. WorkGoes => AugerIsBounded
  BY <1>1 DEF WorkGoes, WorkInv, In, AugerIsBounded
<1> QED BY <1>2, WorkInvHolds, PTL

\* Likewise the fan in Smoke and Hold: since the last lid event or override held it
\* off it has not stood still for longer than its longest phase off (a cycle, smoke
\* plus's off time or its share of a cycle) and the rest of a cycle.
THEOREM FanStarts == ASSUME WorkP!Settings PROVE Spec => []FanComesBack
<1>1. WorkGoes => FanComesBack
  BY DEF WorkGoes, WorkInv, WorkP!FanInv, In, FanComesBack, Work!FanComesBack,
         Work!Soon, WorkP!Soon, Work!Longest, WorkP!Longest, Work!Larger, WorkP!Larger,
         Work!MostFan, WorkP!MostFan, Work!TotalFan, WorkP!TotalFan
<1> QED BY <1>1, WorkInvHolds, PTL

-----------------------------------------------------------------------------
(* A file of the library: as for the work cycle.                           *)

FileP == INSTANCE LibraryFile_proofs WITH
    Photos <- FilePhotos, Comments <- FileComments, Workers <- FileWorkers,
    kind <- x1, there <- x2, parts <- x3, images <- x4, used <- x5, named <- x6,
    request <- x7

LEMMA FileInitIsP == File!Init <=> FileP!Init
BY
   DEF File!NoOp, FileP!NoOp, File!Idle, FileP!Idle, File!Init, FileP!Init

LEMMA FileNextIsP == [File!Next]_File!vars <=> [FileP!Next]_FileP!vars
<1>1. File!Next <=> FileP!Next
  BY DEF File!Parts, FileP!Parts, File!NoOp, FileP!NoOp, File!Idle, FileP!Idle, File!Empty,
         FileP!Empty, File!PartsOf, FileP!PartsOf, File!WriteNew, FileP!WriteNew,
         File!CreateCook, FileP!CreateCook, File!CreateRecipe, FileP!CreateRecipe,
         File!Import, FileP!Import, File!Delete, FileP!Delete, File!CookOps, FileP!CookOps,
         File!Puts, FileP!Puts, File!RecipeOps, FileP!RecipeOps, File!Ops, FileP!Ops,
         File!CookPhoto, FileP!CookPhoto, File!RecipePhoto, FileP!RecipePhoto, File!Plan,
         FileP!Plan, File!Accepted, FileP!Accepted, File!Cover, FileP!Cover, File!Commented,
         FileP!Commented, File!Uncommented, FileP!Uncommented, File!CommentsAfter,
         FileP!CommentsAfter, File!RowsAfter, FileP!RowsAfter, File!Change, FileP!Change,
         File!Brought, FileP!Brought, File!NamedPhotos, FileP!NamedPhotos,
         File!NamedComments, FileP!NamedComments, File!NewIds, FileP!NewIds, File!Opened,
         FileP!Opened, File!Begin, FileP!Begin, File!Task, FileP!Task, File!Busy,
         FileP!Busy, File!Following, FileP!Following, File!ReadPart, FileP!ReadPart,
         File!Copy, FileP!Copy, File!Remove, FileP!Remove, File!Rename, FileP!Rename,
         File!AppendPart, FileP!AppendPart, File!AddImage, FileP!AddImage, File!Purge,
         FileP!Purge, File!Step, FileP!Step, File!Next, FileP!Next, File!Restrict,
         FileP!Restrict
<1> QED BY <1>1 DEF File!vars, FileP!vars

\* Whatever requests come, and in whichever order, as long as one worker serves them:
\* when it is idle the file has all its parts, the photos it has registered are those
\* whose images it holds, and it refers to no other but one a client has named.
THEOREM FilesAreWhole ==
    ASSUME NEW w, FileWorkers = {w}
    PROVE  Spec => []FileIsWhole
<1> DEFINE Inv == In("file", FileP!FileInv(w))
<1>1. Init => Inv
  BY FileInitIsP, FileP!FileInit DEF Init, In
<1>2. Inv /\ [Next]_vars => Inv'
  <2>1. ASSUME FileP!FileInv(w), [File!Next]_File!vars PROVE FileP!FileInv(w)'
    BY <2>1, FileNextIsP, FileP!FileStep
  <2> QED BY <2>1, PartsStep DEF In
<1>3. Inv => FileIsWhole
  <2>1. FileP!FileIsWhole => File!FileIsWhole
    BY
       DEF File!Parts, FileP!Parts, File!NoOp, FileP!NoOp, File!Idle, FileP!Idle, File!PartsOf,
           FileP!PartsOf, File!References, FileP!References, File!FileIsWhole, FileP!FileIsWhole
  <2> QED BY <2>1, FileP!FileHolds DEF In, FileIsWhole
<1> HIDE DEF Inv
<1> QED BY <1>1, <1>2, <1>3, PTL DEF Spec

-----------------------------------------------------------------------------
(* What the bridge publishes: as for the work cycle.                       *)

ArchiveP == INSTANCE CookArchive_proofs WITH
    Publishers <- ArchivePublishers, Full <- ArchiveFull, StreamCap <- ArchiveStreamCap,
    Count <- ArchiveCount, MaxCooks <- ArchiveCooks, MaxRows <- ArchiveRows, MaxAlerts <- 0,
    MaxRestarts <- 0, MaxFaults <- ArchiveFaults,
    mode <- x1, startup <- x2, cooks <- x3, alerts <- x4, tracker <- x5, pc <- x6,
    snap <- x7, docs <- x8, chunks <- x9, sampled <- x10, rows <- x11, cursor <- x12,
    pushed <- x13, restarts <- x14, faults <- x15, hurried <- x16, oldest <- x17,
    batch <- x18

AlertsP == INSTANCE CookArchive_proofs WITH
    Publishers <- ArchivePublishers, Full <- ArchiveFull, StreamCap <- ArchiveStreamCap,
    Count <- ArchiveCount, MaxCooks <- 0, MaxRows <- 0, MaxAlerts <- ArchiveAlerts,
    MaxRestarts <- ArchiveRestarts, MaxFaults <- ArchiveFaults + 1,
    mode <- x1, startup <- x2, cooks <- x3, alerts <- x4, tracker <- x5, pc <- x6,
    snap <- x7, docs <- x8, chunks <- x9, sampled <- x10, rows <- x11, cursor <- x12,
    pushed <- x13, restarts <- x14, faults <- x15, hurried <- x16, oldest <- x17,
    batch <- x18

LEMMA ArchiveInitIsP == Archive!Init <=> ArchiveP!Init
BY DEF Archive!Names, ArchiveP!Names, Archive!NoName, ArchiveP!NoName, Archive!NoCook,
       ArchiveP!NoCook, Archive!Indexes, ArchiveP!Indexes, Archive!NoSnapshot,
       ArchiveP!NoSnapshot, Archive!NoBatch, ArchiveP!NoBatch, Archive!Init, ArchiveP!Init

LEMMA ArchiveNextIsP == [Archive!Next]_Archive!vars <=> [ArchiveP!Next]_ArchiveP!vars
<1>1. Archive!Next <=> ArchiveP!Next
  BY DEF Archive!grill, ArchiveP!grill, Archive!archive, ArchiveP!archive, Archive!notes,
         ArchiveP!notes, Archive!Modes, ArchiveP!Modes, Archive!NoName, ArchiveP!NoName,
         Archive!NoCook, ArchiveP!NoCook, Archive!NoSnapshot, ArchiveP!NoSnapshot,
         Archive!NoBatch, ArchiveP!NoBatch, Archive!Request, ArchiveP!Request, Archive!Go,
         ArchiveP!Go, Archive!Cooking, ArchiveP!Cooking, Archive!Name, ArchiveP!Name,
         Archive!Snapshot, ArchiveP!Snapshot, Archive!Track, ArchiveP!Track, Archive!Create,
         ArchiveP!Create, Archive!Sample, ArchiveP!Sample, Archive!AfterFlush,
         ArchiveP!AfterFlush, Archive!Send, ArchiveP!Send, Archive!Closed, ArchiveP!Closed,
         Archive!Close, ArchiveP!Close, Archive!Finish, ArchiveP!Finish, Archive!PutState,
         ArchiveP!PutState, Archive!Forward, ArchiveP!Forward, Archive!Entry,
         ArchiveP!Entry, Archive!MoveCursor, ArchiveP!MoveCursor, Archive!Push,
         ArchiveP!Push, Archive!ChangeMode, ArchiveP!ChangeMode, Archive!ClearStatus,
         ArchiveP!ClearStatus, Archive!WriteStatus, ArchiveP!WriteStatus, Archive!Alert,
         ArchiveP!Alert, Archive!Restart, ArchiveP!Restart, Archive!Publish,
         ArchiveP!Publish, Archive!Next, ArchiveP!Next
<1> QED BY <1>1 DEF Archive!vars, ArchiveP!vars, Archive!grill, ArchiveP!grill,
    Archive!archive, ArchiveP!archive, Archive!notes, ArchiveP!notes

LEMMA AlertsInitIsP == Alerts!Init <=> AlertsP!Init
BY DEF Alerts!Names, AlertsP!Names, Alerts!NoName, AlertsP!NoName, Alerts!NoCook,
       AlertsP!NoCook, Alerts!Indexes, AlertsP!Indexes, Alerts!NoSnapshot,
       AlertsP!NoSnapshot, Alerts!NoBatch, AlertsP!NoBatch, Alerts!Init, AlertsP!Init

LEMMA AlertsNextIsP == [Alerts!Next]_Alerts!vars <=> [AlertsP!Next]_AlertsP!vars
<1>1. Alerts!Next <=> AlertsP!Next
  BY DEF Alerts!grill, AlertsP!grill, Alerts!archive, AlertsP!archive, Alerts!notes,
         AlertsP!notes, Alerts!Modes, AlertsP!Modes, Alerts!NoName, AlertsP!NoName,
         Alerts!NoCook, AlertsP!NoCook, Alerts!NoSnapshot, AlertsP!NoSnapshot,
         Alerts!NoBatch, AlertsP!NoBatch, Alerts!Request, AlertsP!Request, Alerts!Go,
         AlertsP!Go, Alerts!Cooking, AlertsP!Cooking, Alerts!Name, AlertsP!Name,
         Alerts!Snapshot, AlertsP!Snapshot, Alerts!Track, AlertsP!Track, Alerts!Create,
         AlertsP!Create, Alerts!Sample, AlertsP!Sample, Alerts!AfterFlush,
         AlertsP!AfterFlush, Alerts!Send, AlertsP!Send, Alerts!Closed, AlertsP!Closed,
         Alerts!Close, AlertsP!Close, Alerts!Finish, AlertsP!Finish, Alerts!PutState,
         AlertsP!PutState, Alerts!Forward, AlertsP!Forward, Alerts!Entry, AlertsP!Entry,
         Alerts!MoveCursor, AlertsP!MoveCursor, Alerts!Push, AlertsP!Push,
         Alerts!ChangeMode, AlertsP!ChangeMode, Alerts!ClearStatus, AlertsP!ClearStatus,
         Alerts!WriteStatus, AlertsP!WriteStatus, Alerts!Alert, AlertsP!Alert,
         Alerts!Restart, AlertsP!Restart, Alerts!Publish, AlertsP!Publish, Alerts!Next,
         AlertsP!Next
<1> QED BY <1>1 DEF Alerts!vars, AlertsP!vars, Alerts!grill, AlertsP!grill,
    Alerts!archive, AlertsP!archive, Alerts!notes, AlertsP!notes

ArchiveGoes == In("archive", ArchiveP!Types /\ ArchiveP!CookInv)
AlertsGo == In("alerts", AlertsP!Types /\ AlertsP!NoteInv)

\* A cook that is closed has all its samples, in order, and an open one has them in
\* its chunks or in the buffer, whichever requests fail, while main is the only
\* publisher, the bridge is not restarted, and no mode is begun before main() has
\* cleared the status of the stop before.
THEOREM CooksAreComplete ==
    ASSUME ArchiveP!Bounds, ArchivePublishers = {"main"}
    PROVE  Spec => []CookIsArchived
<1>1. Init => ArchiveGoes
  BY ArchiveInitIsP, ArchiveP!TypesInit, ArchiveP!CookInit DEF Init, In, ArchiveGoes
<1>2. ArchiveGoes /\ [Next]_vars => ArchiveGoes'
  <2>1. ASSUME ArchiveP!Types, ArchiveP!CookInv, [Archive!Next]_Archive!vars
        PROVE  ArchiveP!Types' /\ ArchiveP!CookInv'
    BY <2>1, ArchiveNextIsP, ArchiveP!TypesNext, ArchiveP!CookNext
  <2> QED BY <2>1, PartsStep DEF In, ArchiveGoes
<1>3. ArchiveGoes => CookIsArchived
  <2>1. ArchiveP!CookIsArchived => Archive!CookIsArchived
    BY
       DEF Archive!Names, ArchiveP!Names, Archive!Indexes, ArchiveP!Indexes, Archive!Rows,
           ArchiveP!Rows, Archive!Archived, ArchiveP!Archived, Archive!NothingTruncated,
           ArchiveP!NothingTruncated, Archive!Ordered, ArchiveP!Ordered, Archive!ClosedIsComplete,
           ArchiveP!ClosedIsComplete, Archive!CookIsArchived, ArchiveP!CookIsArchived,
           Archive!Range, ArchiveP!Range
  <2> QED BY <2>1, ArchiveP!CookHolds DEF In, ArchiveGoes, CookIsArchived
<1> QED BY <1>1, <1>2, <1>3, PTL DEF Spec

\* The notifications fired while the bridge runs on are pushed in order and none is
\* left out that the stream's cap has not dropped, however many threads publish and
\* whichever pushes fail.
THEOREM NotificationsArrive ==
    ASSUME AlertsP!Bounds
    PROVE  Spec => []MembersAreTold
<1>1. Init => AlertsGo
  BY AlertsInitIsP, AlertsP!TypesInit, AlertsP!NoteInit DEF Init, In, AlertsGo
<1>2. AlertsGo /\ [Next]_vars => AlertsGo'
  <2>1. ASSUME AlertsP!Types, AlertsP!NoteInv, [Alerts!Next]_Alerts!vars
        PROVE  AlertsP!Types' /\ AlertsP!NoteInv'
    BY <2>1, AlertsNextIsP, AlertsP!TypesNext, AlertsP!NoteNext
  <2> QED BY <2>1, PartsStep DEF In, AlertsGo
<1>3. AlertsGo => MembersAreTold
  <2>1. AlertsP!NoteInv => Alerts!MembersAreTold
    BY DEF AlertsP!NoteInv, AlertsP!InOrder, AlertsP!NoneSkipped, AlertsP!Range,
           Alerts!MembersAreTold, Alerts!InOrder, Alerts!NoneSkipped, Alerts!Range
  <2> QED BY <2>1 DEF In, AlertsGo, MembersAreTold
<1> QED BY <1>1, <1>2, <1>3, PTL DEF Spec

-----------------------------------------------------------------------------
(* The types of every part.                                                *)

\* What the parts' lemmas ask of the constants: each has values the deployment has.
Hypotheses ==
    /\ ArchiveP!Bounds /\ AlertsP!Bounds
    /\ SettingsHypotheses
    /\ Update!Nobody \notin UpdateThreads
    /\ PidHypotheses
    /\ WorkP!Settings
    /\ WirelessHypotheses
    /\ PortsHypotheses /\ PortsTemperatures

\* The invariants of the parts that their own theorems rest on.
PartsGo ==
    /\ In("archive", ArchiveP!Types)
    /\ In("alerts", AlertsP!Types)
    /\ In("file", FileP!FileTypes)
    /\ In("flat", FlatInv)
    /\ In("flex", FlexTypes)
    /\ In("settings", SettingsTypes /\ SettingsGoodInv)
    /\ In("update", UpdateInv)
    /\ In("legacy", LegacyInv)
    /\ In("pid", PidInv)
    /\ In("work", WorkP!Inv)
    /\ In("wireless", WirelessInv)
    /\ In("ports", PortsTypes)
    /\ In("telling", TellingInv)

LEMMA PartsInit == ASSUME Hypotheses PROVE Init => PartsGo
<1>1. Archive!Init => ArchiveP!Types
  BY ArchiveInitIsP, ArchiveP!TypesInit DEF Hypotheses
<1>2. Alerts!Init => AlertsP!Types
  BY AlertsInitIsP, AlertsP!TypesInit DEF Hypotheses
<1>3. File!Init => FileP!FileTypes
  BY FileInitIsP, FileP!FileTypesInit
<1>4. Settings!Init => SettingsTypes /\ SettingsGoodInv
  BY SettingsTypesInit, SettingsGoodInit DEF Hypotheses, SettingsGoodInv
<1>5. Pid!Init => PidInv
  BY PidInvInit DEF Hypotheses
<1>6. Work!Init => WorkP!Inv
  BY WorkInitIsP, WorkP!InvInit DEF Hypotheses
<1>7. Wireless!Init => WirelessInv
  BY WirelessInit DEF Hypotheses
<1>8. Ports!Init => PortsTypes
  BY PortsTypesInit DEF Hypotheses
<1> QED BY <1>1, <1>2, <1>3, <1>4, <1>5, <1>6, <1>7, <1>8, FlatInit, FlexTypesInit, UpdateInit,
           LegacyInvInit, TellingInit DEF Init, In, PartsGo

LEMMA PartsNext == ASSUME Hypotheses, PartsGo, [Next]_vars PROVE PartsGo'
<1>1. ASSUME ArchiveP!Types, [Archive!Next]_Archive!vars PROVE ArchiveP!Types'
  BY <1>1, ArchiveNextIsP, ArchiveP!TypesNext DEF Hypotheses
<1>2. ASSUME AlertsP!Types, [Alerts!Next]_Alerts!vars PROVE AlertsP!Types'
  BY <1>2, AlertsNextIsP, AlertsP!TypesNext DEF Hypotheses
<1>3. ASSUME FileP!FileTypes, [File!Next]_File!vars PROVE FileP!FileTypes'
  BY <1>3, FileNextIsP, FileP!FileTypesStep
<1>4. ASSUME SettingsTypes, SettingsGoodInv, [Settings!Next]_Settings!vars
      PROVE  SettingsTypes' /\ SettingsGoodInv'
  BY <1>4, SettingsOwnersStep DEF Hypotheses
<1>5. ASSUME PidInv, [Pid!Next]_Pid!vars PROVE PidInv'
  BY <1>5, PidNext DEF Hypotheses
<1>6. ASSUME WorkP!Inv, [Work!Next]_Work!vars PROVE WorkP!Inv'
  BY <1>6, WorkNextIsP, WorkP!InvNext DEF Hypotheses
<1>7. ASSUME WirelessInv, [Wireless!Next]_Wireless!vars PROVE WirelessInv'
  BY <1>7, WirelessStep DEF Hypotheses
<1>8. ASSUME PortsTypes, [Ports!Next]_Ports!vars PROVE PortsTypes'
  BY <1>8, PortsTypesStep DEF Hypotheses
<1>9. ASSUME UpdateInv, [Update!Next]_Update!vars PROVE UpdateInv'
  BY <1>9, UpdateNext DEF Hypotheses
<1> QED BY <1>1, <1>2, <1>3, <1>4, <1>5, <1>6, <1>7, <1>8, <1>9, FlatStep, FlexTypesStep,
           LegacyNext, TellingStep, PartsStep DEF In, PartsGo

LEMMA PartsOK == ASSUME Hypotheses, PartsGo PROVE TypeOK
<1>1. ArchiveP!Types => Archive!TypeOK
  BY ArchiveP!TypesOK
     DEF Hypotheses, Archive!TypeOK, ArchiveP!TypeOK, Archive!Modes, ArchiveP!Modes, Archive!Names,
         ArchiveP!Names, Archive!NoName, ArchiveP!NoName, Archive!Indexes, ArchiveP!Indexes,
         Archive!Snapshots, ArchiveP!Snapshots
<1>2. AlertsP!Types => Alerts!TypeOK
  <2>1. AlertsP!Types => AlertsP!TypeOK
    BY AlertsP!TypesOK DEF Hypotheses
  <2> QED BY <2>1
      DEF Alerts!TypeOK, AlertsP!TypeOK, Alerts!Modes, AlertsP!Modes, Alerts!Names, AlertsP!Names,
          Alerts!NoName, AlertsP!NoName, Alerts!Indexes, AlertsP!Indexes, Alerts!Snapshots,
          AlertsP!Snapshots
<1>3. FileP!FileTypes => File!TypeOK
  BY FileP!FileTypesHold DEF File!TypeOK, FileP!TypeOK, File!Parts, FileP!Parts
<1>4. PidInv => Pid!TypeOK
  BY DEF PidInv, PidObject, Pid!TypeOK
<1>5. WorkP!Inv => Work!TypeOK
  BY WorkP!InvTypes
     DEF Hypotheses, Work!TypeOK, WorkP!TypeOK, Work!Modes, WorkP!Modes, Work!AugerModes,
         WorkP!AugerModes, Work!Cap, WorkP!Cap, Work!Changed, WorkP!Changed, Work!Soon, WorkP!Soon,
         Work!Longest, WorkP!Longest, Work!Larger, WorkP!Larger, Work!MostFan, WorkP!MostFan,
         Work!TotalFan, WorkP!TotalFan
<1>6. UpdateInv => Update!TypeOK
  BY DEF UpdateInv
<1>7. LegacyInv => Legacy!TypeOK
  <2>1. ASSUME NEW q, LegacyAll(q), NEW i \in DOMAIN q PROVE Legacy!IsWrite(q[i])
    <3>1. PICK S : q \in Seq(S) /\ \A w \in S : LegacySound(w)
      BY <2>1 DEF LegacyAll
    <3>2. LegacySound(q[i])
      BY <2>1, <3>1
    <3>3. \A c \in Legacy!Control : DOMAIN c = LegacyFields
      BY DEF Legacy!Control, LegacyFields
    <3> QED BY <3>2, <3>3 DEF LegacySound, LegacyDocs, Legacy!IsWrite
  <2> QED BY <2>1 DEF LegacyInv, Legacy!TypeOK
<1> QED BY <1>1, <1>2, <1>3, <1>4, <1>5, <1>6, <1>7, FlatTypesOK, FlexTypesOK, SettingsTypesOK,
           WirelessTypesOK, PortsTypesOK, TellingTypesOK DEF In, PartsGo, TypeOK

\* However many clients, threads, cooks, photos, devices and faults a part has, its
\* TypeOK holds, and so the appliance's.
THEOREM TypesHold == ASSUME Hypotheses PROVE Spec => []TypeOK
<1>1. Init => PartsGo
  BY PartsInit
<1>2. PartsGo /\ [Next]_vars => PartsGo'
  BY PartsNext
<1>3. PartsGo => TypeOK
  BY PartsOK
<1> QED BY <1>1, <1>2, <1>3, PTL DEF Spec

=============================================================================
