------------------------------- MODULE Probes -------------------------------
(***************************************************************************)
(* What the control loop is told about the temperatures (probes/main.py,   *)
(* probes/base.py, probes/temp_queue.py, probes/virtual_*.py): the devices *)
(* of the settings are read in their order, each is given what the earlier *)
(* ones reported, a wired port's readings go through a queue that averages *)
(* them and rejects outliers, and a virtual device combines other probes.  *)
(*                                                                         *)
(* One wired device with one port, one device that is not always there     *)
(* (transient) and one virtual device are followed.                        *)
(***************************************************************************)
EXTENDS Integers, Sequences, FiniteSets, SequencesExt, FiniteSetsExt

CONSTANTS QLength,     \* the queue's length (10 in the code)
          Deviation,   \* the largest standard deviation that is averaged
          Fahrenheit,  \* temperatures the wired port may measure, in F
          Celsius      \* ... and in C, once the owner has changed the units

VARIABLES kind,     \* the module of the virtual device
          order,    \* the devices as the settings list them
          units,    \* the units the devices were told
          queue,    \* the readings of the wired port, newest first
          last,     \* the sum the last average was made of; 0: none yet
          out,      \* output_data of every device
          alive,    \* the control process runs
          same      \* the latest reading, and how often in a row it came

vars == <<kind, order, units, queue, last, out, alive, same>>

Devices == {"wired", "transient", "virtual"}
Kinds   == {"average", "highest", "lowest", "median"}

Missing == -1     \* None
Beyond  == 999    \* a voltage outside of what the probe profile allows

Temps == IF units = "F" THEN Fahrenheit ELSE Celsius

TypeOK ==
    /\ kind \in Kinds /\ order \in SetToSeqs(Devices) /\ units \in {"F", "C"}
    /\ queue \in Seq(Fahrenheit \union Celsius \union {0}) /\ Len(queue) \in {0, QLength}
    /\ last \in Nat /\ alive \in BOOLEAN
    /\ DOMAIN out = Devices /\ \A d \in Devices : out[d] \in Int
    /\ same.times \in 0 .. QLength

Init ==
    /\ kind \in Kinds /\ order \in SetToSeqs(Devices)
    /\ units = "F" /\ queue = <<>> /\ last = 0
    /\ out = [d \in Devices |-> 0] /\ alive = TRUE
    /\ same = [value |-> 0, times |-> 0]
----------------------------------------------------------------------------
(* _voltage_to_temp: an absent transient probe is None, a voltage or a     *)
(* temperature out of range is 0.                                          *)
Converted(voltage) == IF voltage = Beyond THEN 0 ELSE voltage

(* A mutant: the newest reading is the one that falls off the queue.       *)
NewestDropped(q, v) ==
    IF q = <<>> THEN [i \in 1 .. QLength |-> v] ELSE q

(* Another: the loop goes one reading too far and nothing falls off.       *)
NoneDropped(q, v) ==
    IF q = <<>> THEN [i \in 1 .. QLength |-> v] ELSE <<v>> \o q

(* enqueue: the first reading fills the queue, a later one pushes the      *)
(* oldest out.                                                             *)
Enqueued(q, v) ==
    IF q = <<>> THEN [i \in 1 .. QLength |-> v] ELSE <<v>> \o Front(q)

(* average: the standard deviation (of a sample) is below the limit.       *)
Total(q) ==
    LET sum[i \in 0 .. Len(q)] == IF i = 0 THEN 0 ELSE q[i] + sum[i - 1]
    IN  sum[Len(q)]
Squares(q) == Total([i \in 1 .. Len(q) |-> q[i] * q[i]])

Steady(q) ==
    QLength * Squares(q) - Total(q) * Total(q)
        < Deviation * Deviation * QLength * (QLength - 1)

AveragedSum(q) == IF last = 0 \/ Steady(q) THEN Total(q) ELSE last
----------------------------------------------------------------------------
(* A virtual device sees the probes of its list that devices before it     *)
(* have reported, and hands them to max, min, mean or median: nothing in   *)
(* the list, or a None among several numbers, raises.                      *)
Average(values) == Total(values) \div Len(values)
Highest(values) == IF values = <<Missing>> THEN Missing ELSE Max(ToSet(values))
Lowest(values)  == IF values = <<Missing>> THEN Missing ELSE Min(ToSet(values))
Median(values)  == Average(values)   \* of the one or two probes followed here

Raises(values) ==
    \/ values = <<>>
    \/ Contains(values, Missing) /\ (Len(values) > 1 \/ kind \in {"average", "median"})

Combined(values) ==
    CASE kind = "average" -> Average(values) [] kind = "highest" -> Highest(values)
      [] kind = "lowest"  -> Lowest(values)  [] kind = "median"  -> Median(values)

(* The devices listed before the virtual one.                              *)
Place(d) == CHOOSE i \in DOMAIN order : order[i] = d
Earlier == SubSeq(order, 1, Place("virtual") - 1)

(* read_all_ports of the wired device: a reading is averaged, None passes. *)
ReadWired(v) ==
    /\ v # Missing
    /\ queue' = Enqueued(queue, v)
    /\ last' = AveragedSum(queue')
    /\ same' = [value |-> v,
                times |-> IF v = same.value THEN Min({same.times + 1, QLength}) ELSE 1]

(* ProbesMain.read_probes: a device that raises takes the control process  *)
(* with it.                                                                *)
ReadProbes ==
    /\ alive
    /\ \E voltage \in Temps \union {Beyond}, radio \in Temps \union {Missing} :
         /\ ReadWired(Converted(voltage))
         /\ LET now  == [wired |-> last' \div QLength, transient |-> radio]
                seen == [i \in DOMAIN Earlier |-> now[Earlier[i]]]
            IN  /\ alive' = ~Raises(seen)
                /\ out' = IF Raises(seen) THEN out
                          ELSE [wired |-> now.wired, transient |-> radio,
                                virtual |-> Combined(seen)]
    /\ UNCHANGED <<kind, order, units>>

(* update_units: the device is built again, the queues are not.            *)
UpdateUnits ==
    /\ alive /\ units = "F" /\ units' = "C"
    /\ UNCHANGED <<kind, order, queue, last, out, alive, same>>

(* The supervisor starts the control process again.                        *)
Restart ==
    /\ ~alive /\ alive' = TRUE
    /\ queue' = <<>> /\ last' = 0 /\ out' = [d \in Devices |-> 0]
    /\ same' = [value |-> 0, times |-> 0]
    /\ UNCHANGED <<kind, order, units>>

Next == ReadProbes \/ UpdateUnits \/ Restart

Spec == Init /\ [][Next]_vars
----------------------------------------------------------------------------
\* A temperature the wired port has measured QLength times in a row is the
\* temperature that is reported, whatever the queue held before: an outlier,
\* a zero, the other unit's numbers.  The rejection of outliers must not keep
\* the control loop on a stale average once the pit has settled.
SettledReadingIsShown ==
    same.times = QLength /\ alive => last \div QLength = same.value
=============================================================================
