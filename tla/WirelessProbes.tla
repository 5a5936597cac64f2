--------------------------- MODULE WirelessProbes ---------------------------
(***************************************************************************)
(* The probe drivers whose readings come over the air (probes/bt_*.py) or  *)
(* through a vendor's cloud (probes/cloud_thermomaven.py): a connecting    *)
(* thread, a sensing thread or the library's callbacks, and the control    *)
(* loop that reads the values whenever it likes.                           *)
(*                                                                         *)
(* One driver with one probe is followed.  A reading is abstracted to the  *)
(* number of the session it was measured in; the property is about the     *)
(* readings of a session that is over.                                     *)
(***************************************************************************)
EXTENDS Naturals

CONSTANTS Drops,        \* how many times the link may be lost
          UnitChanges   \* how many times the owner changes the units

VARIABLES driver,   \* the module the settings name
          dev,      \* the fields of the driver's device object
          link,     \* the radio or MQTT connection is up
          session,  \* how many times a connection was made
          fresh,    \* the last report is younger than STALE_AFTER_S
          replaced, \* a units change has put a second device object in place
          shown,    \* what the driver's output_data holds for the probe
          drops     \* how many times the link was lost

vars == <<driver, dev, link, session, fresh, replaced, shown, drops>>

Drivers == {"ibbq", "ibbq_alt", "igrill_alt", "meater", "meater_alt",
            "meater_exp", "meater_exp_pro", "thermomaven"}

(* Values that are not the number of a session. *)
Unset   == 0     \* output_data is built with zeroes
Missing == 100   \* None
Short   == 101   \* a list shorter than the ports: nothing to report

Sessions == 1 .. Drops + UnitChanges + 1

(* A device object as its __init__ leaves it: only iGrill_Device starts    *)
(* with a list of None, the others with an empty one.                      *)
NewDevice(d) ==
    [setup |-> FALSE, active |-> FALSE, parsed |-> Short,
     values |-> IF d = "igrill_alt" THEN Missing ELSE Short]

TypeOK ==
    /\ driver \in Drivers
    /\ dev \in [setup : BOOLEAN, active : BOOLEAN,
                parsed : Sessions \union {Missing, Short},
                values : Sessions \union {Missing, Short}]
    /\ link \in BOOLEAN /\ session \in {0} \union Sessions
    /\ fresh \in BOOLEAN /\ replaced \in 0 .. UnitChanges
    /\ shown \in Sessions \union {Unset, Missing}
    /\ drops \in 0 .. Drops

Init ==
    /\ driver \in Drivers
    /\ dev = NewDevice(driver)
    /\ link = FALSE /\ session = 0 /\ fresh = FALSE
    /\ replaced = 0 /\ shown = Unset /\ drops = 0

Device(d, new) == driver = d /\ dev' = new /\ UNCHANGED <<driver, replaced, shown>>
Still == UNCHANGED <<link, session, fresh, drops>>
Connected == ~link /\ session + 1 \in Sessions /\ link' = TRUE /\ session' = session + 1
             /\ UNCHANGED <<fresh, drops>>
----------------------------------------------------------------------------
(* bt_ibbq: two threads over bluepy.  Setting up makes a new delegate; the *)
(* sensing thread hands the delegate's own list to the reader, which       *)
(* overwrites it in place with None while the device is gone.              *)

(* Setting up sleeps a second before the device counts as set up; the      *)
(* control loop reads several times in a second.                           *)
ReadMeanwhile == {shown, dev.values} \intersect Sessions = {}

IbbqSetup == ~dev.setup /\ ReadMeanwhile /\ Connected
    /\ Device("ibbq", [dev EXCEPT !.setup = TRUE, !.parsed = Short])

IbbqSensing == dev.setup /\ ~dev.active /\ Still
    /\ Device("ibbq", [dev EXCEPT !.active = TRUE])

\* A temperature frame, or an information frame (the list is handed over
\* whichever of the two arrived).
IbbqNotified == dev.active /\ link /\ Still
    /\ \E heard \in {session, dev.parsed} :
        Device("ibbq", [dev EXCEPT !.parsed = heard, !.values = heard])

IbbqGone == dev.active /\ ~link /\ Still
    /\ Device("ibbq", [dev EXCEPT !.active = FALSE, !.setup = FALSE])

(* A mutant: the reader takes the values whoever is connected.             *)
ValuesAsTheyAre(d) == d.values

(* What both iBBQ drivers' get_port_values leave in the list.              *)
IbbqValues(d) ==
    IF (~d.setup \/ ~d.active) /\ d.values # Short THEN Missing ELSE d.values
----------------------------------------------------------------------------
(* bt_ibbq_alt: one asyncio loop over bleak; notifications and the loss of *)
(* the connection arrive as callbacks of that loop.                        *)

IbbqAltConnected == ~dev.setup /\ Connected
    /\ Device("ibbq_alt", [dev EXCEPT !.setup = TRUE, !.active = TRUE])

IbbqAltTemp == link /\ Still
    /\ Device("ibbq_alt", [dev EXCEPT !.parsed = session, !.values = session])

IbbqAltGone == dev.setup /\ ~link /\ Still
    /\ Device("ibbq_alt", [dev EXCEPT !.setup = FALSE, !.active = FALSE])
----------------------------------------------------------------------------
(* bt_igrill_alt: the same loop, after an authentication; the values are   *)
(* read once before the device counts as ready, and dropped with the link. *)

IgrillConnected == ~dev.setup /\ Connected
    /\ \E heard \in {session', Missing} :
        Device("igrill_alt", [dev EXCEPT !.setup = TRUE, !.active = TRUE, !.values = heard])

IgrillProbe == link /\ Still
    /\ \E heard \in {session, Missing} : Device("igrill_alt", [dev EXCEPT !.values = heard])

IgrillGone == dev.setup /\ ~link /\ Still
    /\ Device("igrill_alt",
              [dev EXCEPT !.setup = FALSE, !.active = FALSE, !.values = Missing])
----------------------------------------------------------------------------
(* bt_meater: the sensing thread polls; losing the device raises, and the  *)
(* last values stay where they are.                                        *)

MeaterSetup == ~dev.setup /\ Connected
    /\ Device("meater", [dev EXCEPT !.setup = TRUE, !.parsed = Short])

MeaterUpdate == dev.setup /\ link /\ Still
    /\ Device("meater", [dev EXCEPT !.active = TRUE, !.parsed = session, !.values = session])

MeaterGone == dev.setup /\ ~link /\ Still
    /\ Device("meater", [dev EXCEPT !.active = FALSE, !.setup = FALSE])
----------------------------------------------------------------------------
(* bt_meater_alt: a read that fails is logged and the last tip is reported *)
(* again; nothing clears the values when the stream ends.                  *)

MeaterAltConnected == ~dev.setup /\ Connected
    /\ Device("meater_alt",
              [dev EXCEPT !.setup = TRUE, !.active = TRUE, !.parsed = Missing])

MeaterAltTips == {dev.parsed} \union (IF link THEN {session} ELSE {})

MeaterAltUpdate == dev.setup /\ Still
    /\ \E tip \in MeaterAltTips :
        Device("meater_alt", [dev EXCEPT !.parsed = tip, !.values = tip])

MeaterAltGone == dev.setup /\ ~link /\ Still
    /\ Device("meater_alt",
              [dev EXCEPT !.setup = FALSE, !.active = FALSE, !.parsed = Short])
----------------------------------------------------------------------------
(* bt_meater_exp: SimplePyBLE calls back with data; the sensing thread     *)
(* copies the last data twice a second and only an exception, which the    *)
(* Pro's conversion raises when no data came yet, makes it set up again.   *)

ExpDrivers == {"meater_exp", "meater_exp_pro"}

ExpSetup == driver \in ExpDrivers /\ ~dev.setup /\ Connected
    /\ Device(driver, [dev EXCEPT !.setup = TRUE, !.parsed = Missing])

ExpNotified == driver \in ExpDrivers /\ link /\ dev.setup /\ Still
    /\ Device(driver, [dev EXCEPT !.parsed = session])

\* What getTip returns: the Pro's raises when no data came yet.
ExpTips == IF driver = "meater_exp_pro" THEN {dev.parsed} \ {Missing} ELSE {dev.parsed}

ExpSensing == driver \in ExpDrivers /\ dev.setup /\ Still
    /\ \E tip \in ExpTips : Device(driver, [dev EXCEPT !.active = TRUE, !.values = tip])

\* The Pro without data: the driver forgets the device, whose link stays up
\* until the next setup connects again.
ExpRaised == dev.setup /\ ExpTips = {} /\ driver = "meater_exp_pro"
    /\ link' = FALSE /\ UNCHANGED <<session, fresh, drops>>
    /\ Device("meater_exp_pro",
              [dev EXCEPT !.setup = FALSE, !.active = FALSE, !.values = Short])
----------------------------------------------------------------------------
(* cloud_thermomaven: log in, fetch a certificate, subscribe; a report     *)
(* replaces the readings and stamps them, an offline one with None.        *)

CloudConnected == ~dev.setup /\ Connected
    /\ Device("thermomaven", [dev EXCEPT !.setup = TRUE])

CloudReport == link /\ driver = "thermomaven" /\ fresh' = TRUE
    /\ UNCHANGED <<link, session, drops>>
    /\ \E heard \in {session, Missing} : Device("thermomaven", [dev EXCEPT !.values = heard])

CloudGone == dev.setup /\ ~link /\ Still
    /\ Device("thermomaven", [dev EXCEPT !.setup = FALSE])

\* STALE_AFTER_S without a report.
CloudExpires == driver = "thermomaven" /\ fresh /\ fresh' = FALSE
    /\ UNCHANGED <<driver, dev, link, session, replaced, shown, drops>>

----------------------------------------------------------------------------
(* The control loop reads the device: each driver's read_all_ports puts    *)
(* what get_port_values answers into output_data.  An answer shorter than  *)
(* the ports leaves the previous output_data in place; bt_meater_exp turns *)
(* it into None, and iGrill's list always has its four places.             *)
Kept(values) == IF values = Short THEN shown ELSE values

IbbqAnswer      == Kept(IbbqValues(dev))
IbbqAltAnswer   == Kept(IbbqValues(dev))
IgrillAnswer    == dev.values
MeaterAnswer    == Kept(dev.values)
MeaterAltAnswer == Kept(dev.values)
ExpAnswer       == IF dev.values = Short THEN Missing ELSE dev.values
CloudAnswer     == IF fresh /\ dev.values # Short THEN dev.values ELSE Missing

ReadAllPorts ==
    /\ shown' = CASE driver = "ibbq"        -> IbbqAnswer
                  [] driver = "ibbq_alt"    -> IbbqAltAnswer
                  [] driver = "igrill_alt"  -> IgrillAnswer
                  [] driver = "meater"      -> MeaterAnswer
                  [] driver = "meater_alt"  -> MeaterAltAnswer
                  [] driver \in ExpDrivers  -> ExpAnswer
                  [] driver = "thermomaven" -> CloudAnswer
    /\ dev' = IF driver \in {"ibbq", "ibbq_alt"}
              THEN [dev EXCEPT !.values = IbbqValues(dev),
                               !.parsed = IF driver = "ibbq" /\ IbbqValues(dev) = Missing
                                          THEN Missing ELSE dev.parsed]
              ELSE dev
    /\ UNCHANGED <<driver, link, session, fresh, replaced, drops>>

(* update_units: a second device object with threads of its own, while the *)
(* first one's never end and keep the connection they have; ThermoMaven    *)
(* only changes the conversion.                                            *)
UpdateUnits ==
    /\ replaced < UnitChanges
    /\ replaced' = replaced + 1
    /\ IF driver = "thermomaven" THEN UNCHANGED <<dev, link>>
       ELSE dev' = NewDevice(driver) /\ link' = FALSE
    /\ UNCHANGED <<driver, session, fresh, shown, drops>>

(* The probe is switched off, out of range or out of battery.              *)
LinkLost ==
    /\ link /\ drops < Drops /\ session + 1 \in Sessions
    /\ link' = FALSE /\ drops' = drops + 1
    /\ UNCHANGED <<driver, dev, session, fresh, replaced, shown>>
----------------------------------------------------------------------------
Ibbq      == IbbqSetup \/ IbbqSensing \/ IbbqNotified \/ IbbqGone
IbbqAlt   == IbbqAltConnected \/ IbbqAltTemp \/ IbbqAltGone
Igrill    == IgrillConnected \/ IgrillProbe \/ IgrillGone
Meater    == MeaterSetup \/ MeaterUpdate \/ MeaterGone
MeaterAlt == MeaterAltConnected \/ MeaterAltUpdate \/ MeaterAltGone
MeaterExp == ExpSetup \/ ExpNotified \/ ExpSensing \/ ExpRaised
Cloud     == CloudConnected \/ CloudReport \/ CloudGone \/ CloudExpires

Next ==
    \/ Ibbq \/ IbbqAlt \/ Igrill \/ Meater \/ MeaterAlt \/ MeaterExp \/ Cloud
    \/ ReadAllPorts \/ UpdateUnits \/ LinkLost

(* Losing the link is noticed; time passes; a connected probe keeps        *)
(* sending; the control loop keeps reading.                                *)
Noticed == IbbqGone \/ IbbqAltGone \/ IgrillGone \/ CloudGone \/ CloudExpires
Heard   == (IbbqNotified \/ IbbqAltTemp) /\ dev'.values = session

Spec == Init /\ [][Next]_vars
        /\ WF_vars(Noticed) /\ WF_vars(IbbqSensing) /\ SF_vars(Heard)
        /\ WF_vars(ReadAllPorts)
----------------------------------------------------------------------------
(* The drivers that are written to stop reporting a probe that is gone.    *)
Forgetful == {"ibbq", "ibbq_alt", "igrill_alt", "thermomaven"}

\* A reading measured over a connection that is gone is not shown for ever:
\* the control loop would go on feeding and the owner go on trusting a
\* temperature nobody measures.  Claimed for the drivers that clear or age
\* their values, until a units change puts a second device object in place.
Outlived == shown \in Sessions /\ ~(link /\ session = shown) /\ driver \in Forgetful
Cleared  == ~Outlived \/ replaced > 0
OldReadingsGo == Outlived ~> Cleared
=============================================================================
