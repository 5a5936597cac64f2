------------------------------- MODULE Appliance -------------------------------
(***************************************************************************)
(* The parts of the appliance around the control process that are         *)
(* modelled each in a module of its own.  They share no state, so one      *)
(* specification has them side by side: every behaviour is a behaviour of  *)
(* one part, which Init chooses, and x1 ... x18 are the variables of that  *)
(* part.  The constants are those of the parts, under the part's name.     *)
(***************************************************************************)
EXTENDS Integers

CONSTANTS
    ArchivePublishers, ArchiveFull, ArchiveStreamCap, ArchiveCount, ArchiveCooks,
    ArchiveRows, ArchiveAlerts, ArchiveRestarts, ArchiveFaults,
    FilePhotos, FileComments, FileWorkers,
    FlatPresses, FlatUpdates,
    FlexTouches, FlexChanges,
    SettingsThreads, SettingsVersions, SettingsOld, SettingsUses, SettingsInstalls,
    SettingsFaults,
    UpdateThreads, UpdateFaults,
    LegacyRequests,
    PidFull, PidPs, PidIs, PidDs, PidCenters, PidRange, PidJump,
    WorkCycleTime, WorkLeast, WorkMost, WorkLidPause, WorkOverride, WorkOn, WorkOff,
    WorkDcFan, WorkChanges,
    WirelessDrops, WirelessUnitChanges,
    PortsQLength, PortsDeviation, PortsFahrenheit, PortsCelsius,
    TellingModes, TellingEvents, TellingChanges, TellingNotices, TellingFaults

VARIABLES part, x1, x2, x3, x4, x5, x6, x7, x8, x9, x10, x11, x12, x13, x14, x15, x16, x17, x18

\* The bridge's archive of cooks, while it is not restarted and no notification is
\* fired; and its notifications, while nothing cooks.
Archive == INSTANCE CookArchive WITH
    Publishers <- ArchivePublishers, Full <- ArchiveFull, StreamCap <- ArchiveStreamCap,
    Count <- ArchiveCount, MaxCooks <- ArchiveCooks, MaxRows <- ArchiveRows, MaxAlerts <- 0,
    MaxRestarts <- 0, MaxFaults <- ArchiveFaults,
    mode <- x1, startup <- x2, cooks <- x3, alerts <- x4, tracker <- x5, pc <- x6,
    snap <- x7, docs <- x8, chunks <- x9, sampled <- x10, rows <- x11, cursor <- x12,
    pushed <- x13, restarts <- x14, faults <- x15, hurried <- x16, oldest <- x17,
    batch <- x18

Alerts == INSTANCE CookArchive WITH
    Publishers <- ArchivePublishers, Full <- ArchiveFull, StreamCap <- ArchiveStreamCap,
    Count <- ArchiveCount, MaxCooks <- 0, MaxRows <- 0, MaxAlerts <- ArchiveAlerts,
    MaxRestarts <- ArchiveRestarts, MaxFaults <- ArchiveFaults + 1,
    mode <- x1, startup <- x2, cooks <- x3, alerts <- x4, tracker <- x5, pc <- x6,
    snap <- x7, docs <- x8, chunks <- x9, sampled <- x10, rows <- x11, cursor <- x12,
    pushed <- x13, restarts <- x14, faults <- x15, hurried <- x16, oldest <- x17,
    batch <- x18

\* A cook or recipe file of the library.
File == INSTANCE LibraryFile WITH
    Photos <- FilePhotos, Comments <- FileComments, Workers <- FileWorkers,
    kind <- x1, there <- x2, parts <- x3, images <- x4, used <- x5, named <- x6,
    request <- x7

\* The small displays, and the touch screens.
Flat == INSTANCE FlatDisplay WITH
    Presses <- FlatPresses, Updates <- FlatUpdates,
    panel <- x1, mode <- x2, d <- x3, event <- x4, phase <- x5, asked <- x6, left <- x7

Flex == INSTANCE FlexDisplay WITH
    Touches <- FlexTouches, Changes <- FlexChanges,
    grill <- x1, f <- x2, phase <- x3, asked <- x4, said <- x5, left <- x6

\* settings.json through requests, updates, roll-backs and crashes.
Settings == INSTANCE SettingsFile WITH
    Threads <- SettingsThreads, Versions <- SettingsVersions, Old <- SettingsOld,
    Uses <- SettingsUses, Installs <- SettingsInstalls, Faults <- SettingsFaults,
    file <- x1, backups <- x2, code <- x3, up <- x4, job <- x5, told <- x6, quiet <- x7,
    left <- x8

\* Requests to update.
Update == INSTANCE Updater WITH
    Threads <- UpdateThreads, Faults <- UpdateFaults,
    manifest <- x1, releases <- x2, current <- x3, running <- x4, status <- x5,
    update <- x6, lock <- x7, faults <- x8

\* Integrations that use the legacy API, and the app.
Legacy == INSTANCE LegacyApi WITH
    Requests <- LegacyRequests,
    control <- x1, queue <- x2, held <- x3, units <- x4, manual <- x5, left <- x6

\* Every controller under every setting, and a pit that moves.
Pid == INSTANCE Controllers WITH
    Full <- PidFull, Ps <- PidPs, Is <- PidIs, Ds <- PidDs, Centers <- PidCenters,
    Range <- PidRange, Jump <- PidJump,
    kind <- x1, opt <- x2, c <- x3, pit <- x4, u <- x5

\* A work cycle.
Work == INSTANCE WorkCycle WITH
    Cycle <- WorkCycleTime, Least <- WorkLeast, Most <- WorkMost, LidPause <- WorkLidPause,
    Override <- WorkOverride, On <- WorkOn, Off <- WorkOff, DcFan <- WorkDcFan,
    Changes <- WorkChanges,
    mode <- x1, out <- x2, s <- x3, ask <- x4, run <- x5, forced <- x6, still <- x7,
    left <- x8

\* A wireless probe whose link is lost and whose units change.
Wireless == INSTANCE WirelessProbes WITH
    Drops <- WirelessDrops, UnitChanges <- WirelessUnitChanges,
    driver <- x1, dev <- x2, link <- x3, session <- x4, fresh <- x5, replaced <- x6,
    shown <- x7, drops <- x8

\* The wired probes and a virtual one.
Ports == INSTANCE Probes WITH
    QLength <- PortsQLength, Deviation <- PortsDeviation, Fahrenheit <- PortsFahrenheit,
    Celsius <- PortsCelsius,
    kind <- x1, order <- x2, units <- x3, queue <- x4, last <- x5, out <- x6,
    alive <- x7, same <- x8

\* MQTT and the WLED lights.
Telling == INSTANCE Telemetry WITH
    Modes <- TellingModes, Events <- TellingEvents, Changes <- TellingChanges,
    Notices <- TellingNotices, Faults <- TellingFaults,
    mode <- x1, scheme <- x2, wled <- x3, lights <- x4, adrift <- x5, mqtt <- x6,
    heard <- x7, unheard <- x8, left <- x9

-----------------------------------------------------------------------------
tail5 == <<x6, x7, x8, x9, x10, x11, x12, x13, x14, x15, x16, x17, x18>>
tail6 == <<x7, x8, x9, x10, x11, x12, x13, x14, x15, x16, x17, x18>>
tail7 == <<x8, x9, x10, x11, x12, x13, x14, x15, x16, x17, x18>>
tail8 == <<x9, x10, x11, x12, x13, x14, x15, x16, x17, x18>>
tail9 == <<x10, x11, x12, x13, x14, x15, x16, x17, x18>>
vars == <<part, x1, x2, x3, x4, x5, tail5>>

\* The variables a part does not use are 0.
Zero9 ==
    /\ x10 = 0 /\ x11 = 0 /\ x12 = 0 /\ x13 = 0 /\ x14 = 0
    /\ x15 = 0 /\ x16 = 0 /\ x17 = 0 /\ x18 = 0
Zero8 == x9 = 0 /\ Zero9
Zero7 == x8 = 0 /\ Zero8
Zero6 == x7 = 0 /\ Zero7
Zero5 == x6 = 0 /\ Zero6

Init ==
    \/ part = "archive"  /\ Archive!Init
    \/ part = "alerts"   /\ Alerts!Init
    \/ part = "file"     /\ File!Init     /\ Zero7
    \/ part = "flat"     /\ Flat!Init     /\ Zero7
    \/ part = "flex"     /\ Flex!Init     /\ Zero6
    \/ part = "settings" /\ Settings!Init /\ Zero8
    \/ part = "update"   /\ Update!Init   /\ Zero8
    \/ part = "legacy"   /\ Legacy!Init   /\ Zero6
    \/ part = "pid"      /\ Pid!Init      /\ Zero5
    \/ part = "work"     /\ Work!Init     /\ Zero8
    \/ part = "wireless" /\ Wireless!Init /\ Zero8
    \/ part = "ports"    /\ Ports!Init    /\ Zero8
    \/ part = "telling"  /\ Telling!Init  /\ Zero9

Next ==
    /\ UNCHANGED part
    /\ \/ part = "archive"  /\ Archive!Next
       \/ part = "alerts"   /\ Alerts!Next
       \/ part = "file"     /\ File!Next     /\ UNCHANGED tail7
       \/ part = "flat"     /\ Flat!Next     /\ UNCHANGED tail7
       \/ part = "flex"     /\ Flex!Next     /\ UNCHANGED tail6
       \/ part = "settings" /\ Settings!Next /\ UNCHANGED tail8
       \/ part = "update"   /\ Update!Next   /\ UNCHANGED tail8
       \/ part = "legacy"   /\ Legacy!Next   /\ UNCHANGED tail6
       \/ part = "pid"      /\ Pid!Next      /\ UNCHANGED tail5
       \/ part = "work"     /\ Work!Next     /\ UNCHANGED tail8
       \/ part = "wireless" /\ Wireless!Next /\ UNCHANGED tail8
       \/ part = "ports"    /\ Ports!Next    /\ UNCHANGED tail8
       \/ part = "telling"  /\ Telling!Next  /\ UNCHANGED tail9

\* The fairness of each part's own specification.  Only one part takes steps, so
\* one conjunct can hold a condition of each.
Goes ==
    /\ UNCHANGED part
    /\ \/ part = "flat"     /\ Flat!Loop           /\ UNCHANGED tail7
       \/ part = "flex"     /\ Flex!TenSeconds     /\ UNCHANGED tail6
       \/ part = "settings" /\ Settings!Step("control") /\ UNCHANGED tail8
       \/ part = "wireless" /\ Wireless!Noticed    /\ UNCHANGED tail8
       \/ part = "telling"  /\ Telling!Pass        /\ UNCHANGED tail9
GoesToo ==
    /\ UNCHANGED part
    /\ \/ part = "flat"     /\ Flat!TimePasses     /\ UNCHANGED tail7
       \/ part = "flex"     /\ (Flex!TooSoonToFetch \/ Flex!NoEvent \/ Flex!Draw) /\ UNCHANGED tail6
       \/ part = "wireless" /\ Wireless!IbbqSensing /\ UNCHANGED tail8
       \/ part = "telling"  /\ Telling!Elapse      /\ UNCHANGED tail9
Serves(t) ==
    part = "settings" /\ UNCHANGED part /\ Settings!Step(t) /\ UNCHANGED tail8
GoesThird ==
    part = "wireless" /\ UNCHANGED part /\ Wireless!ReadAllPorts  /\ UNCHANGED tail8
GoesAtLast ==
    /\ UNCHANGED part
    /\ \/ part = "flex"     /\ Flex!Fetch          /\ UNCHANGED tail6
       \/ part = "wireless" /\ Wireless!Heard      /\ UNCHANGED tail8

Spec ==
    /\ Init /\ [][Next]_vars
    /\ WF_vars(Goes) /\ WF_vars(GoesToo) /\ WF_vars(GoesThird) /\ SF_vars(GoesAtLast)
    /\ \A t \in SettingsThreads : WF_vars(Serves(t))

-----------------------------------------------------------------------------
(* The parts' properties.  A predicate of a part is looked at in the       *)
(* behaviours of that part only.                                           *)

In(p, P) == part = p => P
At(p, P) == part = p /\ P

\* Every variable of every part has its type.
TypeOK ==
    /\ part = "archive"  => Archive!TypeOK
    /\ part = "alerts"   => Alerts!TypeOK
    /\ part = "file"     => File!TypeOK
    /\ part = "flat"     => Flat!TypeOK
    /\ part = "flex"     => Flex!TypeOK
    /\ part = "settings" => Settings!TypeOK
    /\ part = "update"   => Update!TypeOK
    /\ part = "legacy"   => Legacy!TypeOK
    /\ part = "pid"      => Pid!TypeOK
    /\ part = "work"     => Work!TypeOK
    /\ part = "wireless" => Wireless!TypeOK
    /\ part = "ports"    => Ports!TypeOK
    /\ part = "telling"  => Telling!TypeOK

\* bridge/sync.py: while the bridge runs, and no mode is begun before main() has
\* cleared the status of the stop before it, no sample of a cook is lost, whichever
\* request fails, and a cook that is closed has all of them in order.
CookIsArchived == In("archive", Archive!CookIsArchived)

\* bridge/sync.py, core/events.py: while the bridge runs, every notification is pushed,
\* in order, unless the stream's cap has dropped it.
MembersAreTold == In("alerts", Alerts!MembersAreTold)

\* core/library.py, file_mgmt: between requests the file is whole, but for the photos
\* a client has named that were not in it.
FileIsWhole == In("file", File!FileIsWhole)

\* display/base_*.py: no menu ends the display's thread or stays open for ever.
MenuIsUsable ==
    /\ []In("flat", Flat!OnAnOption)
    /\ (At("flat", Flat!MenuOpen) ~> In("flat", ~Flat!MenuOpen))

\* display/base_flex.py: the screen of a stopped grill goes dark.
ScreenSleeps ==
    At("flex", Flex!Timed) /\ []In("flex", Flex!Calm) ~> In("flex", Flex!Asleep)

\* display/base_flex.py: the last request a button writes is the button's own.
LastWordIsTheButtons == In("flex", Flex!LastWordIsTheButtons)

\* common/common.py: an update, a roll-back, a reset and an import leave what the
\* owner chose.
SettingsAreTheOwners == In("settings", Settings!SettingsAreTheOwners)

\* common/common.py: a settings file cut short is replaced.
FileIsMended == At("settings", Settings!Unreadable) ~> In("settings", ~Settings!Unreadable)

\* core/updater.py: two updates never change the releases together.
OneUpdateAtATime == In("update", Update!OneUpdateAtATime)

\* server/legacy.py: whatever came between a request and its merge, the write does what
\* the request asked, and puts back nothing but what changed in between.
WritesDoWhatTheySay == [][In("legacy", Legacy!WritesDoWhatTheySay)]_vars

\* controller/*.py: where a center or the clamp bounds it, the integral never winds up
\* past what the output can use.
WindupIsBounded == In("pid", Pid!WindupIsBounded)

\* control.py: the auger never runs for longer than the largest share of a cycle.
AugerIsBounded == In("work", Work!AugerIsBounded)

\* control.py: a fan that stands still in Smoke or Hold comes back.
FanComesBack == In("work", Work!FanComesBack)

\* probes/bt_*.py, cloud_thermomaven.py: no reading outlives its connection.
OldReadingsGo ==
    At("wireless", Wireless!Outlived) ~> In("wireless", Wireless!Cleared)

\* probes/temp_queue.py: a settled temperature is the one reported.
SettledReadingIsShown == In("ports", Ports!SettledReadingIsShown)

\* notify: lights and subscribers catch up with the mode.
ListenersCatchUp == <>[]In("telling", Telling!CaughtUp)
=============================================================================
