SPECIFICATION Spec
CONSTANTS
    ArchivePublishers = {"main"}
    ArchiveFull = 2
    ArchiveStreamCap = 1
    ArchiveCount = 2
    ArchiveCooks = 1
    ArchiveRows = 3
    ArchiveAlerts = 2
    ArchiveRestarts = 1
    ArchiveFaults = 1
    FilePhotos = {"p", "q"}
    FileComments = {"c"}
    FileWorkers = {"w"}
    FlatPresses = 4
    FlatUpdates = 1
    FlexTouches = 3
    FlexChanges = 1
    SettingsThreads = {"api"}
    SettingsVersions = {1, 2}
    SettingsOld = 1
    SettingsUses = 2
    SettingsInstalls = 2
    SettingsFaults = 1
    UpdateThreads = {"a", "b"}
    UpdateFaults = 2
    LegacyRequests = 2
    PidFull = 16
    PidPs = {3}
    PidIs = {0, 2}
    PidDs = {5}
    PidCenters = {0, 8}
    PidRange = 3
    PidJump = 2
    WorkCycleTime = 3
    WorkLeast = 1
    WorkMost = 2
    WorkLidPause = 1
    WorkOverride = 1
    WorkOn = 1
    WorkOff = 2
    WorkDcFan = TRUE
    WorkChanges = 1
    WirelessDrops = 2
    WirelessUnitChanges = 1
    PortsQLength = 3
    PortsDeviation = 5
    PortsFahrenheit = {50, 68}
    PortsCelsius = {10}
    TellingModes = {"Smoke", "Monitor"}
    TellingEvents = {"Grill_Error", "Test_Notify"}
    TellingChanges = 1
    TellingNotices = 2
    TellingFaults = 1
INVARIANTS
    TypeOK
    CookIsArchived
    MembersAreTold
    FileIsWhole
    LastWordIsTheButtons
    SettingsAreTheOwners
    OneUpdateAtATime
    WindupIsBounded
    AugerIsBounded
    FanComesBack
    SettledReadingIsShown
PROPERTIES
    
    MenuIsUsable
    ScreenSleeps
    FileIsMended
    OldReadingsGo
    ListenersCatchUp
CHECK_DEADLOCK FALSE
