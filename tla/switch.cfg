SPECIFICATION Spec
CONSTANTS
    ReigniteRetries = 1
    Setpoints = {225}
    ClientCommands <- SwitchCommands
    QueueLimit = 1
    KeepWarmTemp = 165
    HopperWarning = TRUE
    PitTemps = {200}
    MinStartupTemp = 75
    MaxStartupTemp = 100
    MaxTemp = 550
    AfterStartup = "Hold"
    StartSetpoint = 165
    PrimeOnStartup = TRUE
    PrimeIgnition = TRUE
    AutoPowerOff = FALSE
    AllowManual = TRUE
    Standalone = FALSE
    BootToMonitor = FALSE
    ControllerLoads = TRUE
    RecipeLoads = TRUE
    RecipeSteps <- NoRecipe
    RealHardware = TRUE
    RestartTarget = "fireai-control"
    SupervisedProgram = "fireai-control"
    Failures = {}
INVARIANTS
    FuelIsWatched
    IdleIsOff
PROPERTIES
    RestEndsOnRequest
