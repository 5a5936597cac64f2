SPECIFICATION Spec
CONSTANTS
    ReigniteRetries = 1
    Setpoints = {225}
    ClientCommands <- CookCommands
    QueueLimit = 2
    KeepWarmTemp = 165
    HopperWarning = TRUE
    PitTemps = {60, 200, 600}
    MinStartupTemp = 75
    MaxStartupTemp = 100
    MaxTemp = 550
    AfterStartup = "Hold"
    StartSetpoint = 165
    PrimeOnStartup = FALSE
    PrimeIgnition = FALSE
    AutoPowerOff = FALSE
    AllowManual = FALSE
    Standalone = TRUE
    BootToMonitor = FALSE
    ControllerLoads = TRUE
    RecipeLoads = TRUE
    RecipeSteps <- NoRecipe
    RealHardware = TRUE
    RestartTarget = "fireai-control"
    SupervisedProgram = "fireai-control"
    Failures = {}
PROPERTY
    CommandsAreMerged
