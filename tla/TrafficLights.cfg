SPECIFICATION Spec
CONSTANTS
    DeltaT = 2
    Second = 2
    Begin = 0
    Loaded = {"day", "odd", "act"}
    Actuated = {"act"}
    Plan <- Programs
    Signals = {"G", "y", "r", "off"}
    Green = {"G"}
    Offset <- Offsets
    NewOffsets = {1}
    Reoffset = {"day", "act"}
    GSP <- GSPs
    GapSteps = {1, 5}
    OffSteps = 2
    Wauts <- AllProcedures
    ClientCommands = {"duration", "index", "program", "state", "complete"}
    Durations = {0, 3}
    States = {"y"}
    NewPlan <- OtherPlan
    NewPrograms = {"day", "odd", "act", "new"}
    NewIndices = {1, 2, 3}
    MaxCommands = 2
    Horizon = 14
INVARIANT TypeOK
INVARIANT OnePlannedSwitch
INVARIANT SignalsShowActive
INVARIANT InPhase
INVARIANT WautOnTime
INVARIANT WautObeyed
INVARIANT WautWaitsOneCycle
PROPERTY PhaseHonoured
PROPERTY GreenKept
