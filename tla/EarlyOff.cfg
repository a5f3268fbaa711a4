SPECIFICATION Spec
CONSTANTS
    DeltaT = 2
    Second = 2
    Begin = 0
    Loaded = {"day", "odd", "act"}
    Actuated = {"act"}
    Plan <- Programs
    Signals = {"G", "y", "r", "off"}
    Green = {"G"}
    Offset <- Offsets
    NewOffsets = {}
    Reoffset = {"day"}
    GSP <- GSPs
    GapSteps = {1, 5}
    OffSteps = 2
    Wauts <- GSPToOff
    ClientCommands = {}
    Durations = {0, 3}
    States = {"y"}
    NewPlan <- OtherPlan
    NewPrograms = {"day", "odd", "act", "new"}
    NewIndices = {1, 2, 3}
    MaxCommands = 2
    Horizon = 14
PROPERTY AskedBeforeSwitch
