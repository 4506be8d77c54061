SPECIFICATION PartsSpec
CONSTANTS
    RacModes = {"cool", "heat"}
    JetModes = {"cool", "heat"}
    MaxFrame = 3
    PacModes = {"cool", "fan"}
    PacLevels = {"low", "high"}
    PacFrame = 2
    Heads = {"h1", "h2"}
    Primary = "h1"
    MaxWatts = 2
    MaxGap = 1
    MaxTotal = 3
    MaxLine = 2
    MaxWire = 2
    HeaderBytes = 4
    MaxPayload = 2
    MaxFrames = 2
    Tags = {0, 509, 1023}
    FieldValues = {0, 15, 16, 255, 256, 65535, 65536, 16777215}
    MaxFields = 2
CHECK_DEADLOCK FALSE
INVARIANTS
    AppliancesTypeOK
    HandlersStartAndStop
    ShownIsReal
    ArrivesAsSent
PROPERTIES
    PowerChangesFollowed
    EnergyIsCounted
