SPECIFICATION HandlersSpec
CHECK_DEADLOCK FALSE
CONSTANTS
    Purifier = TRUE
    Appliances = {"d1"}
    Properties = {"p1", "p2"}
    MaxRepeats = 3
    MaxReports = 3
    MaxOnWire = 2
INVARIANTS
    HandlersTypeOK
    PollingGoesOn
    ToldIsTrue
PROPERTIES
    AnsweringIsShown
    CommandsAreReadBack
    RegistrationKeeps
