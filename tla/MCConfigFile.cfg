SPECIFICATION ConfigSpec
CONSTANTS
    p1 = p1
    p2 = p2
    Processes <- MCProcesses
    HandWritten <- MCHandWritten
    BiasTexts <- MCBiasTexts
    Versions <- MCVersions
    CurrentVersion <- MCCurrentVersion
    PartRange = 64
    MaxEvents = 3
SYMMETRY Symmetry
INVARIANTS
    ConfigTypeOK
    SavedSettingsComeBack
    UntouchedSettingsStay
    NewVersionIsNewer
CHECK_DEADLOCK FALSE
