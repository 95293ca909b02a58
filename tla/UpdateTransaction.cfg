SPECIFICATION Spec
CONSTANTS
    v1 = v1
    v2 = v2
    v3 = v3
    NoFile = NoFile
    NoTx = NoTx
    Modes = {"hub", "agent"}
    NoProcess = NoProcess
    Versions = {v1, v2}
    Broken = {v2}
    Platforms = {"linux", "darwin"}
INVARIANTS TypeOK JournalMatchesFiles
PROPERTIES HealthIsOfTheService InterruptedIsSettled
CHECK_DEADLOCK FALSE
