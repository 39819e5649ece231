SPECIFICATION Spec
CONSTANTS
    f1 = f1
    f2 = f2
    d1 = d1
    d2 = d2
    NoDir = NoDir
    NoFile = NoFile
    Files <- MCFiles
    Dirs <- MCDirs
    Home <- MCHome
    MaxVersions = 2
    MaxCalls = 2
    MaxRaises = 1
    MaxRestarts = 1

    
PROPERTIES
    OriginalNeverLost
    OffEndsThread
    FileGetsAttempt
CHECK_DEADLOCK FALSE
