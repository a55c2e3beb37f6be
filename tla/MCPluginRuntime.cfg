SPECIFICATION Spec
CONSTANTS
    Paths <- ThePaths
    DirOf <- TheDirs
    Dirs = {"extensions", "staged", "missing"}
    Existing = {"extensions", "staged"}
    Image <- TheImages
    Unread <- TheUnread
    MaxSteps = 6
    MaxLibs = 4
INVARIANTS
    LoadedWhileOwned
    OneEntryPerPath
    ReloadReportsChange
    CatalogMatchesDisk
CHECK_DEADLOCK FALSE
