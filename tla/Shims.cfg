CONSTANTS
    None = None
    Threads = {t1, t2}
    MAX_JSTRINGS = 3
    Texts <- OneText
    MaxStrings = 4
    MaxContexts = 3
    Small = {c1, c2}
    Big = {big}
    Handles = {h1}
    FileNames <- ThreeNames
    Installed <- Dirs
    LENGTH = 5
    BUFSIZ = 3
SPECIFICATION Spec
INVARIANTS ShimsTypeOK HeldStrings TargetAgrees NoStrayGroup FreeExact ReadsInPlace
CHECK_DEADLOCK FALSE
