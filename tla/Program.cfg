CONSTANTS
    Images <- SomeImages
    LicenseHooks <- SomeLicense
    PlayCoreHooks <- SomePlayCore
    BundleHooks <- SomeBundle
    DynLib <- Table
    HostLibs <- Host
    None = None
    MAX_LOOPER_FDS = 1
    MaxEvents = 2
    MaxReady = 1
SPECIFICATION FairSpec
INVARIANTS ProgramTypeOK CodeExecutable ImportsBound TextAsIntended EndsOnRequest
PROPERTIES ShutdownCompletes StartsOrQuits
CHECK_DEADLOCK FALSE
