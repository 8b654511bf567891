CONSTANTS
    Keys <- MCKeys
    Files <- MCFiles
    Updates <- MCUpdates
SPECIFICATION DocSpec
INVARIANTS
    RestartYieldsTheSame
PROPERTIES
    ImplementsRegister
    UpdateIsLocal
