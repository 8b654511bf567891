CONSTANTS
    Vals = {d, v}
    Default = d
    Invalid = Invalid
    Extras = {x}
    MaxDisturbed = 2
    MaxCrashes = 2
SPECIFICATION Spec
INVARIANTS
    TypeOK
    CacheMirrorsDisk
PROPERTIES
    BackupIsUsed
    ImplementsRegister
