CONSTANTS
    Vals = {d, v}
    Default = d
    Invalid = Invalid
    Extras = {x}
    MaxDisturbed = 1
    MaxCrashes = 1
SPECIFICATION Spec
PROPERTY
    MalformedGivesBackup
