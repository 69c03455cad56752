SPECIFICATION Spec
CONSTANTS
    Idents = {1}
    Boot = boot
    Seconds = {1}
    Bodies = {v0, v1}
    Default = v0
    Inodes = {1, 2, 3, 4, 5, 6}
    NoFile = NoFile
    Nothing = Nothing
    Partial = Partial
    MaxCrashes = 1
    MaxFaults = 1
    MaxLate = 1
    ShortWrites = FALSE
INVARIANTS
    FilesWhole
    LeftoversHarmless
PROPERTIES
    BootStays
    DeployLeftoversHarmless
    ImplementsFiles
    DeployedIsBoot
    CreatedIsStored
