SPECIFICATION Spec
CONSTANTS
    ConfigFile <- MCConfigFile
    MaxVendor = 2
    MaxSystem = 1
CHECK_DEADLOCK FALSE
INVARIANTS
    TypeOK
    ConfigIsMerged
    OptionsTakeEffect
    
    SudoAsAWhole
    OneIdentity
