SPECIFICATION Spec
CONSTANTS
    Session = {s1, s2}
    Inode = {i1, i2, i3}
    None = None
    Pid <- TwoPids
    Bystander <- OneBystander
    Restart = TRUE
    MaxFaults = 2
INVARIANTS
    TypeOK
    ExclusiveOnFile
    PidLeadsFile
PROPERTIES
    SessionsGetThrough
