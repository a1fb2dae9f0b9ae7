SPECIFICATION Spec
CONSTANTS
    Session = {s1, s2, s3}
    Inode = {i1, i2, i3}
    None = None
    Pid <- ThreePids
    Bystander <- NoBystander
    Restart = FALSE
    MaxFaults = 0
CHECK_DEADLOCK FALSE
INVARIANTS
    MutualExclusion
