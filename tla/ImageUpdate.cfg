SPECIFICATION Spec
CONSTANTS
    Run = {r1, r2}
    Build = {b1}
    Inode = {i1, i2}
    None = None
    Parts = 2
    MaxFaults = 2
CHECK_DEADLOCK FALSE
PROPERTIES
    BaseReadOnly
