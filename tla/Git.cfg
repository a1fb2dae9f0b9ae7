SPECIFICATION Spec
CONSTANTS
    Build = {b1, b2}
    Tag = {t1, t2}
    MaxCommit = 2
    MaxFaults = 2
INVARIANTS
    TypeOK
    TagIsFresh
    FilesReadable
PROPERTIES
    SomeoneGetsThrough
