SPECIFICATION Spec
CONSTANTS
    MaxRelease = 4
    Version = {"1.0", "1.1"}
    MaxTime = 2
    MaxChangelogEntries = 3
    MaxCommits = 4
INVARIANTS
    TypeOK
    ChangelogIsRight
    BumpsKeepTimestamp
    TimestampIsVersionChange
