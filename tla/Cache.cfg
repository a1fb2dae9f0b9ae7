SPECIFICATION Spec
CONSTANTS
    Fetch <- OwnFetch
    Name = {"yml", "xml", "local"}
    Blob = {"a", "b"}
    Inode = {1, 2, 3, 4, 5, 6, 7}
    None = None
    File <- OwnFile
    Served <- OwnServed
    Wanted <- OwnWanted
    Legacy <- OwnLegacy
    FileURI <- OwnFileURI
    MaxFaults = 1
INVARIANTS
    TypeOK
    CacheAddressed
    FetchedIsWanted
PROPERTIES
    GoodSourceArrives
