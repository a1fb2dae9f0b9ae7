SPECIFICATION Spec
CONSTANTS
    Fetch <- SameFetch
    Name = {"v1.0.tar.gz"}
    Blob = {"a", "b"}
    Inode = {1, 2, 3}
    None = None
    File <- SameFile
    Served <- SameServed
    Wanted <- SameServed
    Legacy <- NoFetch
    FileURI <- NoFetch
    MaxFaults = 0
INVARIANTS
    CacheAddressed
