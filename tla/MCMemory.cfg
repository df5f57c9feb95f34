SPECIFICATION MemSpec
CONSTANTS
    lo = 1
    hi = 4
    mmap_base = 2
    Prots = {"r"}
    Kinds = {"file", "heap"}
    Lengths = {1, 3}
    Hints = {0, 3}
    FilePages = {0}
    Spaces = {1, 2, 3}
    Pages = {1, 2}
    Scratch = 1
    Frames = {1, 2, 3}
    Values = {"a"}
    Zero = "zero"
    MaxRefs = 2
    Accesses = {"rw", "r", "none"}
INVARIANTS
    MemTypeOK
    MapSound
    RefsExact
    FramesCounted
    WritesGoThrough
    OneStateOfFile
    DiskConsistent
    VnodesSound
    NamesTrue
PROPERTIES
    PagesSpec
    PrivateSpec
    FsyncComplete
CHECK_DEADLOCK FALSE
