SPECIFICATION FairCertLoaderSpec
CONSTANTS
    p1 = p1
    p2 = p2
    host = host
    image = image
    f1 = f1
    f2 = f2
    f3 = f3
    None = None
    Processes = {p1, p2}
    Paths = {host, image}
    Files = {f1, f2, f3}
    Inode <- MCInode
    LibPath <- MCLibPath
    OwnFile <- OneContainer
    Installed <- BothPaths
    libCryptoPath = host
    MaxChanges = 3
    MaxFailures = 1
INVARIANTS
    LinksAccounted
    HookedOnce
PROPERTIES
    VisibleLibraryIsHooked
CHECK_DEADLOCK FALSE
