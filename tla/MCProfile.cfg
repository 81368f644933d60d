SPECIFICATION Spec
CONSTANTS
    Identities = {w}
    Dests = {x, y}
    NoDest = NoDest
    profileWindowSize = 2
    profileWindowMax = 4
    profileLearnMin = 3
    profileDestSetMax = 1
    ByteModulus = 4
    EventTimes = {0, 2, 3, 6, 8}
    ByteCounts = {3}
    MaxConnections = 2
INVARIANTS
    ProfileBounded
    OrderedOnceLearned
    SteadyTrafficIsQuiet
PROPERTIES
    BaselineImmutable
