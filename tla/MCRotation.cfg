SPECIFICATION Spec
CONSTANTS
    SpiffeIds = {w}
    CertObservations <- MCObservations
    certHistoryMax = 3
    rotationLearnMin = 2
    rotationRateWindow = 2
    rotationRateMax = 2
    MCSerials = {1, 2}
    MCTimes = {0, 1, 3, 7}
    MCLifetime = 4
    ca1 = ca1
    ca2 = ca2
    d1 = d1
    d2 = d2
INVARIANTS
    HistoryIsChain
    RateWindowBudget
    LearnedIntervalIsObserved
PROPERTIES
    IssuerChangeIsReported
    ReportedOnce
