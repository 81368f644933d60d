SPECIFICATION ProbesSpec
CONSTANTS
    t1 = t1
    t2 = t2
    p1 = p1
    b1 = b1
    b2 = b2
    None = None
    Threads = {t1, t2}
    ProcessOf <- OneProcess
    Buffers = {b1, b2}
    Sizes = {0, 2, 3, 4}
    MaxCapture = 2
    CaptureMod = 3
    MaxDER = 2
    MaxCertLen = 3
    ScratchCap = 1
    RingCap = 1
    MaxCalls = 3
INVARIANTS
    ProbesTypeOK
    CaptureOfOneCall
    ScratchOfOpenCalls
CHECK_DEADLOCK FALSE
