SPECIFICATION Spec
CONSTANTS
    r1 = r1
    r2 = r2
    k1 = k1
    k2 = k2
    Requests <- MCRequests
    Keys <- MCKeys
    dispatcher = dispatcher
    scanner = scanner
    stopper = stopper
    None = None
    CounterModulus = 8
    TagModulus = 4
    MaxPartials = 1
    MaxEvents = 0
SYMMETRY Symmetry
INVARIANTS
    IInv
    RightRequest

    
