CONSTANTS
    MaxSerial = 3 MaxKey = 3 MaxCertFaults = 2
    Wizards = {"w1", "w2"}
    Targets = {"conf", "bin", "unit", "proxy", "none"}
    Provided = {"proxy"}
    Plans <- MCPlans
    MaxApplies = 2 MaxWizFaults = 2
    d1 = d1 d2 = d2 p1 = p1 p2 = p2 o1 = o1 o2 = o2 NoPkg = NoPkg NoOp = NoOp
    Pkgs = {d1, d2}
    Publishers = {p1, p2}
    Ops = {o1, o2}
    PublisherOf <- MCPublisherOf
    Requested <- MCRequested
    MaxOps = 7 MaxDeaths = 1 MaxRot = 1
    f1 = f1
    Frames = {f1}
    Shapes <- MCShapes
    MaxAge = 1 Skew = 1 MaxClock = 4 MaxToggles = 2 MaxBreaks = 1
SPECIFICATION MCSpec
INVARIANTS NeverStranded ApplyIsAtomic StoreSound RunsOnce SealHolds AnsweredInFull
PROPERTIES AuthorityEarned
CHECK_DEADLOCK FALSE
