\* Two configs contending for one slot, threads scheduled, backends that honour their token.
SPECIFICATION FairSpec
CONSTANTS
    Configs = {k1, k2}
    Callers = {c1, c2}
    NoConfig = NoConfig
    MaxGeneration = 2
    max_configs = 1
    MaxReports = 0
    BackendKinds = {"injected", "prepared"}
    ClockReadings = {0}
    JsonSafeMax = 1000
INVARIANT SlotsJustified
PROPERTY ImplementsLifecycle
PROPERTY StoppingEnds
PROPERTY ShutdownReturnsEventually
