\* Two configs and callers, two generations, a clock that jumps, timestamps that saturate.
SPECIFICATION Spec
CONSTANTS
    Configs = {k1, k2}
    Callers = {c1, c2}
    NoConfig = NoConfig
    MaxGeneration = 2
    max_configs = 2
    MaxReports = 1
    BackendKinds = {"injected", "prepared"}
    ClockReadings = {0, 3}
    JsonSafeMax = 5
SYMMETRY Symmetry
INVARIANT TypeOK
INVARIANT OneLiveBackend
INVARIANT NeverTerminates
INVARIANT ProgressNotLost
INVARIANT NoStaleStop
PROPERTY SnapshotsAdvance
PROPERTY ShutdownDrains
