\* Two goroutines setting the driver name and calling the facade, after
\* every way construction can go.
CONSTANTS
    Goroutines = {g1, g2}
    Drivers = {d1}
    DefaultDriver = DefaultDriver
    ConfigSources = {"given", "nil"}
    GetConfigOutcomes = {"ok", "err"}
    HostParses = {TRUE, FALSE}
    CallOutcomes = {"ok", "apierr", "err"}
    MaxOps = 2
SYMMETRY GoroutineSymmetry
SPECIFICATION Spec
INVARIANT FailuresReported
