\* One goroutine sets the driver name while another calls the API.
CONSTANTS
    Goroutines = {g1, g2}
    Drivers = {d1}
    DefaultDriver = DefaultDriver
    ConfigSources = {"given"}
    GetConfigOutcomes = {"ok"}
    HostParses = {TRUE}
    CallOutcomes = {"ok"}
    MaxOps = 1
SPECIFICATION Spec
INVARIANT NoTornDriverHeader
