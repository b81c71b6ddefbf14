SPECIFICATION Spec
CONSTANTS
    R1 = R1
    R2 = R2
    U1 = U1
    U2 = U2
    Poller = Poller
    Clicker = Clicker
    NoRequest = NoRequest
    Requests = {R1}
    Units = {U1}
    Pollers = {Poller}
    Clickers = {Clicker}
    MaxAttempts = 2
    PostAttempts = 1
    Reporting = {}
    Autobuild = FALSE
    OneInside = FALSE
    JiraMayFail = FALSE
    MaxFaults = 0
INVARIANT CancelledOwnsNothing
