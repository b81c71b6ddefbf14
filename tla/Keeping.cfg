SPECIFICATION KeepingSpec
CONSTANTS
    Kinds = {"oci-instance", "oci-postgres"}
    Shared = {}
    Columned = {"oci-postgres"}
    Poller = P
    Clicker = C
    Tickets = {t1, t2}
    Types = {"decommission", "restore", "refresh", "reduce", "dns"}
    MaxFaults = 1
    Machines = {m1, m2}
    MaxMishaps = 3
    Writers = {w1, w2}
    Lifecycle = {TRUE}
    MaxId = 3
    Batch = 1
    MaxAttempts = 2
    MaxStops = 1
INVARIANT KeepingTypeOK
INVARIANT RecordMatchesCloud
INVARIANT StraysWereForgotten
INVARIANT NoFalseAlarm
INVARIANT OnlyLateOnesMissed
PROPERTY StartsWhatItStopped
PROPERTY TtlReclaims
PROPERTY StoppedComesBack
PROPERTY HeardOrGivenUp
CHECK_DEADLOCK FALSE
