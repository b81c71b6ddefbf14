SPECIFICATION EnvSpec
CONSTANTS
    Kinds = {"oci-instance", "oci-postgres"}
    Shared = {}
    Columned = {"oci-postgres"}
    Poller = P
    Clicker = C
    Tickets = {t1, t2}
    Types = {"decommission", "restore", "refresh", "reduce", "dns"}
    MaxFaults = 1
INVARIANT NamedOnly
CHECK_DEADLOCK FALSE
