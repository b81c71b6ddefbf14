SPECIFICATION LiveSpec
CONSTANTS
    A = A
    B = B
    Replicas = {A, B}
    Nobody = Nobody
    TTL = 9
    Renew = 2
    Interval = 3
    Watchdog = 5
    Skew <- BAhead
    Slack = 1
    MaxMisses = 1
INVARIANT TypeOK
INVARIANT LeaseCoversSweep
PROPERTY ImplementsExclusiveSweep
PROPERTY WedgedSweepIsReplaced
PROPERTY SomebodySweeps
