SPECIFICATION FactorySpec
CONSTANTS
    c1 = c1
    k1 = k1
    Codes = {c1}
    Kinds = {k1}
    KindOf <- KindOfOne
    Reqs = {1, 2}
    Proofs = {1, 2}
    Threshold = 2
    Validity = 0
    MaxTime = 2
    MaxRare = 1
    Findings = {"f1"}
    MaxRevisions = 1
    MaxAttempts = 2
    MaxClimbs = 1
    MaxVerdicts = 6
    Remembered <- RememberedOnes
INVARIANT FactoryTypeOK
INVARIANT ProofSpentOnce
INVARIANT KeptWasProved
INVARIANT NothingUnprovedLeft
PROPERTY WithdrawnStays
PROPERTY EvidenceHeard
PROPERTY LadderEnds
CHECK_DEADLOCK FALSE
