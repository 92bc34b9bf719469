\* The same instance, for _prune_epoch's comment.
CONSTANTS
    Keys = {k1, k2}
    Procs = {p1, p2}
    None = None
    MaxSize = 1
    MaxVersion = 1
    MaxEpoch = 2
SPECIFICATION FairSpec
INVARIANTS
    EpochsReferenced
