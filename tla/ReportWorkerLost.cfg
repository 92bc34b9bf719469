\* The same instance, for the first sentence of worker.py's report contract.
CONSTANTS
    t1 = t1
    t2 = t2
    t3 = t3
    Tasks <- MCTasks
    Legacy <- MCLegacy
    Workers = {w1, w2}
    None = None
SPECIFICATION Spec
INVARIANTS
    SentIsReported
