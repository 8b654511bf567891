CONSTANTS
    Threads = {t1, t2}
    NoThread = NoThread
    Weights = {w1, w2}
    NoWeights = NoWeights
    External = External
SPECIFICATION Spec
INVARIANT
    StatusDuringInference
