CONSTANTS
    Threads = {t1, t2, t3}
    NoThread = NoThread
    Weights = {w1, w2}
    NoWeights = NoWeights
    External = External
SPECIFICATION Spec
SYMMETRY Symmetry
INVARIANTS
    TypeOK
    RunningServesApplied
    LoadMeetsNoModel
    PredictionIsCurrent
    NoLeakedModel
