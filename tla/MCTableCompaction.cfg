CONSTANTS
    w1 = w1
    w2 = w2
    u1 = u1
    u2 = u2
    Workers <- MCWorkers
    Units <- MCUnits
    MaxObjects <- MCMaxObjects
SPECIFICATION Spec
SYMMETRY MCSymmetry
INVARIANT NoDataLoss
PROPERTY PublishBeforeDelete
