CONSTANTS
    NumTicks = 3
    RevealWindowLength = 2
    MaxBlock = 7
    NoWindow = NoWindow
    NoList = NoList
    MaxRestarts = 0
    s1 = s1  s2 = s2  d1 = d1
    Seeds <- MCSeeds
    DataHashes <- MCDataHashes
SPECIFICATION Spec
SYMMETRY SeedSymmetry
INVARIANT AtMostOnceReveal
CHECK_DEADLOCK FALSE
