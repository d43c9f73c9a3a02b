\* One restart of the node; run_service counts its ids from 1 again.
CONSTANTS
    NumTicks = 3
    RevealWindowLength = 2
    MaxBlock = 7
    NoWindow = NoWindow
    NoList = NoList
    MaxRestarts = 1
    s1 = s1  s2 = s2  d1 = d1
    Seeds <- MCSeeds
    DataHashes <- MCDataHashes
SPECIFICATION Spec
SYMMETRY SeedSymmetry
INVARIANT RevealMatchesCommitment
CHECK_DEADLOCK FALSE
