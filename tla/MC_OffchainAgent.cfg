\* One node, two commit ticks, windows of two blocks, eight blocks, one restart
\* (after which the two ids come round again).
CONSTANTS
    NumTicks = 2
    RevealWindowLength = 2
    MaxBlock = 8
    NoWindow = NoWindow
    NoList = NoList
    MaxRestarts = 1
    s1 = s1  s2 = s2  d1 = d1
    Seeds <- MCSeeds
    DataHashes <- MCDataHashes
SPECIFICATION Spec
SYMMETRY SeedSymmetry
INVARIANT TypeOK RevealNeverEarly TrackedKeysDistinct
\* Block production and the commit loop stop at the explored horizon.
CHECK_DEADLOCK FALSE
