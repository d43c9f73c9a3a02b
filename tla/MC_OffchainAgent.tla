-------------------------- MODULE MC_OffchainAgent --------------------------
EXTENDS OffchainAgent, TLC

CONSTANTS s1, s2, d1

\* Two random seeds: two rounds' reveals may or may not provide one tag.
MCSeeds == {s1, s2}

\* The file under local_file_path does not change between ticks.
MCDataHashes == {d1}

\* Seeds are only compared for equality.
SeedSymmetry == Permutations(MCSeeds)
=============================================================================
