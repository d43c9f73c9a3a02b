-------------------------- MODULE MC_OffchainConfig -------------------------
EXTENDS OffchainConfig

CONSTANTS lfp, k2, p1, p2

MCConfigKeys == {lfp, k2}
MCPaths == {p1, p2}

\* p1 is a readable text file; p2 does not exist.
MCFileKindMissing == [p \in MCPaths |-> IF p = p1 THEN "text" ELSE "missing"]

\* p1 is a readable text file; p2 is a directory: it opens, but reading
\* it as text fails.
MCFileKindDir == [p \in MCPaths |-> IF p = p1 THEN "text" ELSE "dir"]
=============================================================================
