\* Two key names, two paths, two operator writes after any initial storage.
CONSTANTS
    lfp = lfp
    k2 = k2
    p1 = p1
    p2 = p2
    ConfigKeys <- MCConfigKeys
    LocalFilePath = lfp
    Paths <- MCPaths
    FileKind <- MCFileKindDir
    Absent = Absent
    NotString = NotString
    MaxWrites = 2
    MaxListLen = 2
SPECIFICATION Spec
INVARIANT ServiceNeverPanics
\* Without a key or a "keys" entry the start-up loops wait for ever.
CHECK_DEADLOCK FALSE
