SPECIFICATION MCSpec
CONSTANTS
    Fatal <- MCFatal
    MaxSignals = 4
    MaxContexts = 2
    None = None
    Key <- MCKey
    Reply <- MCReply
    BufSize = 16
    MaxKeys = 2
    MaxAsks = 1
INVARIANTS
    TypeOK
    TerminalGivenBack
    ModesAsAskedFor
    FatalSignalKills
    SuspendStops
    EndsOnlyWarned
PROPERTIES
    ReadsAsTyped
    FindsReply
\* The program exits, and keys run out.
CHECK_DEADLOCK FALSE
