SPECIFICATION Spec
CONSTANTS
    Event <- MCEvent
    Lists <- MCLists
    Lower <- MCLower
    BaseName <- MCBaseName
    DirName <- MCDirName
    TextContains <- MCContains
    TextHasPrefix <- MCHasPrefix
    ReverseShell <- MCReverseShell
    Network = {"nginx"}
    Interactive = {"sshd"}
    Trusted = {"cron"}
    HostTrusted = {"backup"}
    TrustedWriters = {"dpkg"}
    DockerClients = {"dockerd"}
    BadInt = BadInt
    MacroSets <- MCMacroSets
    Vocabularies <- MCVocabularies
INVARIANTS
    CompilesAsWritten
    MacrosResolve
CHECK_DEADLOCK FALSE
