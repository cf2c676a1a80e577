SPECIFICATION WhoisSpec
CONSTANTS
    Threads <- MCThreads
    ProcOf <- MCProcOf
    Answers = {1}
    Entries <- MCEntries
    MaxIds = 2
    MaxLookups = 2
PROPERTY LookupsReturn
CHECK_DEADLOCK FALSE
