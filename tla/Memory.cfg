SPECIFICATION Spec
CONSTANTS
    server = server  command = command
    tool = tool  agent = agent  cli = cli
    x = x  broken = broken
    Processes <- MCProcesses
    Clients <- MCClients
    ToolClients <- MCToolClients
    CommandClients <- MCCommandClients
    LibraryClients <- MCLibraryClients
    ProcessOf <- MCProcessOf
    Limit <- MCLimit
    Headroom <- MCHeadroom
    Cleaning = {server}
    Tracking = {server, command}
    TriggerAt <- MCTriggerAt
    TargetAt <- MCTargetAt
    MinCleanup = 1
    MaxCleanup = 2
    Strategy <- MCStrategy
    Contents <- MCContents
    HashOf <- MCHashOf
    Broken = broken
    Files <- MCFiles
    Followed = {2}
    MaxId = 4
    MaxCalls = 4
    MaxUses = 1
INVARIANTS CounterExact UpdatesStay
PROPERTIES LimitKept RefusedImportSpares
CHECK_DEADLOCK FALSE
