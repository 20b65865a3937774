SPECIFICATION Spec
CONSTANT Parts = {"ipc", "mcp", "lsp", "grok", "stream", "files", "voice"}
CONSTANT IpcCalls = {"c1", "c2"}
CONSTANT Subscribe = {"c2"}
CONSTANT MaxConns = 2
CONSTANT McpTurns = {"t1", "t2"}
CONSTANT MaxMcpClients = 2
CONSTANT MaxConfigs = 2
CONSTANT Queries = {"q1", "q2", "q3"}
CONSTANT MaxServers = 2
CONSTANT MaxEdits = 1
CONSTANT GrokRequests = {"r1", "r2"}
CONSTANT Logins = {"l1", "l2"}
CONSTANT MaxVersion = 3
CONSTANT Flushes = {"f1", "f2"}
CONSTANT MaxDeltas = 2
CONSTANT MaxFaults = 1
CONSTANT FileCalls = {"m1", "m2"}
CONSTANT Chats = {"a"}
CONSTANT Paths = {"p"}
CONSTANT MaxCrashes = 1
CONSTANT Uses = {"u1", "u2"}
CONSTANT Keys = {"k1", "k2"}
CONSTANT Models <- MCModels
CONSTANT MaxProbes = 1
CONSTANT MaxVoiceFaults = 1
INVARIANTS AnswersMatch NothingStrays
PROPERTIES ServicesEnd
CHECK_DEADLOCK FALSE
