SPECIFICATION Spec
CONSTANT Parts = {"gate", "turn", "file", "memory", "web", "schedule", "shell", "spoken"}
CONSTANT GateCalls = {"c1", "c2"}
CONSTANT GateCommands = {"rm", "apt"}
CONSTANT Destructive = {"rm"}
CONSTANT NeedsSudo = {"apt"}
CONSTANT SafeReads = {}
CONSTANT AdHoc = {}
CONSTANT DenyRule = {}
CONSTANT AskRule = {"rm"}
CONSTANT Hooked = {"rm"}
CONSTANT GateModes = {"acceptEdits", "bypassPermissions"}
CONSTANT MaxRepairs = 1
CONSTANT Turns = {1, 2}
CONSTANT MaxAttempts = 2
CONSTANT MaxEmpty = 1
CONSTANT MaxEvents = 2
CONSTANT MaxBeside = 1
CONSTANT FileCalls = {"c1", "c2"}
CONSTANT FileSessions = {"s1", "s2"}
CONSTANT MaxBlocks = 3
CONSTANT MaxRead = 2
CONSTANT MaxMtime = 2
CONSTANT Wings = {"w"}
CONSTANT Titles = {"a", "b"}
CONSTANT MaxSecs = 3
CONSTANT MaxWrites = 3
CONSTANT WebCalls = {"c1"}
CONSTANT Urls = {"u1", "u2", "u3"}
CONSTANT MaxRedirects = 1
CONSTANT MaxRetries = 1
CONSTANT MaxEntries = 2
CONSTANT MaxBytes = 3
CONSTANT Ttl = 2
CONSTANT Sizes = {1, 2}
CONSTANT MaxTime = 2
CONSTANT ScheduleCalls = {"c1", "c2"}
CONSTANT OneShots = {"s1"}
CONSTANT MaxJobs = 1
CONSTANT MaxEdits = 1
CONSTANT ShellCommands = {"x", "y"}
CONSTANT SpokenSessions = {"a", "b"}
CONSTANT MaxPlays = 3
INVARIANTS Consented NothingLost TurnAnswers
PROPERTIES StepsKeep ToolsEnd
CHECK_DEADLOCK FALSE
