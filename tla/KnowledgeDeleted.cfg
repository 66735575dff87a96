SPECIFICATION AgentToolsSpec
CONSTANTS
    caller1 = caller1 caller2 = caller2
    name1 = name1 name2 = name2 data1 = data1 data2 = data2 trash1 = trash1 trash2 = trash2
    branch1 = branch1 branch2 = branch2 run1 = run1 run2 = run2 call1 = call1
    Idle = Idle
    Absent = Absent
    Callers = {caller1, caller2}
    Steps = {1, 2}
    Unknown = Unknown
    GivenDeps <- MCDeps
    GivenStatuses = {}
    MaxAttempts = 1
    MaxPlanCalls = 3
    Criteria = {1, 2}
    ByEvidence = {1}
    MaxRecoveries = 1
    MaxGoalCalls = 3
    Places = {"conversation", "user"}
    Global = {"user"}
    Rank <- MCRank
    Keys = {"k"}
    Texts = {"x", "y"}
    MaxRows = 3
    MaxMemoryCalls = 3
    ScopeRank <- MCScopes
    Unprojected = {"conversation", "global"}
    Contents = {data1, data2}
    MaxSources = 2
    MaxKnowledgeCalls = 3
    ArtifactKeys = {1, 2, 3}
    Blobs = {data1, data2}
    MaxArtifactCalls = 3
    ListKeys = {1, 2, 3}
    PageSize = 1
    MaxChanges = 3
    FileNames = {name1, name2}
    FileContents = {data1, data2}
    TrashIds = {trash1, trash2}
    MaxFileCalls = 3
    Skills = {"s", "t"}
    BuiltIn = {"t"}
    DefaultEnabled = {}
    ScopeOrder <- MCOrder
    MaxSkillCalls = 4
    Paths = {name1, name2}
    Branches = {branch1, branch2}
    Main = branch1
    MaxGitCalls = 2
    MaxProcessCalls = 2
    StreamRuns = {run1, run2}
    Calls = {call1}
    MaxWire = 4
    Modes <- MCModes
    BatchSize = 2
    Parallel = 1
    MaxToolCalls = 1
    MaxSpecialists = 2
INVARIANT DeletedIsNotFound
CHECK_DEADLOCK FALSE
