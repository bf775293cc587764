CONSTANTS
    a1 = a1
    a2 = a2
    boss = boss
    NoOne = NoOne
    Agents <- MCAgents
    RoleOf <- MCRoleOf
    TaskIds = {t1, t2}
    LeaseIds = {l1, l2}
    Paths <- MCPaths
    FileSets <- MCFileSets
    SettingsChoices <- MCSettings
    FirstSettings <- Base
    LeaseTTLs = {1}
    MaxActiveLeases = 1
    MaxTime = 3
    MaxLag = 0
SPECIFICATION Spec
SYMMETRY Symmetry
CONSTRAINT OnePart
CHECK_DEADLOCK FALSE
INVARIANTS FileExclusion RunsOnlyAccepted 
