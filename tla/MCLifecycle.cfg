SPECIFICATION LiveSpec
CONSTANTS
    r1 = r1
    r2 = r2
    morfeo = morfeo
    supervisor = supervisor
    common = common
    plan = plan
    None = None
    Releases = {r1, r2}
    RoleOrder <- MCRoleOrder
    SkillOrder <- MCSkillOrder
    Ships <- MCShips
    Schema <- MCSchema
    Projects = {p1}
    MaxCommands = 3
    MaxInterrupts = 2
CHECK_DEADLOCK FALSE
INVARIANTS PendingIsRecoverable
PROPERTIES PendingIsSettled CommittedIsWhole FailedIsUndone RecoveredIsWhole
