SPECIFICATION Spec
CONSTANTS
    Clients = {c1, c2}
    Owner = owner
    Actions = {a1, a2, a3}
    Kept = {a1}
    Priorities = {0}
    NoAction = none
    PostMayFail = FALSE
    MayExit = FALSE
PROPERTIES AcceptedIsServiced HandlerIsTold
CHECK_DEADLOCK FALSE
