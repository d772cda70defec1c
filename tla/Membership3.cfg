SPECIFICATION FairSpec
CONSTANTS
    r = r
    n1 = n1
    n2 = n2
    n3 = n3
    MaxConnections = 3
    Registrar = r
    Nodes = {n1, n2, n3}
    Apps = {n2}
    MaxFailures = 1
    None = None
CONSTRAINT StartedInOrder
INVARIANTS TypeOK IdIsRegistrarsSlot OneConnection TargetIsReceiver
PROPERTIES MeshCompletes SleepingAppGoesOn NodesFollowRegistrar
CHECK_DEADLOCK FALSE
