SPECIFICATION Spec
CONSTANTS
    r = r
    n1 = n1
    n2 = n2
    n3 = n3
    MaxConnections = 4
    Registrar = r
    Nodes = {n1, n2, n3}
    Apps = {}
    MaxFailures = 0
    None = None
CONSTRAINT StartedInOrder
INVARIANT TargetIsReceiver
CHECK_DEADLOCK FALSE
