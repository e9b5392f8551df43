CONSTANTS
    c1 = c1  c2 = c2  c3 = c3
    k1 = k1  k2 = k2
    alice = alice  bob = bob
    a1 = a1  a2 = a2  a3 = a3
    NoKey = NoKey  Nobody = Nobody  Disabled = Disabled
    Clients = {c1, c2, c3}
    Keys = {k1}
    Anon = {a1, a2}
    Args <- CollidingArgs
    Cred <- CollidingCred
    ServerModes = {"dual"}
    MaxFaults = 2
SPECIFICATION Spec
INVARIANTS WrittenOnce ChildrenAgree ReceiptSound IncompleteMeansRecorded ReceiptStable ReceiptQueryable EventsPrivate
PROPERTIES ImplementsDurableAdd
CHECK_DEADLOCK FALSE
