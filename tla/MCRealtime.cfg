SPECIFICATION FairSpec
CONSTANTS
    None = None
    Socket = {s1, s2}
    Session = {"x1", "x2"}
    User = {"u1", "u2"}
    Device = {"d1", "d2"}
    Driver = {"v1"}
    Room = {r1}
    UserOf <- MCUserOf
    DeviceOf <- MCDeviceOf
    RoleOf <- MCRoleOf
    DriverOf <- MCDriverOf
    KindOf <- MCKindOf
    OwnersOf <- MCOwnersOf
    Assigned <- MCAssigned
    MaxAdmin = 1
    MaxOps = 1
    Ops = {"join_room", "driver.location.update"}
CHECK_DEADLOCK FALSE
INVARIANTS TypeOK IndexesAgree OneSocketPerDriver RevokedBeforeIsRefused
PROPERTIES RevocationReachesAll RevokedSocketClosesOnUse
