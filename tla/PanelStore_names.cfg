SPECIFICATION Spec
CONSTANTS
    Conns = {1, 2}
    Hosts = {h1, h2}
    IPs = {1, 2}
    h1 = h1
    h2 = h2
    Leases <- ThreeLeases
    NoUser = NoUser
    Kid = Kid
    Statuses <- TwoStatuses
    Away = Away
    Nobody = Nobody
    NoConn = NoConn
    StaleAge = 2
    MaxIdle = 1
    RetentionDays = 0
    MaxEvents = 0
INVARIANT
    NamedPageIsThatPC
