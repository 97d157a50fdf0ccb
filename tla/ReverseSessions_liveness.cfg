SPECIFICATION FairSpec
CONSTANTS
    Conns = {c1, c2}
    Hosts = {h1}
    IPs = {i1}
    Calls = {k1}
    NoConn = NoConn
    NoCall = NoCall
    Nobody = Nobody
    TLS = TRUE
    ListenerMayFail = TRUE
PROPERTIES
    DashboardCatchesUp
    AbsenceIsShown
    StopEndsSessions
    CallersReturn
