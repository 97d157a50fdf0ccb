SPECIFICATION Spec
CONSTANTS
    Conns = {c1, c2}
    Hosts = {h1, h2}
    IPs = {i1, i2}
    Calls = {k1, k2}
    NoConn = NoConn
    NoCall = NoCall
    Nobody = Nobody
    TLS = FALSE
    ListenerMayFail = FALSE
SYMMETRY Symmetry
INVARIANTS
    RegistryIsLive
    OneOpenSessionPerHost
    AnswersArePaired
PROPERTIES
    ImplementsRemoteCalls
