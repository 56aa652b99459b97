SPECIFICATION Spec
CONSTANTS
    c1 = c1
    c2 = c2
    p1 = p1
    p2 = p2
    Conns = {c1, c2}
    Pings = {p1, p2}
    MaxRetries = 1
    NoConn = NoConn
    Main = Main
    Free = Free
SYMMETRY Symmetry
INVARIANTS
    ReaderJoined
    FallbackJoined
    NoSocketLeak
    OneWriter
    PingOwnerAlive
    NothingOutlivesRun
    TrackerStaysClosed
