SPECIFICATION SpecPeersSettle
CONSTANTS
    c1 = c1
    c2 = c2
    p1 = p1
    p2 = p2
    Conns = {c1}
    Pings = {p1}
    MaxRetries = 0
    NoConn = NoConn
    Main = Main
    Free = Free
PROPERTIES
    StopsAfterCancellation
