SPECIFICATION Spec
CONSTANTS
    Tasks = {t1, t2}
    Listeners = {l1, l2}
    Conns = {c1, c2, c3}
    Fds = {3, 4, 5}
    Main = Main
    Killed = Killed
    NoConn = NoConn
    MaxBytes = 2
    BufSize = 2
    Backlog = 2
SYMMETRY Symmetry
INVARIANTS
    TypeOK
    OneOwner
    PoolExact
    AcceptedHasTask
    EchoInOrder
PROPERTIES
    OnlyGoneClosed
