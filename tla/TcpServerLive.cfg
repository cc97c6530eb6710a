SPECIFICATION FairSpec
CONSTANTS
    Tasks = {t1, t2}
    Listeners = {l1}
    Conns = {c1, c2}
    Fds = {3}
    Main = Main
    Killed = Killed
    NoConn = NoConn
    MaxBytes = 2
    BufSize = 1
    Backlog = 2
PROPERTIES
    DataIsRead
    ResetIsClosed
    PendingIsAccepted
