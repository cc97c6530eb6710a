SPECIFICATION Spec
CONSTANTS
    Tasks = {t1}
    Listeners = {l1}
    Conns = {c1}
    Fds = {3}
    Main = Main
    Killed = Killed
    NoConn = NoConn
    MaxBytes = 1
    BufSize = 1
    Backlog = 1
PROPERTIES
    ContinuesOnlyOnEagain
