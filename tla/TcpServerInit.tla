--------------------------- MODULE TcpServerInit ---------------------------
(***************************************************************************)
(* How a TcpServer comes up (src/src/tcpServer.cc): the constructor calls  *)
(* init(), which goes through the configured addresses and creates one     *)
(* listening socket for each, and start() then serves or returns.          *)
(* TcpServer models what follows from "serving".                           *)
(*                                                                         *)
(* Every system call on the way may fail.  The kernel's part is which      *)
(* addresses are taken and which socket a file leads to.  A descriptor is  *)
(* an index that is not reused: only its identity matters here.            *)
(***************************************************************************)
EXTENDS Naturals, Sequences

CONSTANTS
    Ips,        \* texts found under "ip" in the configuration
    ParsedIps,  \* those that inet_pton accepts
    LocalIps,   \* those that are addresses of this host
    Ports,      \* port numbers other than 0
    Paths,      \* texts found under "unix"
    LongPaths,  \* those longer than MAX_PATH
    MaxEntries  \* bound: number of configured addresses

\* The text of an absent ip or unix; an absent port is 0.
Absent == ""

ASSUME AddressAssumption ==
    /\ LocalIps \subseteq ParsedIps /\ ParsedIps \subseteq Ips
    /\ LongPaths \subseteq Paths
    /\ Absent \notin Ips \cup Paths /\ "0.0.0.0" \notin Ips
    /\ 0 \notin Ports
    /\ MaxEntries \in Nat

AddrInfo == [ip : Ips \cup {Absent}, port : Ports \cup {0}, unix : Paths \cup {Absent}]

VARIABLES
    info,       \* the value of g_ip_info that init() reads
    i,          \* the entry init() is at
    phase,      \* "ip" or "unix" inside the loop, then what became of it
    m_flag,
    m_listenFd, \* the listening descriptors, in order
    sockets,    \* sockets created so far; a descriptor is an index into it
    files       \* for each path, the socket its file leads to, or 0

vars == <<info, i, phase, m_flag, m_listenFd, sockets, files>>

Fd == 1..Len(sockets)
Listening(fd) == fd \in Fd /\ sockets[fd].state = "listen"

\* m_flag has no initializer and no constructor sets it: its first value is
\* whatever the memory of the object held.
Init ==
    /\ info \in UNION {[1..n -> AddrInfo] : n \in 0..MaxEntries}
    /\ i = 1
    /\ phase = "ip"
    /\ m_flag \in BOOLEAN
    /\ m_listenFd = << >>
    /\ sockets = << >>
    /\ files = [p \in Paths |-> 0]

-----------------------------------------------------------------------------
\* Faulty variant: the port is not stored.
CreateNoPort(ip, port) ==
    [ip |-> IF ip \in ParsedIps THEN ip ELSE "0.0.0.0", port |-> 0, unix |-> Absent]

\* IPv4Address::Create: only -1 counts as an error, and inet_pton returns 0
\* for a text it cannot parse, leaving the address as the constructor set it.
Create(ip, port) ==
    [ip |-> IF ip \in ParsedIps THEN ip ELSE "0.0.0.0", port |-> port, unix |-> Absent]
UnixAddress(path) == [ip |-> Absent, port |-> 0, unix |-> path]

\* Whether ::bind can succeed: the address is local and no listening socket
\* has it, a wildcard overlapping every address of the same port.
Available(addr) ==
    IF addr.unix # Absent THEN TRUE
    ELSE /\ addr.ip \in LocalIps \cup {"0.0.0.0"}
         /\ \A fd \in Fd : Listening(fd) /\ sockets[fd].addr.port = addr.port =>
                /\ sockets[fd].addr.ip # addr.ip
                /\ "0.0.0.0" \notin {sockets[fd].addr.ip, addr.ip}

\* The file a successful ::bind of a unix address creates.
BoundFile(fs, addr, fd) == IF addr.unix = Absent THEN fs ELSE [fs EXCEPT ![addr.unix] = fd]

NewSocket(addr, state) == sockets' = Append(sockets, [addr |-> addr, state |-> state])

\* init() after bind() returned fd: keep it, or go on without it.
Listen(fd) == m_listenFd' = Append(m_listenFd, fd) /\ m_flag' = TRUE
NoListen == UNCHANGED <<m_listenFd, m_flag>>

\* Faulty variant: the result of listen is not looked at.
bindNoListenCheck(addr, fs) ==
    \/ UNCHANGED sockets /\ files' = fs /\ NoListen
    \/ NewSocket(addr, "lost") /\ files' = fs /\ NoListen
    \/ NewSocket(addr, "closed") /\ files' = fs /\ NoListen
    \/ /\ Available(addr)
       /\ \E state \in {"open", "listen"} : NewSocket(addr, state)
       /\ files' = BoundFile(fs, addr, Len(sockets'))
       /\ Listen(Len(sockets'))

\* TcpServer::bind and what init() does with its result; fs is the file system
\* bind finds.  In order: socket fails; SetNonBlock fails and the socket is
\* left open; ::bind fails; ::bind succeeds and listen fails; all succeed.
bind(addr, fs) ==
    \/ UNCHANGED sockets /\ files' = fs /\ NoListen
    \/ NewSocket(addr, "lost") /\ files' = fs /\ NoListen
    \/ NewSocket(addr, "closed") /\ files' = fs /\ NoListen
    \/ /\ Available(addr)
       /\ NewSocket(addr, "closed")
       /\ files' = BoundFile(fs, addr, Len(sockets'))
       /\ NoListen
    \/ /\ Available(addr)
       /\ NewSocket(addr, "listen")
       /\ files' = BoundFile(fs, addr, Len(sockets'))
       /\ Listen(Len(sockets'))

CSByIP(ip, port) == bind(Create(ip, port), files)

\* The ip half of an iteration of init().
initIp ==
    /\ phase = "ip"
    /\ i <= Len(info)
    /\ IF info[i].ip # Absent /\ info[i].port # 0
       THEN CSByIP(info[i].ip, info[i].port)
       ELSE UNCHANGED <<sockets, files>> /\ NoListen
    /\ phase' = "unix"
    /\ UNCHANGED <<info, i>>

\* Faulty variant: the file is removed after ::bind has created it.
CSByUnixAddrLateRemove(path) ==
    /\ NewSocket(UnixAddress(path), "listen")
    /\ Listen(Len(sockets'))
    /\ files' = [files EXCEPT ![path] = 0]
    /\ phase' = "ip"
    /\ i' = i + 1

\* CSByUnixAddr: the file of that name is removed, then the address is made,
\* which throws for a long path, out of init() and out of the constructor: the
\* members of the object are destroyed, the sockets of the entries before stay.
CSByUnixAddr(path) ==
    LET fs == [files EXCEPT ![path] = 0] IN
    IF path \in LongPaths
    THEN /\ files' = fs
         /\ phase' = "threw"
         /\ m_listenFd' = << >>
         /\ UNCHANGED <<m_flag, sockets, i>>
    ELSE /\ bind(UnixAddress(path), fs)
         /\ phase' = "ip"
         /\ i' = i + 1

\* The unix half of an iteration of init().
initUnix ==
    /\ phase = "unix"
    /\ IF info[i].unix # Absent
       THEN CSByUnixAddr(info[i].unix)
       ELSE /\ phase' = "ip"
            /\ i' = i + 1
            /\ NoListen
            /\ UNCHANGED <<sockets, files>>
    /\ UNCHANGED info

\* start() after the constructor: serve, or return at once.
start ==
    /\ phase = "ip"
    /\ i > Len(info)
    /\ phase' = IF m_flag THEN "serving" ELSE "returned"
    /\ UNCHANGED <<info, i, m_flag, m_listenFd, sockets, files>>

Next == initIp \/ initUnix \/ start
Spec == Init /\ [][Next]_vars

-----------------------------------------------------------------------------
\* Type invariant.
TypeOK ==
    /\ info \in Seq(AddrInfo)
    /\ i \in 1..(Len(info) + 1)
    /\ phase \in {"ip", "unix", "threw", "serving", "returned"}
    /\ m_flag \in BOOLEAN
    /\ m_listenFd \in Seq(Fd)
    /\ sockets \in Seq([addr : [ip : Ips \cup {Absent, "0.0.0.0"}, port : Ports \cup {0},
                                unix : Paths \cup {Absent}],
                        state : {"closed", "lost", "listen"}])
    /\ files \in [Paths -> Fd \cup {0}]

\* fd is in m_listenFd.
IsListenFd(fd) == \E k \in DOMAIN m_listenFd : m_listenFd[k] = fd

\* Whatever system call fails on the way, m_listenFd is exactly the listening
\* sockets, each once and in the order of the configuration, and start() serves
\* them; a socket that bind() gave up is closed, except on the SetNonBlock path.
\* A socket listens that no list holds only where the constructor threw, and it
\* throws only at a path that is too long.
ListenersExact ==
    /\ TypeOK
    /\ \A k, l \in DOMAIN m_listenFd : k < l => m_listenFd[k] < m_listenFd[l]
    /\ \A fd \in Fd : IF phase = "threw" THEN ~IsListenFd(fd)
                      ELSE Listening(fd) <=> IsListenFd(fd)
    /\ phase = "threw" => info[i].unix \in LongPaths
    /\ phase = "returned" => m_listenFd = << >>

\* A unix listener can be reached through its path, unless a later entry of
\* the configuration names the same path and has removed the file.
OrphanedOnlyByDuplicate ==
    \A k \in 1..Len(m_listenFd) :
        LET fd == m_listenFd[k]
            path == sockets[fd].addr.unix
            named == {n \in 1..Len(info) : info[n].unix = path}
        IN  path # Absent /\ files[path] # fd => \E n, m \in named : n < m /\ m <= i

\* An entry of the configuration asks for an address; an ip that is not an
\* address stands for every address of the host.
AsksFor(entry, addr) ==
    \/ /\ entry.ip # Absent /\ entry.port # 0
       /\ addr = [ip |-> IF entry.ip \in ParsedIps THEN entry.ip ELSE "0.0.0.0",
                  port |-> entry.port, unix |-> Absent]
    \/ entry.unix # Absent /\ addr = [ip |-> Absent, port |-> 0, unix |-> entry.unix]

\* place gives for each listener the entry that asks for it, in the order of the
\* configuration: an entry's ip address comes before its unix address.
Places(place) ==
    \A k, l \in DOMAIN m_listenFd :
        LET addr == sockets[m_listenFd[k]].addr
            next == sockets[m_listenFd[l]].addr
        IN  /\ AsksFor(info[place[k]], addr)
            /\ k < l => \/ place[k] < place[l]
                        \/ place[k] = place[l] /\ addr.unix = Absent /\ next.unix # Absent

\* Whatever fails on the way, the addresses the server listens on are the
\* configured ones in their order, some left out, none added or repeated.
BoundAsConfigured == \E place \in [DOMAIN m_listenFd -> DOMAIN info] : Places(place)

=============================================================================
