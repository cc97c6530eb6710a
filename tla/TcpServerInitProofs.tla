------------------------ MODULE TcpServerInitProofs ------------------------
(* The start-up of a TcpServer (src/tcpServer.cc), for every configuration    *)
(* and every pattern of failing system calls: init() keeps exactly the        *)
(* sockets that listen, on the configured addresses and in their order.       *)
EXTENDS TcpServerInit, SequenceTheorems, TLAPS

Addr == [ip : Ips \cup {Absent, "0.0.0.0"}, port : Ports \cup {0}, unix : Paths \cup {Absent}]
Socket == [addr : Addr, state : {"closed", "lost", "listen"}]
AddrOf(k) == sockets[m_listenFd[k]].addr

\* The loop is inside the configuration, and start() has not run without m_flag.
Loop ==
    /\ phase = "unix" => i <= Len(info)
    /\ m_flag = FALSE \/ phase # "returned"
    /\ m_flag = TRUE \/ m_listenFd = << >>

\* place witnesses BoundAsConfigured.  It says more in the middle of the loop:
\* the listeners come from the entries that are done, or from the ip half of
\* the one at hand, and a unix listener that lost its file lost it to an entry
\* after its own.
Placed(place) ==
    /\ place \in [DOMAIN m_listenFd -> DOMAIN info]
    /\ Places(place)
    /\ \A k \in DOMAIN m_listenFd :
          /\ place[k] < i \/ (place[k] = i /\ phase # "ip" /\ AddrOf(k).unix = Absent)
          /\ AddrOf(k).unix # Absent /\ files[AddrOf(k).unix] # m_listenFd[k] =>
                \E m \in DOMAIN info : place[k] < m /\ m <= i /\ info[m].unix = AddrOf(k).unix

\* The inductive invariant.
IInv == ListenersExact /\ Loop /\ \E place : Placed(place)

----------------------------------------------------------------------------
\* What bind() does, whichever of its calls fails: at most one socket is added,
\* only the file of its own address changes, and the socket that listens is the
\* one that is kept.
Grows ==
    /\ sockets' \in Seq(Socket) /\ Len(sockets) <= Len(sockets')
    /\ \A fd \in 1..Len(sockets) : sockets'[fd] = sockets[fd]
FileOf(addr) ==
    /\ files' \in [Paths -> 0..Len(sockets')]
    /\ \A p \in Paths : p # addr.unix => files'[p] = files[p]
Fails ==
    /\ NoListen
    /\ \A fd \in (Len(sockets) + 1)..Len(sockets') : sockets'[fd].state # "listen"
Succeeds(addr) ==
    /\ Len(sockets') = Len(sockets) + 1
    /\ sockets'[Len(sockets')] = [addr |-> addr, state |-> "listen"]
    /\ Listen(Len(sockets'))
    /\ addr.unix # Absent => files'[addr.unix] = Len(sockets')
Bound(addr) == Grows /\ FileOf(addr) /\ (Fails \/ Succeeds(addr))

\* A sequence over a set is one over a larger set.
LEMMA SeqWiden ==
    ASSUME NEW S, NEW T, S \subseteq T, NEW s \in Seq(S) PROVE s \in Seq(T)
OBVIOUS

\* The types that every step needs.
LEMMA Types ==
    ASSUME TypeOK
    PROVE  /\ info \in Seq(AddrInfo) /\ Len(info) \in Nat /\ DOMAIN info = 1..Len(info)
           /\ sockets \in Seq(Socket) /\ Len(sockets) \in Nat
           /\ m_listenFd \in Seq(1..Len(sockets)) /\ Len(m_listenFd) \in Nat
           /\ DOMAIN m_listenFd = 1..Len(m_listenFd)
           /\ \A k \in 1..Len(m_listenFd) : m_listenFd[k] \in 1..Len(sockets)
           /\ files \in [Paths -> 0..Len(sockets)]
<1>1. /\ info \in Seq(AddrInfo) /\ Len(info) \in Nat /\ DOMAIN info = 1..Len(info)
      /\ sockets \in Seq(Socket) /\ Len(sockets) \in Nat
      /\ m_listenFd \in Seq(1..Len(sockets)) /\ Len(m_listenFd) \in Nat
      /\ DOMAIN m_listenFd = 1..Len(m_listenFd)
  <2>1. info \in Seq(AddrInfo) BY DEF TypeOK
  <2>2. sockets \in Seq(Socket) BY DEF TypeOK, Socket, Addr
  <2>3. m_listenFd \in Seq(1..Len(sockets)) BY DEF TypeOK, Fd
  <2> QED BY <2>1, <2>2, <2>3
<1>2. \A k \in 1..Len(m_listenFd) : m_listenFd[k] \in 1..Len(sockets) BY <1>1, ElementOfSeq
<1>3. files \in [Paths -> 0..Len(sockets)]
  <2>1. (1..Len(sockets)) \cup {0} = 0..Len(sockets) BY <1>1
  <2> QED BY <2>1 DEF TypeOK, Fd
<1> QED BY <1>1, <1>2, <1>3

\* A socket appended to the others.
LEMMA NewSocketAppends ==
    ASSUME TypeOK, NEW addr \in Addr, NEW state \in {"closed", "lost", "listen"},
           NewSocket(addr, state)
    PROVE  /\ sockets' \in Seq(Socket) /\ Len(sockets') = Len(sockets) + 1
           /\ \A fd \in 1..Len(sockets) : sockets'[fd] = sockets[fd]
           /\ sockets'[Len(sockets')] = [addr |-> addr, state |-> state]
<1> DEFINE new == [addr |-> addr, state |-> state]
<1>1. sockets \in Seq(Socket) /\ Len(sockets) \in Nat BY Types
<1>2. new \in Socket BY DEF Socket
<1>3. sockets' = Append(sockets, new) BY DEF NewSocket
<1> HIDE DEF new
<1>4. /\ Append(sockets, new) \in Seq(Socket) /\ Len(Append(sockets, new)) = Len(sockets) + 1
      /\ \A fd \in 1..Len(sockets) : Append(sockets, new)[fd] = sockets[fd]
      /\ Append(sockets, new)[Len(sockets) + 1] = new
  BY <1>1, <1>2, AppendProperties
<1> QED BY <1>3, <1>4 DEF new

\* The file system after a successful ::bind.
LEMMA BoundFileKeeps ==
    ASSUME NEW addr \in Addr, NEW n \in Nat, NEW fs \in [Paths -> 0..n]
    PROVE  /\ BoundFile(fs, addr, n + 1) \in [Paths -> 0..(n + 1)]
           /\ \A p \in Paths : p # addr.unix => BoundFile(fs, addr, n + 1)[p] = fs[p]
           /\ addr.unix # Absent => BoundFile(fs, addr, n + 1)[addr.unix] = n + 1
<1>1. addr.unix = Absent \/ addr.unix \in Paths BY DEF Addr
<1>2. \A p \in Paths : fs[p] \in 0..(n + 1) OBVIOUS
<1>3. CASE addr.unix = Absent
  <2>1. BoundFile(fs, addr, n + 1) = fs BY <1>3 DEF BoundFile
  <2> QED BY <1>2, <1>3, <2>1
<1>4. CASE addr.unix \in Paths /\ addr.unix # Absent
  <2>1. BoundFile(fs, addr, n + 1) = [fs EXCEPT ![addr.unix] = n + 1] BY <1>4 DEF BoundFile
  <2>2. fs \in [Paths -> 0..(n + 1)] /\ n + 1 \in 0..(n + 1) BY <1>2
  <2>3. [fs EXCEPT ![addr.unix] = n + 1] \in [Paths -> 0..(n + 1)] BY <1>4, <2>2
  <2>4. \A p \in Paths : p # addr.unix => [fs EXCEPT ![addr.unix] = n + 1][p] = fs[p]
    OBVIOUS
  <2>5. [fs EXCEPT ![addr.unix] = n + 1][addr.unix] = n + 1 BY <1>4
  <2> QED BY <2>1, <2>3, <2>4, <2>5
<1> QED BY <1>1, <1>3, <1>4

\* bind() with the file system it finds.
LEMMA BindBound ==
    ASSUME TypeOK, NEW addr \in Addr, NEW fs \in [Paths -> 0..Len(sockets)],
           \A p \in Paths : p # addr.unix => fs[p] = files[p], bind(addr, fs)
    PROVE  Bound(addr)
<1>1. sockets \in Seq(Socket) /\ Len(sockets) \in Nat BY Types
<1>2. fs \in [Paths -> 0..(Len(sockets) + 1)] BY <1>1
<1>3. CASE UNCHANGED sockets /\ files' = fs /\ NoListen
  <2>1. Grows BY <1>1, <1>3 DEF Grows
  <2>2. FileOf(addr) BY <1>3 DEF FileOf
  <2>3. Fails BY <1>1, <1>3 DEF Fails
  <2> QED BY <2>1, <2>2, <2>3 DEF Bound
<1>4. ASSUME NEW state \in {"lost", "closed"}, NewSocket(addr, state), NoListen,
             \/ files' = fs
             \/ files' = BoundFile(fs, addr, Len(sockets'))
      PROVE  Bound(addr)
  <2>1. /\ sockets' \in Seq(Socket) /\ Len(sockets') = Len(sockets) + 1
        /\ \A fd \in 1..Len(sockets) : sockets'[fd] = sockets[fd]
        /\ sockets'[Len(sockets')] = [addr |-> addr, state |-> state]
    BY <1>4, NewSocketAppends
  <2>2. /\ files' \in [Paths -> 0..Len(sockets')]
        /\ \A p \in Paths : p # addr.unix => files'[p] = files[p]
    <3>1. CASE files' = fs BY <1>2, <2>1, <3>1
    <3>2. CASE files' = BoundFile(fs, addr, Len(sockets'))
      <4>1. /\ BoundFile(fs, addr, Len(sockets) + 1) \in [Paths -> 0..(Len(sockets) + 1)]
            /\ \A p \in Paths :
                  p # addr.unix => BoundFile(fs, addr, Len(sockets) + 1)[p] = fs[p]
        BY <1>1, BoundFileKeeps
      <4> QED BY <2>1, <3>2, <4>1
    <3> QED BY <1>4, <3>1, <3>2
  <2>3. \A fd \in (Len(sockets) + 1)..Len(sockets') : sockets'[fd].state # "listen"
    BY <1>1, <2>1
  <2>4. Grows BY <1>1, <2>1 DEF Grows
  <2>5. Fails BY <1>4, <2>3 DEF Fails
  <2>6. FileOf(addr) BY <2>2 DEF FileOf
  <2> QED BY <2>4, <2>5, <2>6 DEF Bound
<1>5. ASSUME NewSocket(addr, "listen"), files' = BoundFile(fs, addr, Len(sockets')),
             Listen(Len(sockets'))
      PROVE  Bound(addr)
  <2>1. /\ sockets' \in Seq(Socket) /\ Len(sockets') = Len(sockets) + 1
        /\ \A fd \in 1..Len(sockets) : sockets'[fd] = sockets[fd]
        /\ sockets'[Len(sockets')] = [addr |-> addr, state |-> "listen"]
    BY <1>5, NewSocketAppends
  <2>2. /\ files' \in [Paths -> 0..Len(sockets')]
        /\ \A p \in Paths : p # addr.unix => files'[p] = files[p]
        /\ addr.unix # Absent => files'[addr.unix] = Len(sockets')
    <3>1. /\ BoundFile(fs, addr, Len(sockets) + 1) \in [Paths -> 0..(Len(sockets) + 1)]
          /\ \A p \in Paths :
                p # addr.unix => BoundFile(fs, addr, Len(sockets) + 1)[p] = fs[p]
          /\ addr.unix # Absent =>
                BoundFile(fs, addr, Len(sockets) + 1)[addr.unix] = Len(sockets) + 1
      BY <1>1, BoundFileKeeps
    <3> QED BY <1>5, <2>1, <3>1
  <2>3. Grows BY <1>1, <2>1 DEF Grows
  <2>4. Succeeds(addr) BY <1>5, <2>1, <2>2 DEF Succeeds
  <2>5. FileOf(addr) BY <2>2 DEF FileOf
  <2> QED BY <2>3, <2>4, <2>5 DEF Bound
<1> QED BY <1>3, <1>4, <1>5 DEF bind

\* An entry that asks for nothing.
LEMMA NothingBound ==
    ASSUME TypeOK, NEW addr, UNCHANGED <<sockets, files>>, NoListen PROVE Bound(addr)
<1>1. Grows BY Types DEF Grows
<1>2. FileOf(addr) BY Types DEF FileOf
<1>3. Fails BY Types DEF Fails
<1> QED BY <1>1, <1>2, <1>3 DEF Bound

\* An entry bound or left out keeps m_listenFd exact.
LEMMA ListenersStep ==
    ASSUME ListenersExact, NEW addr \in Addr, Bound(addr), info' = info,
           i' \in 1..(Len(info) + 1), phase # "threw", phase' \in {"ip", "unix"}
    PROVE  ListenersExact'
<1>1. TypeOK BY DEF ListenersExact
<1>2. /\ Len(sockets) \in Nat /\ Len(m_listenFd) \in Nat
      /\ m_listenFd \in Seq(1..Len(sockets))
      /\ DOMAIN m_listenFd = 1..Len(m_listenFd)
      /\ \A k \in 1..Len(m_listenFd) : m_listenFd[k] \in 1..Len(sockets)
  BY <1>1, Types
<1>3. /\ sockets' \in Seq(Socket) /\ Len(sockets') \in Nat /\ Len(sockets) <= Len(sockets')
      /\ \A fd \in 1..Len(sockets) : sockets'[fd] = sockets[fd]
  BY DEF Bound, Grows
<1>4. /\ \A k, l \in 1..Len(m_listenFd) : k < l => m_listenFd[k] < m_listenFd[l]
      /\ \A fd \in 1..Len(sockets) :
            sockets[fd].state = "listen" <=> \E k \in 1..Len(m_listenFd) : m_listenFd[k] = fd
  BY <1>2 DEF ListenersExact, Listening, IsListenFd, Fd
<1>5. files' \in [Paths -> 1..Len(sockets') \cup {0}]
  <2>1. files' \in [Paths -> 0..Len(sockets')] BY DEF Bound, FileOf
  <2>2. 0..Len(sockets') = 1..Len(sockets') \cup {0} BY <1>3
  <2> QED BY <2>1, <2>2
<1>6. SUFFICES /\ m_flag' \in BOOLEAN /\ m_listenFd' \in Seq(1..Len(sockets'))
               /\ \A k, l \in DOMAIN m_listenFd' : k < l => m_listenFd'[k] < m_listenFd'[l]
               /\ \A fd \in 1..Len(sockets') :
                     sockets'[fd].state = "listen"
                       <=> \E k \in DOMAIN m_listenFd' : m_listenFd'[k] = fd
  <2>1. sockets' \in Seq([addr : [ip : Ips \cup {Absent, "0.0.0.0"}, port : Ports \cup {0},
                                  unix : Paths \cup {Absent}],
                          state : {"closed", "lost", "listen"}])
    BY <1>3 DEF Socket, Addr
  <2>2. TypeOK' BY <1>1, <1>3, <1>5, <1>6, <2>1 DEF TypeOK, Fd
  <2>3. phase' # "returned" /\ phase' # "threw" OBVIOUS
  <2> QED BY <1>6, <2>2, <2>3 DEF ListenersExact, Listening, IsListenFd, Fd
<1>7. CASE Fails
  <2>1. m_listenFd' = m_listenFd /\ m_flag' = m_flag BY <1>7 DEF Fails, NoListen
  <2>2. \A fd \in (Len(sockets) + 1)..Len(sockets') : sockets'[fd].state # "listen"
    BY <1>7 DEF Fails
  <2>3. m_listenFd' \in Seq(1..Len(sockets'))
    <3>1. 1..Len(sockets) \subseteq 1..Len(sockets') BY <1>2, <1>3
    <3>2. m_listenFd \in Seq(1..Len(sockets)) BY <1>2
    <3>3. m_listenFd \in Seq(1..Len(sockets')) BY ONLY <3>1, <3>2, SeqWiden
    <3> QED BY <2>1, <3>3
  <2>4. ASSUME NEW fd \in 1..Len(sockets')
        PROVE  sockets'[fd].state = "listen"
                 <=> \E k \in 1..Len(m_listenFd) : m_listenFd[k] = fd
    <3>1. CASE fd <= Len(sockets)
      <4>1. fd \in 1..Len(sockets) BY <1>2, <3>1
      <4>2. sockets'[fd] = sockets[fd] BY <1>3, <4>1
      <4> QED BY <1>4, <4>1, <4>2
    <3>2. CASE fd > Len(sockets)
      <4>1. fd \in (Len(sockets) + 1)..Len(sockets') BY <1>2, <1>3, <3>2
      <4>2. \A k \in 1..Len(m_listenFd) : m_listenFd[k] # fd BY <1>2, <3>2
      <4> QED BY <2>2, <4>1, <4>2
    <3>3. fd <= Len(sockets) \/ fd > Len(sockets) BY <1>2, <1>3
    <3> QED BY <3>1, <3>2, <3>3
  <2> QED BY <1>1, <1>2, <1>4, <2>1, <2>3, <2>4 DEF TypeOK
<1>8. CASE Succeeds(addr)
  <2> DEFINE new == Len(sockets) + 1
             n == Len(m_listenFd)
  <2>1. /\ m_listenFd' = Append(m_listenFd, new) /\ m_flag' = TRUE /\ Len(sockets') = new
        /\ sockets'[new].state = "listen"
    <3>1. /\ Len(sockets') = new /\ sockets'[Len(sockets')] = [addr |-> addr, state |-> "listen"]
          /\ Listen(Len(sockets'))
      BY <1>8 DEF Succeeds
    <3>2. sockets'[new] = [addr |-> addr, state |-> "listen"] BY <3>1
    <3>3. sockets'[new].state = "listen" BY <3>2
    <3>4. m_listenFd' = Append(m_listenFd, new) /\ m_flag' = TRUE BY <3>1 DEF Listen
    <3> QED BY <3>1, <3>3, <3>4
  <2>2. 1..Len(sockets) \subseteq 1..new /\ new \in 1..new BY <1>2
  <2>3. m_listenFd \in Seq(1..new) BY <1>2, <2>2
  <2>4. /\ m_listenFd' \in Seq(1..new) /\ Len(m_listenFd') = n + 1
        /\ \A k \in 1..n : m_listenFd'[k] = m_listenFd[k]
        /\ m_listenFd'[n + 1] = new
    BY <2>1, <2>2, <2>3, AppendProperties
  <2>5. DOMAIN m_listenFd' = 1..(n + 1) BY <2>4
  <2>6. ASSUME NEW k \in 1..(n + 1), NEW l \in 1..(n + 1), k < l
        PROVE  m_listenFd'[k] < m_listenFd'[l]
    <3>0. n \in Nat BY <1>2
    <3>1. k \in 1..n /\ (l \in 1..n \/ l = n + 1) BY ONLY <2>6, <3>0
    <3>2. CASE l \in 1..n BY <1>4, <2>4, <2>6, <3>1, <3>2
    <3>3. CASE l = n + 1 BY <1>2, <2>4, <3>1, <3>3
    <3> QED BY <3>1, <3>2, <3>3
  <2>7. ASSUME NEW fd \in 1..new
        PROVE  sockets'[fd].state = "listen" <=> \E k \in 1..(n + 1) : m_listenFd'[k] = fd
    <3>1. n \in Nat /\ n + 1 \in 1..(n + 1) /\ \A k \in 1..(n + 1) : k \in 1..n \/ k = n + 1
      BY <1>2
    <3>2. CASE fd = new
      <4>1. sockets'[fd].state = "listen" BY ONLY <2>1, <3>2
      <4>2. m_listenFd'[n + 1] = fd BY ONLY <2>4, <3>2
      <4> QED BY ONLY <3>1, <4>1, <4>2
    <3>3. CASE fd # new
      <4>1. fd \in 1..Len(sockets) BY <1>2, <3>3
      <4>2. sockets'[fd].state = "listen" <=> \E k \in 1..n : m_listenFd[k] = fd
        BY <1>3, <1>4, <4>1
      <4>3. (\E k \in 1..(n + 1) : m_listenFd'[k] = fd) <=> \E k \in 1..n : m_listenFd[k] = fd
        <5>1. ASSUME NEW k \in 1..(n + 1), m_listenFd'[k] = fd PROVE k \in 1..n /\ m_listenFd[k] = fd
          BY ONLY <2>4, <3>1, <3>3, <5>1
        <5>2. ASSUME NEW k \in 1..n, m_listenFd[k] = fd PROVE k \in 1..(n + 1) /\ m_listenFd'[k] = fd
          BY ONLY <2>4, <3>1, <5>2
        <5> QED BY ONLY <5>1, <5>2
      <4> QED BY <4>2, <4>3
    <3> QED BY <3>2, <3>3
  <2> QED BY <2>1, <2>4, <2>5, <2>6, <2>7
<1> QED BY <1>7, <1>8 DEF Bound

\* The half of an entry that is done: the ip half, which touches no file, or the
\* unix half, which touches only the file of this entry.
Half(addr) ==
    /\ info' = info /\ i \in DOMAIN info
    /\ Fails \/ AsksFor(info[i], addr)
    /\ \/ phase = "ip" /\ phase' = "unix" /\ i' = i /\ addr.unix = Absent
       \/ /\ phase = "unix" /\ info[i].unix = addr.unix /\ (Fails \/ addr.unix # Absent)
          /\ phase' = "ip" /\ i' = i + 1

\* It also keeps the listeners in the places of the configuration.
LEMMA PlacedStep ==
    ASSUME IInv, NEW addr \in Addr, Bound(addr), Half(addr)
    PROVE  \E place : Placed(place)'
<1>1. TypeOK BY DEF IInv, ListenersExact
<1>2. /\ Len(sockets) \in Nat /\ Len(m_listenFd) \in Nat /\ Len(info) \in Nat
      /\ DOMAIN m_listenFd = 1..Len(m_listenFd) /\ DOMAIN info = 1..Len(info)
      /\ \A k \in 1..Len(m_listenFd) : m_listenFd[k] \in 1..Len(sockets)
      /\ sockets \in Seq(Socket) /\ m_listenFd \in Seq(1..Len(sockets))
  BY <1>1, Types
<1>3. PICK place : Placed(place) BY DEF IInv
<1> DEFINE n == Len(m_listenFd)
<1>4. /\ n \in Nat /\ i \in Nat /\ i \in 1..Len(info) /\ info' = info
      /\ i <= i' /\ i' \in Nat
  <2>1. i \in DOMAIN info /\ info' = info /\ (i' = i \/ i' = i + 1) BY DEF Half
  <2> QED BY <1>2, <2>1
<1>5. ASSUME NEW k \in 1..n
      PROVE  /\ place[k] \in 1..Len(info) /\ place[k] \in Nat
             /\ AsksFor(info[place[k]], AddrOf(k))
             /\ place[k] < i \/ (place[k] = i /\ phase # "ip" /\ AddrOf(k).unix = Absent)
             /\ AddrOf(k).unix # Absent /\ files[AddrOf(k).unix] # m_listenFd[k] =>
                   \E m \in DOMAIN info :
                      place[k] < m /\ m <= i /\ info[m].unix = AddrOf(k).unix
             /\ AddrOf(k).unix \in Paths \cup {Absent}
  <2>1. place \in [1..n -> 1..Len(info)] BY <1>2, <1>3 DEF Placed
  <2>2. AsksFor(info[place[k]], AddrOf(k)) BY <1>2, <1>3 DEF Placed, Places, AddrOf
  <2>3. AddrOf(k).unix \in Paths \cup {Absent}
    <3>1. sockets[m_listenFd[k]] \in Socket BY <1>2, ElementOfSeq
    <3> QED BY <3>1 DEF Socket, Addr, AddrOf
  <2>4. place[k] \in 1..Len(info) /\ place[k] \in Nat BY <1>2, <2>1
  <2>5. /\ place[k] < i \/ (place[k] = i /\ phase # "ip" /\ AddrOf(k).unix = Absent)
        /\ AddrOf(k).unix # Absent /\ files[AddrOf(k).unix] # m_listenFd[k] =>
              \E m \in DOMAIN info : place[k] < m /\ m <= i /\ info[m].unix = AddrOf(k).unix
    BY <1>2, <1>3 DEF Placed
  <2> QED BY <2>2, <2>3, <2>4, <2>5
<1>6. ASSUME NEW k \in 1..n, NEW l \in 1..n, k < l
      PROVE  \/ place[k] < place[l]
             \/ place[k] = place[l] /\ AddrOf(k).unix = Absent /\ AddrOf(l).unix # Absent
  BY <1>2, <1>3, <1>6 DEF Placed, Places, AddrOf
\* The listeners that were there keep their address and their place.
<1>7. ASSUME NEW k \in 1..n, m_listenFd'[k] = m_listenFd[k]
      PROVE  /\ sockets'[m_listenFd'[k]].addr = AddrOf(k)
             /\ place[k] < i' \/ (place[k] = i' /\ phase' # "ip" /\ AddrOf(k).unix = Absent)
             /\ AddrOf(k).unix # Absent /\ files'[AddrOf(k).unix] # m_listenFd'[k] =>
                   \E m \in DOMAIN info :
                      place[k] < m /\ m <= i' /\ info[m].unix = AddrOf(k).unix
  <2>1. sockets'[m_listenFd'[k]].addr = AddrOf(k)
    BY <1>2, <1>7 DEF Bound, Grows, AddrOf
  <2>2. place[k] < i' \/ (place[k] = i' /\ phase' # "ip" /\ AddrOf(k).unix = Absent)
    <3>1. place[k] \in Nat /\ (place[k] < i \/ (place[k] = i /\ phase # "ip" /\ AddrOf(k).unix = Absent))
      BY <1>5
    <3>2. \/ phase = "ip" /\ phase' = "unix" /\ i' = i
          \/ phase = "unix" /\ phase' = "ip" /\ i' = i + 1
      BY DEF Half
    <3>3. CASE phase = "ip" /\ phase' = "unix" /\ i' = i BY <3>1, <3>3
    <3>4. CASE phase = "unix" /\ phase' = "ip" /\ i' = i + 1
      <4>1. i \in Nat BY <1>4
      <4>2. place[k] <= i BY <3>1, <4>1
      <4>3. place[k] < i + 1 BY <3>1, <4>1, <4>2
      <4> QED BY <3>4, <4>3
    <3> QED BY <3>2, <3>3, <3>4
  <2>3. ASSUME AddrOf(k).unix # Absent, files'[AddrOf(k).unix] # m_listenFd'[k]
        PROVE  \E m \in DOMAIN info :
                  place[k] < m /\ m <= i' /\ info[m].unix = AddrOf(k).unix
    <3>2. CASE files[AddrOf(k).unix] # m_listenFd[k]
      <4>1. PICK m \in DOMAIN info :
               place[k] < m /\ m <= i /\ info[m].unix = AddrOf(k).unix
        BY <1>5, <2>3, <3>2
      <4>2. m \in Nat /\ m <= i' BY <1>2, <1>4, <4>1
      <4> QED BY <4>1, <4>2
    <3>3. CASE files[AddrOf(k).unix] = m_listenFd[k]
      <4>1. AddrOf(k).unix \in Paths BY <1>5, <2>3
      <4>2. AddrOf(k).unix = addr.unix
        BY <1>7, <2>3, <3>3, <4>1 DEF Bound, FileOf
      <4>3. info[i].unix = AddrOf(k).unix BY <2>3, <4>2 DEF Half
      <4>4. place[k] < i BY <1>5, <2>3
      <4>5. i <= i' /\ i \in DOMAIN info BY <1>2, <1>4
      <4> QED BY <4>3, <4>4, <4>5
    <3> QED BY <3>2, <3>3
  <2> QED BY <2>1, <2>2, <2>3
<1>8. CASE Fails
  <2>1. m_listenFd' = m_listenFd BY <1>8 DEF Fails, NoListen
  <2>2. place \in [1..n -> 1..Len(info)] BY <1>2, <1>3 DEF Placed
  <2>3. ASSUME NEW k \in 1..n
        PROVE  /\ sockets'[m_listenFd[k]].addr = AddrOf(k)
               /\ place[k] < i' \/ (place[k] = i' /\ phase' # "ip" /\ AddrOf(k).unix = Absent)
               /\ AddrOf(k).unix # Absent /\ files'[AddrOf(k).unix] # m_listenFd[k] =>
                     \E m \in DOMAIN info :
                        place[k] < m /\ m <= i' /\ info[m].unix = AddrOf(k).unix
    BY <1>7, <2>1
  <2>4. Places(place)'
    <3> SUFFICES ASSUME NEW k \in 1..n, NEW l \in 1..n
                 PROVE  /\ AsksFor(info[place[k]], sockets'[m_listenFd[k]].addr)
                        /\ k < l => \/ place[k] < place[l]
                                    \/ /\ place[k] = place[l]
                                       /\ sockets'[m_listenFd[k]].addr.unix = Absent
                                       /\ sockets'[m_listenFd[l]].addr.unix # Absent
      BY <1>2, <1>4, <2>1 DEF Places, AsksFor
    <3> QED BY <1>5, <1>6, <2>3
  <2>5. Placed(place)' BY <1>2, <1>4, <2>1, <2>2, <2>3, <2>4 DEF Placed, AddrOf
  <2> QED BY <2>5
<1>9. CASE Succeeds(addr) /\ ~ Fails
  <2> DEFINE fd == Len(sockets) + 1
             A(k) == sockets'[m_listenFd'[k]].addr
  <2>1. /\ Len(sockets') = fd /\ sockets'[fd].addr = addr
        /\ m_listenFd' = Append(m_listenFd, fd)
        /\ addr.unix # Absent => files'[addr.unix] = fd
    <3>1. /\ Len(sockets') = fd /\ sockets'[Len(sockets')] = [addr |-> addr, state |-> "listen"]
          /\ Listen(Len(sockets')) /\ (addr.unix # Absent => files'[addr.unix] = Len(sockets'))
      BY <1>9 DEF Succeeds
    <3>2. m_listenFd' = Append(m_listenFd, fd) BY <3>1 DEF Listen
    <3>3. sockets'[fd] = [addr |-> addr, state |-> "listen"] BY <3>1
    <3>4. sockets'[fd].addr = addr BY <3>3
    <3> QED BY <3>1, <3>2, <3>4
  <2>2. /\ DOMAIN m_listenFd' = 1..(n + 1)
        /\ \A k \in 1..n : m_listenFd'[k] = m_listenFd[k]
        /\ m_listenFd'[n + 1] = fd
    <3>1. m_listenFd \in Seq(Nat) /\ fd \in Nat
      <4>1. 1..Len(sockets) \subseteq Nat BY <1>2
      <4>2. m_listenFd \in Seq(1..Len(sockets)) BY <1>2
      <4>3. m_listenFd \in Seq(Nat) BY ONLY <4>1, <4>2, SeqWiden
      <4> QED BY <1>2, <4>3
    <3> HIDE DEF fd
    <3>2. /\ m_listenFd' \in Seq(Nat) /\ Len(m_listenFd') = n + 1
          /\ \A k \in 1..n : m_listenFd'[k] = m_listenFd[k]
          /\ m_listenFd'[n + 1] = fd
      <4>1. /\ Append(m_listenFd, fd) \in Seq(Nat) /\ Len(Append(m_listenFd, fd)) = n + 1
            /\ \A k \in 1..n : Append(m_listenFd, fd)[k] = m_listenFd[k]
            /\ Append(m_listenFd, fd)[n + 1] = fd
        BY ONLY <3>1, AppendProperties
      <4>2. m_listenFd' = Append(m_listenFd, fd) BY <2>1
      <4> QED BY <4>1, <4>2
    <3>3. DOMAIN m_listenFd' = 1..Len(m_listenFd') BY <3>2
    <3> QED BY <3>2, <3>3
  <2>0. PICK q : q = [k \in 1..(n + 1) |-> IF k = n + 1 THEN i ELSE place[k]] OBVIOUS
  <2>3. q \in [1..(n + 1) -> 1..Len(info)]
    <3>1. \A k \in 1..(n + 1) : k = n + 1 \/ k \in 1..n BY <1>4
    <3> QED BY <1>4, <1>5, <2>0, <3>1
  <2>4. AsksFor(info[i], addr) /\ (phase = "unix" => addr.unix # Absent) BY <1>9 DEF Half
  <2>5. \A k \in 1..(n + 1) : k = n + 1 \/ k \in 1..n BY <1>4
  <2>6. A(n + 1) = addr /\ q[n + 1] = i
    <3>1. n + 1 \in 1..(n + 1) BY <1>4
    <3>2. q[n + 1] = i BY <2>0, <3>1
    <3> QED BY <2>1, <2>2, <3>2
  <2>7. \A k \in 1..n : A(k) = AddrOf(k) /\ q[k] = place[k]
    <3> SUFFICES ASSUME NEW k \in 1..n PROVE A(k) = AddrOf(k) /\ q[k] = place[k] OBVIOUS
    <3>1. k \in 1..(n + 1) /\ k # n + 1 BY <1>4
    <3>2. q[k] = place[k] BY <2>0, <3>1
    <3>3. A(k) = AddrOf(k) BY <1>7, <2>2
    <3> QED BY <3>2, <3>3
  <2> HIDE DEF fd, n, A
  <2>8. ASSUME NEW k \in 1..(n + 1)
        PROVE  /\ AsksFor(info[q[k]], A(k))
               /\ q[k] < i' \/ (q[k] = i' /\ phase' # "ip" /\ A(k).unix = Absent)
               /\ A(k).unix # Absent /\ files'[A(k).unix] # m_listenFd'[k] =>
                     \E m \in DOMAIN info : q[k] < m /\ m <= i' /\ info[m].unix = A(k).unix
    <3>1. CASE k \in 1..n
      <4>1. A(k) = AddrOf(k) /\ q[k] = place[k] /\ m_listenFd'[k] = m_listenFd[k]
        BY <2>2, <2>7, <3>1
      <4>2. AsksFor(info[place[k]], AddrOf(k)) BY <1>5, <3>1
      <4>3. /\ place[k] < i' \/ (place[k] = i' /\ phase' # "ip" /\ AddrOf(k).unix = Absent)
            /\ AddrOf(k).unix # Absent /\ files'[AddrOf(k).unix] # m_listenFd'[k] =>
                  \E m \in DOMAIN info :
                     place[k] < m /\ m <= i' /\ info[m].unix = AddrOf(k).unix
        BY <1>7, <3>1, <4>1
      <4> QED BY <4>1, <4>2, <4>3
    <3>2. CASE k = n + 1
      <4>1. A(k) = addr /\ q[k] = i /\ m_listenFd'[k] = fd BY <2>2, <2>6, <3>2
      <4>2. i < i' \/ (i = i' /\ phase' # "ip" /\ addr.unix = Absent)
        <5>1. \/ phase' = "unix" /\ i' = i /\ addr.unix = Absent
              \/ i' = i + 1
          BY <1>9 DEF Half
        <5>2. ASSUME i' = i + 1 PROVE i < i' BY <1>4, <5>2
        <5>3. CASE phase' = "unix" /\ i' = i /\ addr.unix = Absent BY <5>3
        <5> QED BY <5>1, <5>2, <5>3
      <4> QED BY <2>1, <2>4, <4>1, <4>2
    <3> QED BY <2>5, <3>1, <3>2
  <2>9. ASSUME NEW k \in 1..(n + 1), NEW l \in 1..(n + 1), k < l
        PROVE  \/ q[k] < q[l]
               \/ q[k] = q[l] /\ A(k).unix = Absent /\ A(l).unix # Absent
    <3>1. k \in 1..n /\ (l \in 1..n \/ l = n + 1) BY <1>4, <2>9
    <3>2. CASE l \in 1..n
      <4>1. A(k) = AddrOf(k) /\ q[k] = place[k] /\ A(l) = AddrOf(l) /\ q[l] = place[l]
        BY <2>7, <3>1, <3>2
      <4> QED BY <1>6, <2>9, <3>1, <3>2, <4>1
    <3>3. CASE l = n + 1
      <4>1. place[k] < i \/ (place[k] = i /\ phase # "ip" /\ AddrOf(k).unix = Absent)
        BY <1>5, <3>1
      <4>2. /\ A(k) = AddrOf(k) /\ q[k] = place[k] /\ A(l) = addr /\ q[l] = i
            /\ phase = "ip" \/ addr.unix # Absent
        BY <2>4, <2>6, <2>7, <3>1, <3>3 DEF Half
      <4> QED BY <4>1, <4>2
    <3> QED BY <3>1, <3>2, <3>3
  <2>10. Places(q)'
    <3> SUFFICES ASSUME NEW k \in 1..(n + 1), NEW l \in 1..(n + 1)
                 PROVE  /\ AsksFor(info[q[k]], A(k))
                        /\ k < l => \/ q[k] < q[l]
                                    \/ q[k] = q[l] /\ A(k).unix = Absent /\ A(l).unix # Absent
      BY <1>4, <2>2 DEF Places, AsksFor, A
    <3> QED BY <2>8, <2>9
  <2>11. Placed(q)' BY <1>2, <1>4, <2>2, <2>3, <2>8, <2>10 DEF Placed, AddrOf, A
  <2> QED BY <2>11
<1> QED BY <1>8, <1>9 DEF Bound

----------------------------------------------------------------------------
\* One half of an entry, done or left out, keeps the invariant.
LEMMA HalfInv ==
    ASSUME IInv, NEW addr \in Addr, Bound(addr), Half(addr) PROVE IInv'
<1>1. /\ ListenersExact /\ TypeOK /\ Len(info) \in Nat /\ i \in DOMAIN info
      /\ DOMAIN info = 1..Len(info)
  BY Types DEF IInv, ListenersExact, Half
<1>2. /\ info' = info /\ i' \in 1..(Len(info) + 1) /\ phase' \in {"ip", "unix"}
      /\ phase # "threw"
      /\ phase' = "unix" => i' <= Len(info)
  <2>1. /\ info' = info /\ phase' \in {"ip", "unix"} /\ phase # "threw"
        /\ i' = i \/ (i' = i + 1 /\ phase' = "ip")
    BY DEF Half
  <2> QED BY <1>1, <2>1
<1>3. ListenersExact' BY <1>1, <1>2, ListenersStep
<1>4. m_flag' = TRUE \/ m_listenFd' = << >>
  <2>1. CASE Fails BY <2>1 DEF Fails, NoListen, IInv, Loop
  <2>2. CASE Succeeds(addr) BY <2>2 DEF Succeeds, Listen
  <2> QED BY <2>1, <2>2 DEF Bound
<1>5. Loop' BY <1>2, <1>4 DEF Loop
<1>6. \E place : Placed(place)' BY PlacedStep
<1> QED BY <1>3, <1>5, <1>6 DEF IInv

\* The end of the constructor: its list is gone, and only a file has changed.
LEMMA ThrewInv ==
    ASSUME IInv, i \in DOMAIN info, info[i].unix \in LongPaths, phase' = "threw",
           m_listenFd' = << >>, UNCHANGED <<info, m_flag, sockets, i>>,
           files' \in [Paths -> 0..Len(sockets)]
    PROVE  IInv'
<1>1. TypeOK /\ Len(sockets) \in Nat BY Types DEF IInv, ListenersExact
<1>2. 0..Len(sockets) = 1..Len(sockets) \cup {0} BY <1>1
<1>3. TypeOK' BY <1>1, <1>2 DEF TypeOK, Fd
<1>4. ListenersExact' BY <1>3 DEF ListenersExact, IsListenFd
<1>5. Loop' BY DEF Loop
<1>6. Placed([k \in {} |-> 1])'
  <2>1. DOMAIN m_listenFd' = {} OBVIOUS
  <2> QED BY <2>1 DEF Placed, Places
<1> QED BY <1>4, <1>5, <1>6 DEF IInv

\* Nothing has been bound before init().
LEMMA InitInv == Init => IInv
<1> SUFFICES ASSUME Init PROVE IInv OBVIOUS
<1>1. /\ sockets = << >> /\ m_listenFd = << >> /\ i = 1 /\ phase = "ip"
      /\ files = [p \in Paths |-> 0] /\ m_flag \in BOOLEAN
  BY DEF Init
<1>2. info \in Seq(AddrInfo) /\ Len(info) \in Nat
  BY AddressAssumption DEF Init
<1>3. TypeOK BY <1>1, <1>2 DEF TypeOK, Fd
<1>4. ListenersExact BY <1>1, <1>3 DEF ListenersExact, Listening, IsListenFd, Fd
<1>5. Loop BY <1>1 DEF Loop
<1>6. Placed([k \in {} |-> 1])
  <2>1. DOMAIN m_listenFd = {} BY <1>1
  <2> QED BY <2>1 DEF Placed, Places
<1> QED BY <1>4, <1>5, <1>6 DEF IInv

\* What an address made from a configured one is.
LEMMA Addresses ==
    /\ \A ip \in Ips, port \in Ports :
          Create(ip, port) \in Addr /\ Create(ip, port).unix = Absent
    /\ \A path \in Paths :
          UnixAddress(path) \in Addr /\ UnixAddress(path).unix = path
    /\ UnixAddress(Absent) \in Addr /\ UnixAddress(Absent).unix = Absent
BY AddressAssumption DEF Create, UnixAddress, Addr

\* The ip half of an entry.
LEMMA InitIpInv ==
    ASSUME IInv, initIp PROVE IInv'
<1>1. TypeOK BY DEF IInv, ListenersExact
<1>2. i \in DOMAIN info /\ info[i] \in AddrInfo
  <2>1. i \in 1..Len(info) BY <1>1 DEF TypeOK, initIp
  <2> QED BY <1>1, <2>1, Types, ElementOfSeq
<1>3. info' = info /\ phase = "ip" /\ phase' = "unix" /\ i' = i BY DEF initIp
<1>4. CASE info[i].ip # Absent /\ info[i].port # 0
  <2> DEFINE addr == Create(info[i].ip, info[i].port)
  <2>1. info[i].ip \in Ips /\ info[i].port \in Ports BY <1>2, <1>4 DEF AddrInfo
  <2>2. addr \in Addr /\ addr.unix = Absent BY <2>1, Addresses
  <2>3. AsksFor(info[i], addr) BY <1>4 DEF AsksFor, Create
  <2>4. bind(addr, files) BY <1>4 DEF initIp, CSByIP
  <2> HIDE DEF addr
  <2>5. files \in [Paths -> 0..Len(sockets)] BY <1>1, Types
  <2>6. Bound(addr) BY <1>1, <2>2, <2>4, <2>5, BindBound
  <2>7. Half(addr) BY <1>2, <1>3, <2>2, <2>3 DEF Half
  <2> QED BY <2>2, <2>6, <2>7, HalfInv
<1>5. CASE ~ (info[i].ip # Absent /\ info[i].port # 0)
  <2> DEFINE addr == UnixAddress(Absent)
  <2>1. addr \in Addr /\ addr.unix = Absent BY Addresses
  <2>2. UNCHANGED <<sockets, files>> /\ NoListen BY <1>5 DEF initIp
  <2> HIDE DEF addr
  <2>3. Bound(addr) /\ Fails BY <1>1, <2>2, NothingBound, Types DEF Fails
  <2>4. Half(addr) BY <1>2, <1>3, <2>1, <2>3 DEF Half
  <2> QED BY <2>1, <2>3, <2>4, HalfInv
<1> QED BY <1>4, <1>5

\* The unix half of an entry: bound, left out, or the end of the constructor.
LEMMA InitUnixInv ==
    ASSUME IInv, initUnix PROVE IInv'
<1>1. TypeOK BY DEF IInv, ListenersExact
<1>2. i \in DOMAIN info /\ info[i] \in AddrInfo
  <2>1. i \in 1..Len(info) BY <1>1 DEF TypeOK, initUnix, IInv, Loop
  <2> QED BY <1>1, <2>1, Types, ElementOfSeq
<1>3. info' = info /\ phase = "unix" BY DEF initUnix
<1>4. files \in [Paths -> 0..Len(sockets)] /\ Len(sockets) \in Nat /\ sockets \in Seq(Socket)
  BY <1>1, Types
<1> DEFINE path == info[i].unix
           addr == UnixAddress(path)
           fs == [files EXCEPT ![path] = 0]
<1>5. CASE path # Absent
  <2>1. path \in Paths BY <1>2, <1>5 DEF AddrInfo
  <2>2. addr \in Addr /\ addr.unix = path BY <2>1, Addresses
  <2>3. AsksFor(info[i], addr) BY <1>5 DEF AsksFor, UnixAddress
  <2>4. /\ fs \in [Paths -> 0..Len(sockets)]
        /\ \A p \in Paths : p # path => fs[p] = files[p]
    BY <1>4, <2>1
  <2>5. \/ /\ files' = fs /\ phase' = "threw" /\ m_listenFd' = << >>
           /\ path \in LongPaths /\ UNCHANGED <<m_flag, sockets, i>>
        \/ bind(addr, fs) /\ phase' = "ip" /\ i' = i + 1
    BY <1>5 DEF initUnix, CSByUnixAddr
  <2> HIDE DEF addr, fs
  <2>6. CASE bind(addr, fs) /\ phase' = "ip" /\ i' = i + 1
    <3>1. Bound(addr) BY <1>1, <2>2, <2>4, <2>6, BindBound
    <3>2. Half(addr) BY <1>2, <1>3, <1>5, <2>2, <2>3, <2>6 DEF Half
    <3> QED BY <2>2, <3>1, <3>2, HalfInv
  <2>7. CASE /\ files' = fs /\ phase' = "threw" /\ m_listenFd' = << >>
             /\ path \in LongPaths /\ UNCHANGED <<m_flag, sockets, i>>
    BY <1>2, <1>3, <2>4, <2>7, ThrewInv
  <2> QED BY <2>5, <2>6, <2>7
<1>6. CASE path = Absent
  <2>1. addr \in Addr /\ addr.unix = Absent BY <1>6, Addresses
  <2>2. /\ UNCHANGED <<sockets, files>> /\ NoListen /\ phase' = "ip" /\ i' = i + 1
    BY <1>6 DEF initUnix
  <2> HIDE DEF addr
  <2>3. Bound(addr) /\ Fails BY <1>1, <1>4, <2>2, NothingBound DEF Fails
  <2>4. Half(addr) BY <1>2, <1>3, <1>6, <2>1, <2>2, <2>3 DEF Half
  <2> QED BY <2>1, <2>3, <2>4, HalfInv
<1> QED BY <1>5, <1>6

\* start() serves what there is, or returns when there is nothing.
LEMMA StartInv ==
    ASSUME IInv, start PROVE IInv'
<1>1. /\ UNCHANGED <<info, i, m_flag, m_listenFd, sockets, files>>
      /\ phase = "ip" /\ phase' = IF m_flag THEN "serving" ELSE "returned"
  BY DEF start
<1>2. TypeOK /\ m_flag \in BOOLEAN BY DEF IInv, ListenersExact, TypeOK
<1>3. TypeOK' BY <1>1, <1>2 DEF TypeOK, Fd
<1>4. m_flag = FALSE => m_listenFd = << >> BY <1>2 DEF IInv, Loop
<1>5. ListenersExact'
  BY <1>1, <1>2, <1>3, <1>4 DEF IInv, ListenersExact, Listening, IsListenFd, Fd
<1>6. Loop' BY <1>1, <1>2, <1>4 DEF Loop
<1>7. \E place : Placed(place)'
  <2>1. PICK place : Placed(place) BY DEF IInv
  <2>2. Placed(place)' BY <1>1, <2>1 DEF Placed, Places, AsksFor, AddrOf
  <2> QED BY <2>2
<1> QED BY <1>5, <1>6, <1>7 DEF IInv

\* The invariant holds in every state.
LEMMA Inductive == Spec => []IInv
<1>1. ASSUME IInv, [Next]_vars PROVE IInv'
  <2>1. CASE initIp BY <1>1, <2>1, InitIpInv
  <2>2. CASE initUnix BY <1>1, <2>2, InitUnixInv
  <2>3. CASE start BY <1>1, <2>3, StartInv
  <2>4. CASE UNCHANGED vars
    <3>1. ListenersExact'
      BY <1>1, <2>4 DEF vars, IInv, ListenersExact, TypeOK, Fd, Listening, IsListenFd
    <3>2. Loop' BY <1>1, <2>4 DEF vars, IInv, Loop
    <3>3. PICK place : Placed(place) BY <1>1 DEF IInv
    <3>4. Placed(place)' BY <2>4, <3>3 DEF vars, Placed, Places, AsksFor, AddrOf
    <3> QED BY <3>1, <3>2, <3>4 DEF IInv
  <2> QED BY <1>1, <2>1, <2>2, <2>3, <2>4 DEF Next
<1> QED BY InitInv, <1>1, PTL DEF Spec

----------------------------------------------------------------------------
\* init() keeps exactly the sockets that listen, each once and in the order they
\* were made, whatever system call fails, and start() returns only without any;
\* the constructor throws, and leaves listeners to nobody, only at a long path.
THEOREM ListenersTheorem == Spec => []ListenersExact
<1>1. IInv => ListenersExact BY DEF IInv
<1> QED BY Inductive, <1>1, PTL

\* Only a later entry for the same path takes a unix listener's file away.
THEOREM OrphanedTheorem == Spec => []OrphanedOnlyByDuplicate
<1>1. ASSUME IInv PROVE OrphanedOnlyByDuplicate
  <2> SUFFICES ASSUME NEW k \in 1..Len(m_listenFd), AddrOf(k).unix # Absent,
                      files[AddrOf(k).unix] # m_listenFd[k]
               PROVE  \E n, m \in {n \in 1..Len(info) : info[n].unix = AddrOf(k).unix} :
                          n < m /\ m <= i
    BY DEF OrphanedOnlyByDuplicate, AddrOf
  <2>1. PICK place : Placed(place) BY <1>1 DEF IInv
  <2>2. DOMAIN m_listenFd = 1..Len(m_listenFd) /\ DOMAIN info = 1..Len(info)
    BY <1>1, Types DEF IInv, ListenersExact
  <2>3. PICK m \in 1..Len(info) : place[k] < m /\ m <= i /\ info[m].unix = AddrOf(k).unix
    BY <2>1, <2>2 DEF Placed
  <2>4. place[k] \in 1..Len(info) BY <2>1, <2>2 DEF Placed
  <2>5. info[place[k]].unix = AddrOf(k).unix
    <3>1. AsksFor(info[place[k]], AddrOf(k)) BY <2>1, <2>2 DEF Placed, Places, AddrOf
    <3> QED BY <3>1 DEF AsksFor
  <2> QED BY <2>3, <2>4, <2>5
<1> QED BY Inductive, <1>1, PTL

\* The server listens on configured addresses only, in their order, none twice.
THEOREM BoundTheorem == Spec => []BoundAsConfigured
<1>1. IInv => BoundAsConfigured BY DEF IInv, Placed, BoundAsConfigured
<1> QED BY Inductive, <1>1, PTL
=============================================================================
