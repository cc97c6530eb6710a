-------------------------- MODULE TcpServerProofs --------------------------
(***************************************************************************)
(* Proofs about TcpServer, for any number of tasks, listeners, connections *)
(* and descriptors.                                                        *)
(*                                                                         *)
(* OneOwner, PoolExact, AcceptedHasTask and EchoInOrder are not inductive  *)
(* one by one.  What makes them so is libco's discipline (Sched: a task in *)
(* the middle of its code, or an acceptor between accept and erase, has    *)
(* the thread) and the table of which program point holds which descriptor *)
(* (FdShape).  IInv is their conjunction; one lemma per conjunct shows     *)
(* that every step preserves it, with one step of the proof per action.    *)
(***************************************************************************)
EXTENDS TcpServer, SequenceTheorems, TLAPS

-----------------------------------------------------------------------------
(* The inductive invariant.                                                *)

\* Active code has the thread (or the process died in it).
Sched ==
    /\ \A t \in Tasks : pc[t] \in {"loop", "read", "write", "close"} =>
                            running \in {t, Killed}
    /\ \A l \in Listeners : pc[l] = "dispatch" => running \in {l, Killed}

\* Which variable holds a descriptor at which program point.
FdShape ==
    /\ \A t \in Tasks :
         /\ pc[t] \in {"poll", "read", "write", "close"} =>
                lfd[t] # NoFd /\ taskFd[t] = NoFd
         /\ pc[t] \in {"none", "yield"} => lfd[t] = NoFd /\ taskFd[t] = NoFd
         /\ pc[t] = "loop" => lfd[t] = NoFd
    /\ \A l \in Listeners : pc[l] = "dispatch" <=> lfd[l] # NoFd

\* OneOwner with its parts spelled out: what is held is open, no two hold
\* the same, and what is open is held.
Owned ==
    /\ \A t \in Tasks : taskFd[t] # NoFd => fdTable[taskFd[t]] # NoConn
    /\ \A co \in Coroutines : lfd[co] # NoFd => fdTable[lfd[co]] # NoConn
    /\ \A t, u \in Tasks : taskFd[t] = taskFd[u] /\ t # u => taskFd[t] = NoFd
    /\ \A c, d \in Coroutines : lfd[c] = lfd[d] /\ c # d => lfd[c] = NoFd
    /\ \A t \in Tasks, co \in Coroutines : taskFd[t] = lfd[co] => taskFd[t] = NoFd
    /\ \A f \in Fds : fdTable[f] # NoConn =>
            (\E t \in Tasks : taskFd[t] = f) \/ (\E co \in Coroutines : lfd[co] = f)

\* No byte is read before it is sent.
ReadSent == \A c \in Conns : nread[c] <= sent[c]

\* Queued and accepted connections have connected.
Known ==
    /\ \A f \in Fds : fdTable[f] # NoConn => client[fdTable[f]] # "idle"
    /\ \A l \in Listeners : \A i \in 1..Len(backlog[l]) : client[backlog[l][i]] # "idle"

\* A task about to close has a client that is gone.
CloseGone ==
    \A t \in Tasks : pc[t] = "close" => client[fdTable[lfd[t]]] \in {"closed", "reset"}

\* A task about to write has in buf the last bytes read, none of them echoed.
BufNext ==
    \A t \in Tasks : pc[t] = "write" =>
        LET c == fdTable[lfd[t]] IN
        /\ \A i \in 1..Len(buf) : buf[i] = <<c, nread[c] - Len(buf) + i>>
        /\ \A i \in 1..Len(got[c]) : got[c][i][2] <= nread[c] - Len(buf)

IInv ==
    /\ TypeOK
    /\ Sched
    /\ FdShape
    /\ Owned
    /\ PoolExact
    /\ AcceptedHasTask
    /\ ReadSent
    /\ Known
    /\ CloseGone
    /\ BufNext
    /\ EchoInOrder

-----------------------------------------------------------------------------
(* Facts about the helpers.                                                *)

\* The task erase() returns is idle.
LEMMA TopIdle ==
    ASSUME TypeData, PoolExact, ~empty
    PROVE  top \in Tasks /\ pc[top] = "yield"
  BY DEF TypeData, PoolExact, empty, top

\* A task inside handle or about to close has an open connection.
LEMMA ServedConn ==
    ASSUME TypeCo, TypeFd, FdShape, Owned, NEW t \in Tasks, pc[t] \in {"read",
           "write", "close"}
    PROVE  lfd[t] \in Fds /\ fdTable[lfd[t]] \in Conns
  BY DEF TypeCo, TypeFd, FdShape, Owned, Coroutines

\* m_readWrite.pop() removes the last element and nothing else.
LEMMA PopFacts ==
    ASSUME TypeData, ~empty, pop
    PROVE  /\ m_readWrite' \in Seq(Tasks)
           /\ Len(m_readWrite) \in Nat \ {0}
           /\ Len(m_readWrite') = Len(m_readWrite) - 1
           /\ \A i \in 1..Len(m_readWrite') : m_readWrite'[i] = m_readWrite[i]
<1>1. m_readWrite \in Seq(Tasks) /\ Len(m_readWrite) \in Nat \ {0}
  BY DEF TypeData, empty
<1>2. \A i \in 1..(Len(m_readWrite) - 1) : m_readWrite[i] \in Tasks
  BY <1>1
<1> DEFINE n == Len(m_readWrite) - 1
<1>3. /\ n \in Nat
      /\ SubSeq(m_readWrite, 1, n) \in Seq(Tasks)
      /\ Len(SubSeq(m_readWrite, 1, n)) = n
      /\ \A i \in 1..n : SubSeq(m_readWrite, 1, n)[i] = m_readWrite[i]
  <2>1. n \in Nat /\ 1 \in Int /\ n \in Int
    BY <1>1
  <2> HIDE DEF n
  <2>2. /\ SubSeq(m_readWrite, 1, n) \in Seq(Tasks)
        /\ Len(SubSeq(m_readWrite, 1, n)) = IF 1 <= n THEN n - 1 + 1 ELSE 0
        /\ \A i \in 1..(n - 1 + 1) : SubSeq(m_readWrite, 1, n)[i] = m_readWrite[1 + i - 1]
    BY <1>2, <2>1, SubSeqProperties DEF n
  <2>3. QED
    BY <2>1, <2>2
<1>4. QED
  BY <1>1, <1>3 DEF pop

\* What read() delivers: at least one byte, the next ones, in order.
LEMMA NextBytesFacts ==
    ASSUME NEW c \in Conns, TypeData, ReadSent, Unread(c) > 0
    PROVE  /\ NextBytes(c, BufSize) \in Seq(Byte)
           /\ Len(NextBytes(c, BufSize)) \in 1..Unread(c)
           /\ \A i \in 1..Len(NextBytes(c, BufSize)) :
                 NextBytes(c, BufSize)[i] = <<c, nread[c] + i>>
<1> DEFINE n == IF Unread(c) < BufSize THEN Unread(c) ELSE BufSize
<1>1. n \in 1..Unread(c) /\ nread[c] \in Nat /\ sent[c] \in 0..MaxBytes
  BY BoundsAssumption DEF TypeData, ReadSent, Unread
<1>2. NextBytes(c, BufSize) = [i \in 1..n |-> <<c, nread[c] + i>>]
  BY DEF NextBytes
<1>3. \A i \in 1..n : <<c, nread[c] + i>> \in Byte
  BY <1>1, BoundsAssumption DEF Byte, Unread, TypeData
<1> HIDE DEF n
<1>4. QED
  BY <1>1, <1>2, <1>3 DEF Unread

\* Appending the next bytes of a connection keeps the echo in order.
LEMMA AppendIncreasing ==
    ASSUME NEW S, NEW g \in Seq(S), NEW w \in Seq(S), NEW c, NEW n \in Int,
           \A i \in 1..Len(w) : w[i] = <<c, n + i>>,
           \A i \in 1..Len(g) : g[i][1] = c /\ g[i][2] \in Int /\ g[i][2] <= n,
           \A i, j \in 1..Len(g) : i < j => g[i][2] < g[j][2]
    PROVE  /\ \A i \in 1..Len(g \o w) :
                 (g \o w)[i][1] = c /\ (g \o w)[i][2] <= n + Len(w)
           /\ \A i, j \in 1..Len(g \o w) : i < j => (g \o w)[i][2] < (g \o w)[j][2]
<1> DEFINE h == g \o w
<1>1. /\ Len(g) \in Nat /\ Len(w) \in Nat
      /\ Len(h) = Len(g) + Len(w)
      /\ \A i \in 1..Len(g) : h[i] = g[i]
      /\ \A i \in 1..Len(w) : h[Len(g) + i] = w[i]
  BY ConcatProperties
<1> HIDE DEF h
<1>2. \A i \in 1..Len(h) : i > Len(g) => h[i] = <<c, n + (i - Len(g))>>
  <2>1. SUFFICES ASSUME NEW i \in 1..Len(h), i > Len(g)
                 PROVE  h[i] = <<c, n + (i - Len(g))>>
    OBVIOUS
  <2>2. i - Len(g) \in 1..Len(w) /\ Len(g) + (i - Len(g)) = i
    BY <1>1, <2>1
  <2>3. QED
    BY <1>1, <2>2
<1>3. \A i \in 1..Len(h) : i > Len(g) => h[i][1] = c /\ h[i][2] = n + (i - Len(g))
  BY <1>2
<1>4. \A i \in 1..Len(h) : ~(i > Len(g)) => i \in 1..Len(g) /\ h[i] = g[i]
  BY <1>1
<1>5. \A i \in 1..Len(h) : h[i][1] = c /\ h[i][2] <= n + Len(w)
  BY <1>1, <1>3, <1>4
<1>6. ASSUME NEW i \in 1..Len(h), NEW j \in 1..Len(h), i < j
      PROVE  h[i][2] < h[j][2]
  <2>1. CASE j > Len(g) /\ i > Len(g)
    BY <1>1, <1>3, <1>6, <2>1
  <2>2. CASE j > Len(g) /\ ~(i > Len(g))
    BY <1>1, <1>3, <1>4, <2>2
  <2>3. CASE ~(j > Len(g))
    <3>1. i \in 1..Len(g) /\ j \in 1..Len(g)
      BY <1>1, <1>6, <2>3
    <3>2. h[i] = g[i] /\ h[j] = g[j]
      BY <1>1, <3>1
    <3>3. QED
      BY <1>6, <3>1, <3>2
  <2>4. QED
    BY <2>1, <2>2, <2>3
<1>7. QED
  BY <1>5, <1>6 DEF h

-----------------------------------------------------------------------------
(* Every step preserves each conjunct.                                     *)

\* Only a coroutine that has the thread moves, and it yields only at a poll
\* or co_yield_ct.
LEMMA SchedStep ==
    ASSUME TypeCo, TypeData, PoolExact, Sched, [Next]_vars
    PROVE  Sched'
<1> USE CoroutinesAssumption DEF TypeCo, Coroutines, Sched
<1>1. CASE start
  BY <1>1 DEF start, Goto
<1>2. ASSUME NEW t \in Tasks, startReadWrite(t) PROVE Sched'
  BY <1>2 DEF startReadWrite, Goto, Resume
<1>3. ASSUME NEW l \in Listeners, startAccept(l) PROVE Sched'
  BY <1>3 DEF startAccept, Goto, Resume
<1>4. ASSUME NEW t \in Tasks, TaskIdle(t) PROVE Sched'
  BY <1>4 DEF TaskIdle, Goto, Yield, push
<1>5. ASSUME NEW t \in Tasks, TaskTake(t) PROVE Sched'
  BY <1>5 DEF TaskTake, Goto, Yield
<1>6. ASSUME NEW t \in Tasks, TaskClose(t) PROVE Sched'
  BY <1>6 DEF TaskClose, Goto
<1>7. ASSUME NEW t \in Tasks, ReadData(t) PROVE Sched'
  BY <1>7 DEF ReadData, Goto, Unread
<1>8. ASSUME NEW t \in Tasks, ReadAgain(t) PROVE Sched'
  BY <1>8 DEF ReadAgain, HandleFailed, HandleKeep, HandleDrop, Goto, Yield
<1>9. ASSUME NEW t \in Tasks, ReadEof(t) PROVE Sched'
  BY <1>9 DEF ReadEof, HandleFailed, HandleKeep, HandleDrop, Goto, Yield
<1>10. ASSUME NEW t \in Tasks, ReadReset(t) PROVE Sched'
  BY <1>10 DEF ReadReset, HandleFailed, HandleKeep, HandleDrop, Goto, Yield
<1>11. ASSUME NEW t \in Tasks, WriteSome(t) PROVE Sched'
  BY <1>11 DEF WriteSome, HandleKeep, Goto, Yield
<1>12. ASSUME NEW t \in Tasks, WriteLost(t) PROVE Sched'
  BY <1>12 DEF WriteLost, HandleKeep, Goto, Yield
<1>13. ASSUME NEW t \in Tasks, WriteFailed(t) PROVE Sched'
  BY <1>13 DEF WriteFailed, HandleFailed, HandleKeep, HandleDrop, Goto, Yield
<1>14. ASSUME NEW t \in Tasks, WriteSigpipe(t) PROVE Sched'
  BY <1>14 DEF WriteSigpipe
<1>15. ASSUME NEW l \in Listeners, AcceptorSleep(l) PROVE Sched'
  BY <1>15 DEF AcceptorSleep, Goto, Yield, empty
<1>16. ASSUME NEW l \in Listeners, AcceptFail(l) PROVE Sched'
  BY <1>16 DEF AcceptFail, Goto, Yield, empty
<1>17. ASSUME NEW l \in Listeners, Accept(l) PROVE Sched'
  BY <1>17 DEF Accept, Goto, empty, FreeFds
<1>18. ASSUME NEW l \in Listeners, Dispatch(l) PROVE Sched'
  <2>1. CASE empty
    BY <1>18, <2>1 DEF Dispatch, Goto
  <2>2. CASE ~empty
    <3>1. top \in Tasks /\ pc[top] = "yield"
      BY <2>2, TopIdle
    <3> HIDE DEF top
    <3>2. pc' = [pc EXCEPT ![l] = "loop", ![top] = "loop"] /\ running' = top /\ running = l
      BY <1>18, <2>2 DEF Dispatch, Resume
    <3>3. QED
      BY <3>1, <3>2
  <2>3. QED
    BY <2>1, <2>2
<1>19. ASSUME NEW co \in Coroutines, Wake(co) PROVE Sched'
  BY <1>19 DEF Wake, Goto, Resume
<1>20. ASSUME NEW c \in Conns, NEW l \in Listeners, Connect(c, l) PROVE Sched'
  BY <1>20 DEF Connect
<1>21. ASSUME NEW c \in Conns, Send(c) PROVE Sched'
  BY <1>21 DEF Send
<1>22. ASSUME NEW c \in Conns, Leave(c) PROVE Sched'
  BY <1>22 DEF Leave
<1>23. CASE Dead
  BY <1>23 DEF Dead, vars
<1>24. CASE UNCHANGED vars
  BY <1>24 DEF vars
<1>25. QED
  BY <1>1, <1>2, <1>3, <1>4, <1>5, <1>6, <1>7, <1>8, <1>9, <1>10, <1>11, <1>12, <1>13,
     <1>14, <1>15, <1>16, <1>17, <1>18, <1>19, <1>20, <1>21, <1>22, <1>23, <1>24
  DEF Next, Run, MainStep, TaskStep, ListenerStep, Clients

\* Each program point keeps its descriptor where FdShape says.
LEMMA FdShapeStep ==
    ASSUME TypeCo, TypeFd, TypeData, PoolExact, FdShape, [Next]_vars
    PROVE  FdShape'
<1> USE CoroutinesAssumption DEF TypeCo, TypeFd, Coroutines, NoFd, TaskPc, ListenerPc, FdShape
<1>1. CASE start
  BY <1>1 DEF start, Goto
<1>2. ASSUME NEW t \in Tasks, startReadWrite(t) PROVE FdShape'
  BY <1>2 DEF startReadWrite, Goto, Resume
<1>3. ASSUME NEW l \in Listeners, startAccept(l) PROVE FdShape'
  BY <1>3 DEF startAccept, Goto, Resume
<1>4. ASSUME NEW t \in Tasks, TaskIdle(t) PROVE FdShape'
  BY <1>4 DEF TaskIdle, Goto, Yield, push
<1>5. ASSUME NEW t \in Tasks, TaskTake(t) PROVE FdShape'
  BY <1>5 DEF TaskTake, Goto, Yield
<1>6. ASSUME NEW t \in Tasks, TaskClose(t) PROVE FdShape'
  BY <1>6 DEF TaskClose, Goto
<1>7. ASSUME NEW t \in Tasks, ReadData(t) PROVE FdShape'
  BY <1>7 DEF ReadData, Goto, Unread
<1>8. ASSUME NEW t \in Tasks, ReadAgain(t) PROVE FdShape'
  BY <1>8 DEF ReadAgain, HandleFailed, HandleKeep, HandleDrop, Goto, Yield
<1>9. ASSUME NEW t \in Tasks, ReadEof(t) PROVE FdShape'
  BY <1>9 DEF ReadEof, HandleFailed, HandleKeep, HandleDrop, Goto, Yield
<1>10. ASSUME NEW t \in Tasks, ReadReset(t) PROVE FdShape'
  BY <1>10 DEF ReadReset, HandleFailed, HandleKeep, HandleDrop, Goto, Yield
<1>11. ASSUME NEW t \in Tasks, WriteSome(t) PROVE FdShape'
  BY <1>11 DEF WriteSome, HandleKeep, Goto, Yield
<1>12. ASSUME NEW t \in Tasks, WriteLost(t) PROVE FdShape'
  BY <1>12 DEF WriteLost, HandleKeep, Goto, Yield
<1>13. ASSUME NEW t \in Tasks, WriteFailed(t) PROVE FdShape'
  BY <1>13 DEF WriteFailed, HandleFailed, HandleKeep, HandleDrop, Goto, Yield
<1>14. ASSUME NEW t \in Tasks, WriteSigpipe(t) PROVE FdShape'
  BY <1>14 DEF WriteSigpipe
<1>15. ASSUME NEW l \in Listeners, AcceptorSleep(l) PROVE FdShape'
  BY <1>15 DEF AcceptorSleep, Goto, Yield, empty
<1>16. ASSUME NEW l \in Listeners, AcceptFail(l) PROVE FdShape'
  BY <1>16 DEF AcceptFail, Goto, Yield, empty
<1>17. ASSUME NEW l \in Listeners, Accept(l) PROVE FdShape'
  <2>1. PICK f \in FreeFds :
           /\ lfd' = [lfd EXCEPT ![l] = f]
           /\ fdTable' = [fdTable EXCEPT ![f] = Head(backlog[l])]
    BY <1>17 DEF Accept
  <2>2. /\ pc' = [pc EXCEPT ![l] = "dispatch"]
        /\ UNCHANGED taskFd
        /\ backlog[l] # << >>
        /\ pc[l] = "loop"
    BY <1>17 DEF Accept, Goto
  <2>3. Head(backlog[l]) \in Conns
    BY <2>2 DEF TypeData
  <2>4. f \in Fds /\ fdTable[f] = NoConn
    BY DEF FreeFds
  <2>5. QED
    BY <2>1, <2>2, <2>3, <2>4, ConnsAssumption, FdsAssumption
<1>18. ASSUME NEW l \in Listeners, Dispatch(l) PROVE FdShape'
  <2>1. CASE empty
    BY <1>18, <2>1, TypeFd DEF Dispatch, Goto
  <2>2. CASE ~empty
    <3>1. top \in Tasks /\ pc[top] = "yield"
      BY <2>2, TopIdle
    <3>2. /\ pc' = [pc EXCEPT ![l] = "loop", ![top] = "loop"]
          /\ taskFd' = [taskFd EXCEPT ![top] = lfd[l]]
          /\ lfd' = [lfd EXCEPT ![l] = NoFd]
          /\ UNCHANGED fdTable
          /\ pc[l] = "dispatch"
      BY <1>18, <2>2 DEF Dispatch
    <3> HIDE DEF top
    <3>3. QED
      BY <3>1, <3>2
  <2>3. QED
    BY <2>1, <2>2
<1>19. ASSUME NEW co \in Coroutines, Wake(co) PROVE FdShape'
  BY <1>19 DEF Wake, Goto, Resume
<1>20. ASSUME NEW c \in Conns, NEW l \in Listeners, Connect(c, l) PROVE FdShape'
  BY <1>20 DEF Connect
<1>21. ASSUME NEW c \in Conns, Send(c) PROVE FdShape'
  BY <1>21 DEF Send
<1>22. ASSUME NEW c \in Conns, Leave(c) PROVE FdShape'
  BY <1>22 DEF Leave
<1>23. CASE Dead
  BY <1>23 DEF Dead, vars
<1>24. CASE UNCHANGED vars
  BY <1>24 DEF vars
<1>25. QED
  BY <1>1, <1>2, <1>3, <1>4, <1>5, <1>6, <1>7, <1>8, <1>9, <1>10, <1>11, <1>12, <1>13,
     <1>14, <1>15, <1>16, <1>17, <1>18, <1>19, <1>20, <1>21, <1>22, <1>23, <1>24
  DEF Next, Run, MainStep, TaskStep, ListenerStep, Clients

\* accept creates one holder, erase and take pass it on, close ends it.
LEMMA OwnedStep ==
    ASSUME TypeCo, TypeFd, TypeData, PoolExact, FdShape, Owned, [Next]_vars
    PROVE  Owned'
<1> USE CoroutinesAssumption DEF TypeCo, TypeFd, Coroutines, NoFd, FdShape, Owned
<1>1. CASE start
  BY <1>1 DEF start, Goto
<1>2. ASSUME NEW t \in Tasks, startReadWrite(t) PROVE Owned'
  BY <1>2 DEF startReadWrite, Goto, Resume
<1>3. ASSUME NEW l \in Listeners, startAccept(l) PROVE Owned'
  BY <1>3 DEF startAccept, Goto, Resume
<1>4. ASSUME NEW t \in Tasks, TaskIdle(t) PROVE Owned'
  BY <1>4 DEF TaskIdle, Goto, Yield, push
<1>5. ASSUME NEW t \in Tasks, TaskTake(t) PROVE Owned'
  BY <1>5 DEF TaskTake, Goto, Yield
<1>6. ASSUME NEW t \in Tasks, TaskClose(t) PROVE Owned'
  BY <1>6 DEF TaskClose, Goto
<1>7. ASSUME NEW t \in Tasks, ReadData(t) PROVE Owned'
  BY <1>7 DEF ReadData, Goto, Unread
<1>8. ASSUME NEW t \in Tasks, ReadAgain(t) PROVE Owned'
  BY <1>8 DEF ReadAgain, HandleFailed, HandleKeep, HandleDrop, Goto, Yield
<1>9. ASSUME NEW t \in Tasks, ReadEof(t) PROVE Owned'
  BY <1>9 DEF ReadEof, HandleFailed, HandleKeep, HandleDrop, Goto, Yield
<1>10. ASSUME NEW t \in Tasks, ReadReset(t) PROVE Owned'
  BY <1>10 DEF ReadReset, HandleFailed, HandleKeep, HandleDrop, Goto, Yield
<1>11. ASSUME NEW t \in Tasks, WriteSome(t) PROVE Owned'
  BY <1>11 DEF WriteSome, HandleKeep, Goto, Yield
<1>12. ASSUME NEW t \in Tasks, WriteLost(t) PROVE Owned'
  BY <1>12 DEF WriteLost, HandleKeep, Goto, Yield
<1>13. ASSUME NEW t \in Tasks, WriteFailed(t) PROVE Owned'
  BY <1>13 DEF WriteFailed, HandleFailed, HandleKeep, HandleDrop, Goto, Yield
<1>14. ASSUME NEW t \in Tasks, WriteSigpipe(t) PROVE Owned'
  BY <1>14 DEF WriteSigpipe
<1>15. ASSUME NEW l \in Listeners, AcceptorSleep(l) PROVE Owned'
  BY <1>15 DEF AcceptorSleep, Goto, Yield, empty
<1>16. ASSUME NEW l \in Listeners, AcceptFail(l) PROVE Owned'
  BY <1>16 DEF AcceptFail, Goto, Yield, empty
<1>17. ASSUME NEW l \in Listeners, Accept(l) PROVE Owned'
  <2>1. PICK f \in FreeFds :
           /\ lfd' = [lfd EXCEPT ![l] = f]
           /\ fdTable' = [fdTable EXCEPT ![f] = Head(backlog[l])]
    BY <1>17 DEF Accept
  <2>2. /\ pc' = [pc EXCEPT ![l] = "dispatch"]
        /\ UNCHANGED taskFd
        /\ backlog[l] # << >>
        /\ pc[l] = "loop"
    BY <1>17 DEF Accept, Goto
  <2>3. Head(backlog[l]) \in Conns
    BY <2>2 DEF TypeData
  <2>4. f \in Fds /\ fdTable[f] = NoConn
    BY DEF FreeFds
  <2>5. QED
    BY <2>1, <2>2, <2>3, <2>4, ConnsAssumption, FdsAssumption
<1>18. ASSUME NEW l \in Listeners, Dispatch(l) PROVE Owned'
  <2>1. CASE empty
    BY <1>18, <2>1, TypeFd DEF Dispatch, Goto
  <2>2. CASE ~empty
    <3>1. top \in Tasks /\ pc[top] = "yield"
      BY <2>2, TopIdle
    <3>2. /\ pc' = [pc EXCEPT ![l] = "loop", ![top] = "loop"]
          /\ taskFd' = [taskFd EXCEPT ![top] = lfd[l]]
          /\ lfd' = [lfd EXCEPT ![l] = NoFd]
          /\ UNCHANGED fdTable
          /\ pc[l] = "dispatch"
      BY <1>18, <2>2 DEF Dispatch
    <3> HIDE DEF top
    <3>3. QED
      BY <3>1, <3>2
  <2>3. QED
    BY <2>1, <2>2
<1>19. ASSUME NEW co \in Coroutines, Wake(co) PROVE Owned'
  BY <1>19 DEF Wake, Goto, Resume
<1>20. ASSUME NEW c \in Conns, NEW l \in Listeners, Connect(c, l) PROVE Owned'
  BY <1>20 DEF Connect
<1>21. ASSUME NEW c \in Conns, Send(c) PROVE Owned'
  BY <1>21 DEF Send
<1>22. ASSUME NEW c \in Conns, Leave(c) PROVE Owned'
  BY <1>22 DEF Leave
<1>23. CASE Dead
  BY <1>23 DEF Dead, vars
<1>24. CASE UNCHANGED vars
  BY <1>24 DEF vars
<1>25. QED
  BY <1>1, <1>2, <1>3, <1>4, <1>5, <1>6, <1>7, <1>8, <1>9, <1>10, <1>11, <1>12, <1>13,
     <1>14, <1>15, <1>16, <1>17, <1>18, <1>19, <1>20, <1>21, <1>22, <1>23, <1>24
  DEF Next, Run, MainStep, TaskStep, ListenerStep, Clients

\* push adds a task that is not in the pool, erase removes the one it resumes.
LEMMA PoolStep ==
    ASSUME TypeCo, TypeData, PoolExact, [Next]_vars
    PROVE  PoolExact'
<1> USE CoroutinesAssumption DEF TypeCo, Coroutines, PoolExact
<1>1. CASE start
  BY <1>1 DEF start, Goto
<1>2. ASSUME NEW t \in Tasks, startReadWrite(t) PROVE PoolExact'
  BY <1>2 DEF startReadWrite, Goto, Resume
<1>3. ASSUME NEW l \in Listeners, startAccept(l) PROVE PoolExact'
  BY <1>3 DEF startAccept, Goto, Resume
<1>4. ASSUME NEW t \in Tasks, TaskIdle(t) PROVE PoolExact'
  <2>1. \A i \in 1..Len(m_readWrite) : m_readWrite[i] # t
    BY <1>4 DEF TaskIdle
  <2>2. /\ m_readWrite' = Append(m_readWrite, t)
        /\ pc' = [pc EXCEPT ![t] = "yield"]
    BY <1>4 DEF TaskIdle, push, Goto
  <2>3. /\ Len(m_readWrite') = Len(m_readWrite) + 1
        /\ m_readWrite'[Len(m_readWrite) + 1] = t
        /\ \A i \in 1..Len(m_readWrite) : m_readWrite'[i] = m_readWrite[i]
        /\ Len(m_readWrite) \in Nat
    BY <2>2, AppendProperties DEF TypeData
  <2>4. QED
    BY <2>1, <2>2, <2>3
<1>5. ASSUME NEW t \in Tasks, TaskTake(t) PROVE PoolExact'
  BY <1>5 DEF TaskTake, Goto, Yield
<1>6. ASSUME NEW t \in Tasks, TaskClose(t) PROVE PoolExact'
  BY <1>6 DEF TaskClose, Goto
<1>7. ASSUME NEW t \in Tasks, ReadData(t) PROVE PoolExact'
  BY <1>7 DEF ReadData, Goto, Unread
<1>8. ASSUME NEW t \in Tasks, ReadAgain(t) PROVE PoolExact'
  BY <1>8 DEF ReadAgain, HandleFailed, HandleKeep, HandleDrop, Goto, Yield
<1>9. ASSUME NEW t \in Tasks, ReadEof(t) PROVE PoolExact'
  BY <1>9 DEF ReadEof, HandleFailed, HandleKeep, HandleDrop, Goto, Yield
<1>10. ASSUME NEW t \in Tasks, ReadReset(t) PROVE PoolExact'
  BY <1>10 DEF ReadReset, HandleFailed, HandleKeep, HandleDrop, Goto, Yield
<1>11. ASSUME NEW t \in Tasks, WriteSome(t) PROVE PoolExact'
  BY <1>11 DEF WriteSome, HandleKeep, Goto, Yield
<1>12. ASSUME NEW t \in Tasks, WriteLost(t) PROVE PoolExact'
  BY <1>12 DEF WriteLost, HandleKeep, Goto, Yield
<1>13. ASSUME NEW t \in Tasks, WriteFailed(t) PROVE PoolExact'
  BY <1>13 DEF WriteFailed, HandleFailed, HandleKeep, HandleDrop, Goto, Yield
<1>14. ASSUME NEW t \in Tasks, WriteSigpipe(t) PROVE PoolExact'
  BY <1>14 DEF WriteSigpipe
<1>15. ASSUME NEW l \in Listeners, AcceptorSleep(l) PROVE PoolExact'
  BY <1>15 DEF AcceptorSleep, Goto, Yield, empty
<1>16. ASSUME NEW l \in Listeners, AcceptFail(l) PROVE PoolExact'
  BY <1>16 DEF AcceptFail, Goto, Yield, empty
<1>17. ASSUME NEW l \in Listeners, Accept(l) PROVE PoolExact'
  BY <1>17 DEF Accept, Goto, empty, FreeFds
<1>18. ASSUME NEW l \in Listeners, Dispatch(l) PROVE PoolExact'
  <2>1. CASE empty
    BY <1>18, <2>1 DEF Dispatch, Goto
  <2>2. CASE ~empty
    <3>1. top \in Tasks /\ pc[top] = "yield"
      BY <2>2, TopIdle
    <3>2. top = m_readWrite[Len(m_readWrite)]
      BY DEF top
    <3>3. /\ Len(m_readWrite) \in Nat \ {0}
          /\ Len(m_readWrite') = Len(m_readWrite) - 1
          /\ \A i \in 1..Len(m_readWrite') : m_readWrite'[i] = m_readWrite[i]
      BY <1>18, <2>2, PopFacts DEF Dispatch
    <3>4. pc' = [pc EXCEPT ![l] = "loop", ![top] = "loop"] /\ pc[l] = "dispatch"
      BY <1>18, <2>2 DEF Dispatch
    <3> HIDE DEF top
    <3>5. \A t \in Tasks : pc'[t] = "yield" <=> pc[t] = "yield" /\ t # top
      BY <3>1, <3>4
    <3>6. QED
      BY <3>2, <3>3, <3>5
  <2>3. QED
    BY <2>1, <2>2
<1>19. ASSUME NEW co \in Coroutines, Wake(co) PROVE PoolExact'
  BY <1>19 DEF Wake, Goto, Resume
<1>20. ASSUME NEW c \in Conns, NEW l \in Listeners, Connect(c, l) PROVE PoolExact'
  BY <1>20 DEF Connect
<1>21. ASSUME NEW c \in Conns, Send(c) PROVE PoolExact'
  BY <1>21 DEF Send
<1>22. ASSUME NEW c \in Conns, Leave(c) PROVE PoolExact'
  BY <1>22 DEF Leave
<1>23. CASE Dead
  BY <1>23 DEF Dead, vars
<1>24. CASE UNCHANGED vars
  BY <1>24 DEF vars
<1>25. QED
  BY <1>1, <1>2, <1>3, <1>4, <1>5, <1>6, <1>7, <1>8, <1>9, <1>10, <1>11, <1>12, <1>13,
     <1>14, <1>15, <1>16, <1>17, <1>18, <1>19, <1>20, <1>21, <1>22, <1>23, <1>24
  DEF Next, Run, MainStep, TaskStep, ListenerStep, Clients

\* No step takes the last idle task while an acceptor is in "dispatch".
LEMMA AcceptedStep ==
    ASSUME TypeCo, TypeData, PoolExact, Sched, AcceptedHasTask, [Next]_vars
    PROVE  AcceptedHasTask'
<1> USE CoroutinesAssumption DEF TypeCo, TypeData, Coroutines, Sched, empty, AcceptedHasTask
<1>1. CASE start
  BY <1>1 DEF start, Goto
<1>2. ASSUME NEW t \in Tasks, startReadWrite(t) PROVE AcceptedHasTask'
  BY <1>2 DEF startReadWrite, Goto, Resume
<1>3. ASSUME NEW l \in Listeners, startAccept(l) PROVE AcceptedHasTask'
  BY <1>3 DEF startAccept, Goto, Resume
<1>4. ASSUME NEW t \in Tasks, TaskIdle(t) PROVE AcceptedHasTask'
  BY <1>4 DEF TaskIdle, Goto, Yield, push
<1>5. ASSUME NEW t \in Tasks, TaskTake(t) PROVE AcceptedHasTask'
  BY <1>5 DEF TaskTake, Goto, Yield
<1>6. ASSUME NEW t \in Tasks, TaskClose(t) PROVE AcceptedHasTask'
  BY <1>6 DEF TaskClose, Goto
<1>7. ASSUME NEW t \in Tasks, ReadData(t) PROVE AcceptedHasTask'
  BY <1>7 DEF ReadData, Goto, Unread
<1>8. ASSUME NEW t \in Tasks, ReadAgain(t) PROVE AcceptedHasTask'
  BY <1>8 DEF ReadAgain, HandleFailed, HandleKeep, HandleDrop, Goto, Yield
<1>9. ASSUME NEW t \in Tasks, ReadEof(t) PROVE AcceptedHasTask'
  BY <1>9 DEF ReadEof, HandleFailed, HandleKeep, HandleDrop, Goto, Yield
<1>10. ASSUME NEW t \in Tasks, ReadReset(t) PROVE AcceptedHasTask'
  BY <1>10 DEF ReadReset, HandleFailed, HandleKeep, HandleDrop, Goto, Yield
<1>11. ASSUME NEW t \in Tasks, WriteSome(t) PROVE AcceptedHasTask'
  BY <1>11 DEF WriteSome, HandleKeep, Goto, Yield
<1>12. ASSUME NEW t \in Tasks, WriteLost(t) PROVE AcceptedHasTask'
  BY <1>12 DEF WriteLost, HandleKeep, Goto, Yield
<1>13. ASSUME NEW t \in Tasks, WriteFailed(t) PROVE AcceptedHasTask'
  BY <1>13 DEF WriteFailed, HandleFailed, HandleKeep, HandleDrop, Goto, Yield
<1>14. ASSUME NEW t \in Tasks, WriteSigpipe(t) PROVE AcceptedHasTask'
  BY <1>14 DEF WriteSigpipe
<1>15. ASSUME NEW l \in Listeners, AcceptorSleep(l) PROVE AcceptedHasTask'
  BY <1>15 DEF AcceptorSleep, Goto, Yield
<1>16. ASSUME NEW l \in Listeners, AcceptFail(l) PROVE AcceptedHasTask'
  BY <1>16 DEF AcceptFail, Goto, Yield
<1>17. ASSUME NEW l \in Listeners, Accept(l) PROVE AcceptedHasTask'
  BY <1>17 DEF Accept, Goto, FreeFds
<1>18. ASSUME NEW l \in Listeners, Dispatch(l) PROVE AcceptedHasTask'
  BY <1>18 DEF Dispatch, Goto, Resume, top, pop
<1>19. ASSUME NEW co \in Coroutines, Wake(co) PROVE AcceptedHasTask'
  BY <1>19 DEF Wake, Goto, Resume
<1>20. ASSUME NEW c \in Conns, NEW l \in Listeners, Connect(c, l) PROVE AcceptedHasTask'
  BY <1>20 DEF Connect
<1>21. ASSUME NEW c \in Conns, Send(c) PROVE AcceptedHasTask'
  BY <1>21 DEF Send
<1>22. ASSUME NEW c \in Conns, Leave(c) PROVE AcceptedHasTask'
  BY <1>22 DEF Leave
<1>23. CASE Dead
  BY <1>23 DEF Dead, vars
<1>24. CASE UNCHANGED vars
  BY <1>24 DEF vars
<1>25. QED
  BY <1>1, <1>2, <1>3, <1>4, <1>5, <1>6, <1>7, <1>8, <1>9, <1>10, <1>11, <1>12, <1>13,
     <1>14, <1>15, <1>16, <1>17, <1>18, <1>19, <1>20, <1>21, <1>22, <1>23, <1>24
  DEF Next, Run, MainStep, TaskStep, ListenerStep, Clients

\* Types of the program counters and of libco's state.
LEMMA TypeCoStep ==
    ASSUME TypeCo, TypeFd, TypeData, PoolExact, [Next]_vars
    PROVE  TypeCo'
<1> USE CoroutinesAssumption DEF TypeCo, Coroutines, TaskPc, ListenerPc, MainPc
<1>1. CASE start
  BY <1>1 DEF start, Goto
<1>2. ASSUME NEW t \in Tasks, startReadWrite(t) PROVE TypeCo'
  BY <1>2 DEF startReadWrite, Goto, Resume
<1>3. ASSUME NEW l \in Listeners, startAccept(l) PROVE TypeCo'
  BY <1>3 DEF startAccept, Goto, Resume
<1>4. ASSUME NEW t \in Tasks, TaskIdle(t) PROVE TypeCo'
  BY <1>4 DEF TaskIdle, Goto, Yield, push
<1>5. ASSUME NEW t \in Tasks, TaskTake(t) PROVE TypeCo'
  BY <1>5 DEF TaskTake, Goto, Yield
<1>6. ASSUME NEW t \in Tasks, TaskClose(t) PROVE TypeCo'
  BY <1>6 DEF TaskClose, Goto
<1>7. ASSUME NEW t \in Tasks, ReadData(t) PROVE TypeCo'
  BY <1>7 DEF ReadData, Goto, Unread
<1>8. ASSUME NEW t \in Tasks, ReadAgain(t) PROVE TypeCo'
  BY <1>8 DEF ReadAgain, HandleFailed, HandleKeep, HandleDrop, Goto, Yield
<1>9. ASSUME NEW t \in Tasks, ReadEof(t) PROVE TypeCo'
  BY <1>9 DEF ReadEof, HandleFailed, HandleKeep, HandleDrop, Goto, Yield
<1>10. ASSUME NEW t \in Tasks, ReadReset(t) PROVE TypeCo'
  BY <1>10 DEF ReadReset, HandleFailed, HandleKeep, HandleDrop, Goto, Yield
<1>11. ASSUME NEW t \in Tasks, WriteSome(t) PROVE TypeCo'
  BY <1>11 DEF WriteSome, HandleKeep, Goto, Yield
<1>12. ASSUME NEW t \in Tasks, WriteLost(t) PROVE TypeCo'
  BY <1>12 DEF WriteLost, HandleKeep, Goto, Yield
<1>13. ASSUME NEW t \in Tasks, WriteFailed(t) PROVE TypeCo'
  BY <1>13 DEF WriteFailed, HandleFailed, HandleKeep, HandleDrop, Goto, Yield
<1>14. ASSUME NEW t \in Tasks, WriteSigpipe(t) PROVE TypeCo'
  BY <1>14 DEF WriteSigpipe
<1>15. ASSUME NEW l \in Listeners, AcceptorSleep(l) PROVE TypeCo'
  BY <1>15 DEF AcceptorSleep, Goto, Yield, empty
<1>16. ASSUME NEW l \in Listeners, AcceptFail(l) PROVE TypeCo'
  BY <1>16 DEF AcceptFail, Goto, Yield, empty
<1>17. ASSUME NEW l \in Listeners, Accept(l) PROVE TypeCo'
  BY <1>17 DEF Accept, Goto, empty, FreeFds
<1>18. ASSUME NEW l \in Listeners, Dispatch(l) PROVE TypeCo'
  <2>1. CASE empty
    BY <1>18, <2>1 DEF Dispatch, Goto
  <2>2. CASE ~empty
    <3>1. top \in Tasks
      BY <2>2, TopIdle
    <3>2. /\ pc' = [pc EXCEPT ![l] = "loop", ![top] = "loop"]
          /\ running' = top
          /\ resumer' = [resumer EXCEPT ![top] = running]
      BY <1>18, <2>2 DEF Dispatch, Resume
    <3> HIDE DEF top
    <3>3. QED
      BY <3>1, <3>2
  <2>3. QED
    BY <2>1, <2>2
<1>19. ASSUME NEW co \in Coroutines, Wake(co) PROVE TypeCo'
  BY <1>19 DEF Wake, Goto, Resume
<1>20. ASSUME NEW c \in Conns, NEW l \in Listeners, Connect(c, l) PROVE TypeCo'
  BY <1>20 DEF Connect
<1>21. ASSUME NEW c \in Conns, Send(c) PROVE TypeCo'
  BY <1>21 DEF Send
<1>22. ASSUME NEW c \in Conns, Leave(c) PROVE TypeCo'
  BY <1>22 DEF Leave
<1>23. CASE Dead
  BY <1>23 DEF Dead, vars
<1>24. CASE UNCHANGED vars
  BY <1>24 DEF vars
<1>25. QED
  BY <1>1, <1>2, <1>3, <1>4, <1>5, <1>6, <1>7, <1>8, <1>9, <1>10, <1>11, <1>12, <1>13,
     <1>14, <1>15, <1>16, <1>17, <1>18, <1>19, <1>20, <1>21, <1>22, <1>23, <1>24
  DEF Next, Run, MainStep, TaskStep, ListenerStep, Clients

\* Types of the descriptors.
LEMMA TypeFdStep ==
    ASSUME TypeCo, TypeFd, TypeData, FdShape, Owned, PoolExact, [Next]_vars
    PROVE  TypeFd'
<1>1. CASE UNCHANGED <<taskFd, lfd, fdTable>>
  BY <1>1 DEF TypeFd
<1>2. ASSUME NEW t \in Tasks, startReadWrite(t) PROVE TypeFd'
  BY <1>2 DEF TypeFd, Coroutines, NoFd, startReadWrite, Goto, Resume
<1>3. ASSUME NEW t \in Tasks, TaskTake(t) PROVE TypeFd'
  BY <1>3 DEF TypeFd, Coroutines, NoFd, TaskTake, Goto, Yield
<1>4. ASSUME NEW t \in Tasks, TaskClose(t) PROVE TypeFd'
  BY <1>4 DEF TypeFd, Coroutines, NoFd, TaskClose, Goto
<1>5. ASSUME NEW l \in Listeners, Accept(l) PROVE TypeFd'
  <2>1. PICK f \in FreeFds :
           /\ lfd' = [lfd EXCEPT ![l] = f]
           /\ fdTable' = [fdTable EXCEPT ![f] = Head(backlog[l])]
    BY <1>5 DEF Accept
  <2>2. /\ pc' = [pc EXCEPT ![l] = "dispatch"]
        /\ UNCHANGED taskFd
        /\ backlog[l] # << >>
        /\ pc[l] = "loop"
    BY <1>5 DEF Accept, Goto
  <2>3. Head(backlog[l]) \in Conns
    BY <2>2 DEF TypeData
  <2>4. f \in Fds /\ fdTable[f] = NoConn
    BY DEF FreeFds
  <2>5. QED
    BY <2>1, <2>2, <2>3, <2>4, CoroutinesAssumption, ConnsAssumption, FdsAssumption
    DEF TypeFd, Coroutines, NoFd
<1>6. ASSUME NEW l \in Listeners, Dispatch(l) PROVE TypeFd'
  <2>1. CASE empty
    BY <1>6, <2>1, TypeFd, CoroutinesAssumption
    DEF TypeFd, Coroutines, NoFd, Dispatch, Goto
  <2>2. CASE ~empty
    <3>1. top \in Tasks /\ pc[top] = "yield"
      BY <2>2, TopIdle
    <3>2. /\ pc' = [pc EXCEPT ![l] = "loop", ![top] = "loop"]
          /\ taskFd' = [taskFd EXCEPT ![top] = lfd[l]]
          /\ lfd' = [lfd EXCEPT ![l] = NoFd]
          /\ UNCHANGED fdTable
          /\ pc[l] = "dispatch"
      BY <1>6, <2>2 DEF Dispatch
    <3> HIDE DEF top
    <3>3. QED
      BY <3>1, <3>2, CoroutinesAssumption DEF TypeFd, Coroutines, NoFd
  <2>3. QED
    BY <2>1, <2>2
<1>7. QED
  BY <1>1, <1>2, <1>3, <1>4, <1>5, <1>6
  DEF Next, Run, MainStep, TaskStep, ListenerStep, Clients, vars, start, startAccept,
     TaskIdle, ReadData, ReadAgain, ReadEof, ReadReset, WriteSome, WriteLost,
     WriteFailed, WriteSigpipe, AcceptorSleep, AcceptFail, Wake, Connect, Send, Leave,
     Dead

\* read() never runs ahead of the client.
LEMMA ReadSentStep ==
    ASSUME TypeCo, TypeFd, TypeData, FdShape, Owned, ReadSent, [Next]_vars
    PROVE  ReadSent'
<1>1. CASE UNCHANGED <<sent, nread>>
  BY <1>1 DEF ReadSent
<1>2. ASSUME NEW t \in Tasks, ReadData(t) PROVE ReadSent'
  <2> DEFINE c == fdTable[lfd[t]]
  <2>1. c \in Conns
    BY <1>2, ServedConn DEF ReadData
  <2>2. /\ buf' = NextBytes(c, BufSize)
        /\ nread' = [nread EXCEPT ![c] = @ + Len(NextBytes(c, BufSize))]
        /\ Unread(c) > 0
    BY <1>2 DEF ReadData
  <2>3. UNCHANGED <<m_readWrite, errno, backlog, client, sent, got>>
    BY <1>2 DEF ReadData
  <2> DEFINE b == NextBytes(c, BufSize)
  <2>4. b \in Seq(Byte) /\ Len(b) \in 1..Unread(c)
    BY <2>1, <2>2, NextBytesFacts
  <2>5. buf' = b /\ nread' = [nread EXCEPT ![c] = @ + Len(b)]
    BY <2>2
  <2> HIDE DEF c, b
  <2>6. QED
    BY <2>1, <2>3, <2>4, <2>5, BoundsAssumption DEF TypeData, ReadSent, Unread
<1>3. ASSUME NEW c \in Conns, Send(c) PROVE ReadSent'
  BY <1>3 DEF TypeData, ReadSent, Send
<1>4. QED
  BY <1>1, <1>2, <1>3
  DEF Next, Run, MainStep, TaskStep, ListenerStep, Clients, vars, start,
     startReadWrite, startAccept, TaskIdle, TaskTake, TaskClose, ReadAgain, ReadEof,
     ReadReset, WriteSome, WriteLost, WriteFailed, WriteSigpipe, AcceptorSleep,
     AcceptFail, Accept, Dispatch, Wake, Connect, Leave, Dead

\* Types of the pool, the queues and the bytes.
LEMMA TypeDataStep ==
    ASSUME TypeCo, TypeFd, TypeData, FdShape, Owned, PoolExact, ReadSent, [Next]_vars
    PROVE  TypeData'
<1> USE CoroutinesAssumption DEF TypeData
<1>1. CASE start
  BY <1>1 DEF start, Goto
<1>2. ASSUME NEW t \in Tasks, startReadWrite(t) PROVE TypeData'
  BY <1>2 DEF startReadWrite, Goto, Resume
<1>3. ASSUME NEW l \in Listeners, startAccept(l) PROVE TypeData'
  BY <1>3 DEF startAccept, Goto, Resume
<1>4. ASSUME NEW t \in Tasks, TaskIdle(t) PROVE TypeData'
  BY <1>4 DEF TaskIdle, Goto, Yield, push
<1>5. ASSUME NEW t \in Tasks, TaskTake(t) PROVE TypeData'
  BY <1>5 DEF TaskTake, Goto, Yield
<1>6. ASSUME NEW t \in Tasks, TaskClose(t) PROVE TypeData'
  BY <1>6 DEF TaskClose, Goto
<1>7. ASSUME NEW t \in Tasks, ReadData(t) PROVE TypeData'
  <2> DEFINE c == fdTable[lfd[t]]
  <2>1. c \in Conns
    BY <1>7, ServedConn DEF ReadData
  <2>2. /\ buf' = NextBytes(c, BufSize)
        /\ nread' = [nread EXCEPT ![c] = @ + Len(NextBytes(c, BufSize))]
        /\ Unread(c) > 0
    BY <1>7 DEF ReadData
  <2>3. UNCHANGED <<m_readWrite, errno, backlog, client, sent, got>>
    BY <1>7 DEF ReadData
  <2> DEFINE b == NextBytes(c, BufSize)
  <2>4. b \in Seq(Byte) /\ Len(b) \in 1..Unread(c)
    BY <2>1, <2>2, NextBytesFacts
  <2>5. buf' = b /\ nread' = [nread EXCEPT ![c] = @ + Len(b)]
    BY <2>2
  <2> HIDE DEF c, b
  <2>6. QED
    BY <2>1, <2>3, <2>4, <2>5, BoundsAssumption DEF ReadSent, Unread
<1>8. ASSUME NEW t \in Tasks, ReadAgain(t) PROVE TypeData'
  BY <1>8 DEF ReadAgain, HandleFailed, HandleKeep, HandleDrop, Goto, Yield
<1>9. ASSUME NEW t \in Tasks, ReadEof(t) PROVE TypeData'
  BY <1>9 DEF ReadEof, HandleFailed, HandleKeep, HandleDrop, Goto, Yield
<1>10. ASSUME NEW t \in Tasks, ReadReset(t) PROVE TypeData'
  BY <1>10 DEF ReadReset, HandleFailed, HandleKeep, HandleDrop, Goto, Yield
<1>11. ASSUME NEW t \in Tasks, WriteSome(t) PROVE TypeData'
  <2> DEFINE c == fdTable[lfd[t]]
  <2>1. c \in Conns
    BY <1>11, ServedConn DEF WriteSome
  <2>2. PICK k \in 1..Len(buf) : got' = [got EXCEPT ![c] = @ \o SubSeq(buf, 1, k)]
    BY <1>11 DEF WriteSome
  <2>3. SubSeq(buf, 1, k) \in Seq(Byte)
    BY SubSeqProperties
  <2>4. got[c] \o SubSeq(buf, 1, k) \in Seq(Byte)
    BY <2>1, <2>3, ConcatProperties
  <2>5. buf' = << >> /\ UNCHANGED <<m_readWrite, errno, backlog, client, sent, nread>>
    BY <1>11 DEF WriteSome
  <2> HIDE DEF c
  <2>6. QED
    BY <2>1, <2>2, <2>4, <2>5
<1>12. ASSUME NEW t \in Tasks, WriteLost(t) PROVE TypeData'
  BY <1>12 DEF WriteLost, HandleKeep, Goto, Yield
<1>13. ASSUME NEW t \in Tasks, WriteFailed(t) PROVE TypeData'
  BY <1>13 DEF WriteFailed, HandleFailed, HandleKeep, HandleDrop, Goto, Yield
<1>14. ASSUME NEW t \in Tasks, WriteSigpipe(t) PROVE TypeData'
  BY <1>14 DEF WriteSigpipe
<1>15. ASSUME NEW l \in Listeners, AcceptorSleep(l) PROVE TypeData'
  BY <1>15 DEF AcceptorSleep, Goto, Yield, empty
<1>16. ASSUME NEW l \in Listeners, AcceptFail(l) PROVE TypeData'
  BY <1>16 DEF AcceptFail, Goto, Yield, empty
<1>17. ASSUME NEW l \in Listeners, Accept(l) PROVE TypeData'
  BY <1>17 DEF Accept, Goto, empty, FreeFds
<1>18. ASSUME NEW l \in Listeners, Dispatch(l) PROVE TypeData'
  <2>1. CASE empty
    BY <1>18, <2>1 DEF Dispatch
  <2>2. CASE ~empty
    BY <1>18, <2>2, PopFacts DEF Dispatch
  <2>3. QED
    BY <2>1, <2>2
<1>19. ASSUME NEW co \in Coroutines, Wake(co) PROVE TypeData'
  BY <1>19 DEF Wake, Goto, Resume
<1>20. ASSUME NEW c \in Conns, NEW l \in Listeners, Connect(c, l) PROVE TypeData'
  BY <1>20 DEF Connect
<1>21. ASSUME NEW c \in Conns, Send(c) PROVE TypeData'
  BY <1>21, BoundsAssumption DEF Send
<1>22. ASSUME NEW c \in Conns, Leave(c) PROVE TypeData'
  BY <1>22 DEF Leave
<1>23. CASE Dead
  BY <1>23 DEF Dead, vars
<1>24. CASE UNCHANGED vars
  BY <1>24 DEF vars
<1>25. QED
  BY <1>1, <1>2, <1>3, <1>4, <1>5, <1>6, <1>7, <1>8, <1>9, <1>10, <1>11, <1>12, <1>13,
     <1>14, <1>15, <1>16, <1>17, <1>18, <1>19, <1>20, <1>21, <1>22, <1>23, <1>24
  DEF Next, Run, MainStep, TaskStep, ListenerStep, Clients

\* Connections are queued when they open and stay known.
LEMMA KnownStep ==
    ASSUME TypeCo, TypeFd, TypeData, FdShape, Owned, Known, [Next]_vars
    PROVE  Known'
<1>1. CASE UNCHANGED <<fdTable, backlog, client>>
  BY <1>1 DEF Known
<1>2. ASSUME NEW t \in Tasks, TaskClose(t) PROVE Known'
  BY <1>2 DEF TypeFd, TypeData, Known, TaskClose, Goto
<1>3. ASSUME NEW l \in Listeners, Accept(l) PROVE Known'
  <2>1. PICK f \in Fds : fdTable' = [fdTable EXCEPT ![f] = Head(backlog[l])]
    BY <1>3 DEF Accept, FreeFds
  <2>2. /\ backlog[l] # << >>
        /\ backlog' = [backlog EXCEPT ![l] = Tail(@)]
        /\ UNCHANGED client
    BY <1>3 DEF Accept
  <2>3. /\ Head(backlog[l]) = backlog[l][1]
        /\ 1 \in 1..Len(backlog[l])
        /\ \A i \in 1..Len(Tail(backlog[l])) :
               i + 1 \in 1..Len(backlog[l]) /\ Tail(backlog[l])[i] = backlog[l][i + 1]
    BY <2>2, HeadTailProperties DEF TypeData
  <2>4. QED
    BY <2>1, <2>2, <2>3 DEF TypeFd, TypeData, Known
<1>4. ASSUME NEW l \in Listeners, Dispatch(l) PROVE Known'
  BY <1>4 DEF TypeFd, TypeData, Known, Dispatch, Goto, Resume, empty, top, pop
<1>5. ASSUME NEW c \in Conns, NEW l \in Listeners, Connect(c, l) PROVE Known'
  <2>1. /\ client' = [client EXCEPT ![c] = "open"]
        /\ backlog' = [backlog EXCEPT ![l] = Append(@, c)]
        /\ UNCHANGED fdTable
    BY <1>5 DEF Connect
  <2>2. /\ Len(Append(backlog[l], c)) = Len(backlog[l]) + 1
        /\ Append(backlog[l], c)[Len(backlog[l]) + 1] = c
        /\ \A i \in 1..Len(backlog[l]) : Append(backlog[l], c)[i] = backlog[l][i]
        /\ Len(backlog[l]) \in Nat
    BY AppendProperties DEF TypeData
  <2>3. \A d \in Conns : client[d] # "idle" => client'[d] # "idle"
    BY <2>1 DEF TypeData
  <2>4. \A m \in Listeners : \A i \in 1..Len(backlog'[m]) :
            client'[backlog'[m][i]] # "idle"
    <3> TAKE m \in Listeners
    <3>1. CASE m # l
      <4>1. backlog'[m] = backlog[m] /\ \A i \in 1..Len(backlog[m]) : backlog[m][i] \in Conns
        BY <2>1, <3>1 DEF TypeData
      <4> QED BY <2>3, <4>1 DEF Known
    <3>2. CASE m = l
      <4>1. backlog'[m] = Append(backlog[l], c) /\ client'[c] = "open" BY <2>1, <3>2 DEF TypeData
      <4>2. \A i \in 1..Len(backlog[l]) : backlog[l][i] \in Conns BY DEF TypeData
      <4>3. ASSUME NEW i \in 1..Len(backlog'[m]) PROVE client'[backlog'[m][i]] # "idle"
        <5>1. i \in 1..Len(backlog[l]) \/ i = Len(backlog[l]) + 1 BY ONLY <2>2, <4>1, <4>3
        <5>2. CASE i \in 1..Len(backlog[l])
          <6>1. backlog'[m][i] = backlog[l][i] BY ONLY <2>2, <4>1, <5>2
          <6>2. client[backlog[l][i]] # "idle" BY <5>2 DEF Known
          <6> QED BY ONLY <2>3, <4>2, <5>2, <6>1, <6>2
        <5>3. CASE i = Len(backlog[l]) + 1
          <6>1. backlog'[m][i] = c BY ONLY <2>2, <4>1, <5>3
          <6> QED BY ONLY <4>1, <6>1
        <5> QED BY <5>1, <5>2, <5>3
      <4> QED BY ONLY <4>3
    <3> QED BY ONLY <3>1, <3>2
  <2>5. QED
    BY <2>1, <2>3, <2>4 DEF TypeFd, TypeData, Known
<1>6. ASSUME NEW c \in Conns, Leave(c) PROVE Known'
  <2>1. UNCHANGED <<fdTable, backlog>>
    BY <1>6 DEF Leave
  <2>2. \A d \in Conns : client[d] # "idle" => client'[d] # "idle"
    BY <1>6 DEF Leave, TypeData
  <2>3. \A l \in Listeners : \A i \in 1..Len(backlog[l]) : backlog[l][i] \in Conns
    BY DEF TypeData
  <2>4. \A l \in Listeners : \A i \in 1..Len(backlog[l]) : client'[backlog[l][i]] # "idle"
    BY <2>2, <2>3 DEF Known
  <2>5. \A f \in Fds : fdTable[f] # NoConn => client'[fdTable[f]] # "idle"
    BY <2>2 DEF TypeFd, Known
  <2>6. QED
    BY <2>1, <2>4, <2>5 DEF Known
<1>7. QED
  BY <1>1, <1>2, <1>3, <1>4, <1>5, <1>6
  DEF Next, Run, MainStep, TaskStep, ListenerStep, Clients, vars, start,
     startReadWrite, startAccept, TaskIdle, TaskTake, ReadData, ReadAgain, ReadEof,
     ReadReset, WriteSome, WriteLost, WriteFailed, WriteSigpipe, AcceptorSleep,
     AcceptFail, Wake, Send, Dead

\* handle returns -1 only for a client that is gone.
LEMMA CloseGoneStep ==
    ASSUME TypeCo, TypeFd, TypeData, PoolExact, FdShape, Owned, AcceptedHasTask,
           Known, CloseGone, [Next]_vars
    PROVE  CloseGone'
<1> USE CoroutinesAssumption DEF TypeCo, TypeFd, Coroutines, FdShape, Owned, CloseGone
<1>1. CASE start
  BY <1>1 DEF start, Goto
<1>2. ASSUME NEW t \in Tasks, startReadWrite(t) PROVE CloseGone'
  BY <1>2 DEF startReadWrite, Goto, Resume
<1>3. ASSUME NEW l \in Listeners, startAccept(l) PROVE CloseGone'
  BY <1>3 DEF startAccept, Goto, Resume
<1>4. ASSUME NEW t \in Tasks, TaskIdle(t) PROVE CloseGone'
  BY <1>4 DEF TaskIdle, Goto, Yield, push
<1>5. ASSUME NEW t \in Tasks, TaskTake(t) PROVE CloseGone'
  BY <1>5 DEF TaskTake, Goto, Yield
<1>6. ASSUME NEW t \in Tasks, TaskClose(t) PROVE CloseGone'
  BY <1>6 DEF TaskClose, Goto
<1>7. ASSUME NEW t \in Tasks, ReadData(t) PROVE CloseGone'
  BY <1>7 DEF ReadData, Goto, Unread
<1>8. ASSUME NEW t \in Tasks, ReadAgain(t) PROVE CloseGone'
  BY <1>8 DEF ReadAgain, HandleFailed, HandleKeep, HandleDrop, Goto, Yield
<1>9. ASSUME NEW t \in Tasks, ReadEof(t) PROVE CloseGone'
  BY <1>9 DEF ReadEof, HandleFailed, HandleKeep, HandleDrop, Goto, Yield
<1>10. ASSUME NEW t \in Tasks, ReadReset(t) PROVE CloseGone'
  BY <1>10 DEF ReadReset, HandleFailed, HandleKeep, HandleDrop, Goto, Yield
<1>11. ASSUME NEW t \in Tasks, WriteSome(t) PROVE CloseGone'
  BY <1>11 DEF WriteSome, HandleKeep, Goto, Yield
<1>12. ASSUME NEW t \in Tasks, WriteLost(t) PROVE CloseGone'
  BY <1>12 DEF WriteLost, HandleKeep, Goto, Yield
<1>13. ASSUME NEW t \in Tasks, WriteFailed(t) PROVE CloseGone'
  <2>1. client[fdTable[lfd[t]]] \in {"open", "closed", "reset"}
    BY <1>13, ServedConn, ConnsAssumption DEF WriteFailed, TypeData, Known
  <2>2. QED
    BY <1>13, <2>1, CoroutinesAssumption
    DEF TypeCo, Coroutines, CloseGone, WriteFailed, HandleFailed, HandleKeep,
       HandleDrop, Goto, Yield
<1>14. ASSUME NEW t \in Tasks, WriteSigpipe(t) PROVE CloseGone'
  BY <1>14 DEF WriteSigpipe
<1>15. ASSUME NEW l \in Listeners, AcceptorSleep(l) PROVE CloseGone'
  BY <1>15 DEF AcceptorSleep, Goto, Yield, empty
<1>16. ASSUME NEW l \in Listeners, AcceptFail(l) PROVE CloseGone'
  BY <1>16 DEF AcceptFail, Goto, Yield, empty
<1>17. ASSUME NEW l \in Listeners, Accept(l) PROVE CloseGone'
  <2>1. PICK f \in FreeFds :
           /\ lfd' = [lfd EXCEPT ![l] = f]
           /\ fdTable' = [fdTable EXCEPT ![f] = Head(backlog[l])]
    BY <1>17 DEF Accept
  <2>2. /\ pc' = [pc EXCEPT ![l] = "dispatch"]
        /\ UNCHANGED <<taskFd, client>>
        /\ backlog[l] # << >>
        /\ pc[l] = "loop"
    BY <1>17 DEF Accept, Goto
  <2>3. Head(backlog[l]) \in Conns
    BY <2>2 DEF TypeData
  <2>4. f \in Fds /\ fdTable[f] = NoConn
    BY DEF FreeFds
  <2>5. QED
    BY <2>1, <2>2, <2>3, <2>4, ConnsAssumption, FdsAssumption DEF NoFd
<1>18. ASSUME NEW l \in Listeners, Dispatch(l) PROVE CloseGone'
  <2>1. CASE empty
    BY <1>18, <2>1 DEF AcceptedHasTask, Dispatch
  <2>2. CASE ~empty
    <3>1. top \in Tasks /\ pc[top] = "yield"
      BY <2>2, TopIdle
    <3>2. /\ pc' = [pc EXCEPT ![l] = "loop", ![top] = "loop"]
          /\ taskFd' = [taskFd EXCEPT ![top] = lfd[l]]
          /\ lfd' = [lfd EXCEPT ![l] = NoFd]
          /\ UNCHANGED <<fdTable, client>>
          /\ pc[l] = "dispatch"
      BY <1>18, <2>2 DEF Dispatch
    <3> HIDE DEF top
    <3>3. QED
      BY <3>1, <3>2 DEF NoFd
  <2>3. QED
    BY <2>1, <2>2
<1>19. ASSUME NEW co \in Coroutines, Wake(co) PROVE CloseGone'
  BY <1>19 DEF Wake, Goto, Resume
<1>20. ASSUME NEW c \in Conns, NEW l \in Listeners, Connect(c, l) PROVE CloseGone'
  BY <1>20 DEF Connect
<1>21. ASSUME NEW c \in Conns, Send(c) PROVE CloseGone'
  BY <1>21 DEF Send
<1>22. ASSUME NEW c \in Conns, Leave(c) PROVE CloseGone'
  <2>1. UNCHANGED <<pc, lfd, fdTable>>
    BY <1>22 DEF Leave
  <2>2. \A t \in Tasks : pc[t] = "close" => fdTable[lfd[t]] \in Conns
    BY ServedConn
  <2>3. \A d \in Conns : client[d] \in {"closed", "reset"} => client'[d] \in {"closed", "reset"}
    BY <1>22 DEF Leave, TypeData
  <2>4. QED
    BY <2>1, <2>2, <2>3
<1>23. CASE Dead
  BY <1>23 DEF Dead, vars
<1>24. CASE UNCHANGED vars
  BY <1>24 DEF vars
<1>25. QED
  BY <1>1, <1>2, <1>3, <1>4, <1>5, <1>6, <1>7, <1>8, <1>9, <1>10, <1>11, <1>12, <1>13,
     <1>14, <1>15, <1>16, <1>17, <1>18, <1>19, <1>20, <1>21, <1>22, <1>23, <1>24
  DEF Next, Run, MainStep, TaskStep, ListenerStep, Clients

\* read() fills buf with bytes not echoed before.
LEMMA BufNextStep ==
    ASSUME TypeCo, TypeFd, TypeData, FdShape, Owned, Sched, ReadSent, EchoInOrder,
           BufNext, [Next]_vars
    PROVE  BufNext'
<1> USE CoroutinesAssumption DEF TypeCo, Coroutines, Sched, BufNext
<1>1. CASE start
  BY <1>1 DEF start, Goto
<1>2. ASSUME NEW t \in Tasks, startReadWrite(t) PROVE BufNext'
  BY <1>2 DEF startReadWrite, Goto, Resume
<1>3. ASSUME NEW l \in Listeners, startAccept(l) PROVE BufNext'
  BY <1>3 DEF startAccept, Goto, Resume
<1>4. ASSUME NEW t \in Tasks, TaskIdle(t) PROVE BufNext'
  BY <1>4 DEF TaskIdle, Goto, Yield, push
<1>5. ASSUME NEW t \in Tasks, TaskTake(t) PROVE BufNext'
  BY <1>5 DEF TaskTake, Goto, Yield
<1>6. ASSUME NEW t \in Tasks, TaskClose(t) PROVE BufNext'
  BY <1>6 DEF TaskClose, Goto
<1>7. ASSUME NEW t \in Tasks, ReadData(t) PROVE BufNext'
  <2> DEFINE c == fdTable[lfd[t]]
  <2>1. c \in Conns
    BY <1>7, ServedConn DEF ReadData
  <2> DEFINE b == NextBytes(c, BufSize)
  <2>2. /\ buf' = b
        /\ nread' = [nread EXCEPT ![c] = @ + Len(b)]
        /\ Unread(c) > 0
    BY <1>7 DEF ReadData
  <2>3. /\ Len(b) \in 1..Unread(c)
        /\ \A i \in 1..Len(b) : b[i] = <<c, nread[c] + i>>
    BY <2>1, <2>2, NextBytesFacts
  <2>4. nread'[c] - Len(buf') = nread[c]
    BY <2>1, <2>2, <2>3, BoundsAssumption DEF TypeData, Unread
  <2>5. \A u \in Tasks : pc'[u] = "write" => u = t
    BY <1>7 DEF ReadData, Goto
  <2>6. UNCHANGED <<lfd, fdTable, got>>
    BY <1>7 DEF ReadData
  <2>7. \A i \in 1..Len(got[c]) : got[c][i][2] <= nread[c]
    BY <2>1 DEF EchoInOrder
  <2> HIDE DEF b
  <2>8. QED
    BY <2>2, <2>3, <2>4, <2>5, <2>6, <2>7
<1>8. ASSUME NEW t \in Tasks, ReadAgain(t) PROVE BufNext'
  BY <1>8 DEF ReadAgain, HandleFailed, HandleKeep, HandleDrop, Goto, Yield
<1>9. ASSUME NEW t \in Tasks, ReadEof(t) PROVE BufNext'
  BY <1>9 DEF ReadEof, HandleFailed, HandleKeep, HandleDrop, Goto, Yield
<1>10. ASSUME NEW t \in Tasks, ReadReset(t) PROVE BufNext'
  BY <1>10 DEF ReadReset, HandleFailed, HandleKeep, HandleDrop, Goto, Yield
<1>11. ASSUME NEW t \in Tasks, WriteSome(t) PROVE BufNext'
  BY <1>11 DEF WriteSome, HandleKeep, Goto, Yield
<1>12. ASSUME NEW t \in Tasks, WriteLost(t) PROVE BufNext'
  BY <1>12 DEF WriteLost, HandleKeep, Goto, Yield
<1>13. ASSUME NEW t \in Tasks, WriteFailed(t) PROVE BufNext'
  BY <1>13 DEF WriteFailed, HandleFailed, HandleKeep, HandleDrop, Goto, Yield
<1>14. ASSUME NEW t \in Tasks, WriteSigpipe(t) PROVE BufNext'
  BY <1>14 DEF WriteSigpipe
<1>15. ASSUME NEW l \in Listeners, AcceptorSleep(l) PROVE BufNext'
  BY <1>15 DEF AcceptorSleep, Goto, Yield, empty
<1>16. ASSUME NEW l \in Listeners, AcceptFail(l) PROVE BufNext'
  BY <1>16 DEF AcceptFail, Goto, Yield, empty
<1>17. ASSUME NEW l \in Listeners, Accept(l) PROVE BufNext'
  BY <1>17 DEF Accept, Goto, empty, FreeFds
<1>18. ASSUME NEW l \in Listeners, Dispatch(l) PROVE BufNext'
  <2>1. \A t \in Tasks : pc'[t] # "write"
    <3>1. \A t \in Tasks : pc[t] # "write"
      BY <1>18 DEF Dispatch
    <3>2. CASE empty
      BY <1>18, <3>1, <3>2 DEF Dispatch, Goto
    <3>3. CASE ~empty
      BY <1>18, <3>1, <3>3 DEF Dispatch
    <3>4. QED
      BY <3>2, <3>3
  <2>2. QED
    BY <2>1
<1>19. ASSUME NEW co \in Coroutines, Wake(co) PROVE BufNext'
  BY <1>19 DEF Wake, Goto, Resume
<1>20. ASSUME NEW c \in Conns, NEW l \in Listeners, Connect(c, l) PROVE BufNext'
  BY <1>20 DEF Connect
<1>21. ASSUME NEW c \in Conns, Send(c) PROVE BufNext'
  BY <1>21 DEF Send
<1>22. ASSUME NEW c \in Conns, Leave(c) PROVE BufNext'
  BY <1>22 DEF Leave
<1>23. CASE Dead
  BY <1>23 DEF Dead, vars
<1>24. CASE UNCHANGED vars
  BY <1>24 DEF vars
<1>25. QED
  BY <1>1, <1>2, <1>3, <1>4, <1>5, <1>6, <1>7, <1>8, <1>9, <1>10, <1>11, <1>12, <1>13,
     <1>14, <1>15, <1>16, <1>17, <1>18, <1>19, <1>20, <1>21, <1>22, <1>23, <1>24
  DEF Next, Run, MainStep, TaskStep, ListenerStep, Clients

\* write() extends the echo by bytes later than all echoed before.
LEMMA EchoStep ==
    ASSUME TypeCo, TypeFd, TypeData, FdShape, Owned, ReadSent, BufNext, EchoInOrder,
           [Next]_vars
    PROVE  EchoInOrder'
<1>1. CASE UNCHANGED <<got, nread>>
  BY <1>1 DEF EchoInOrder
<1>2. ASSUME NEW t \in Tasks, ReadData(t) PROVE EchoInOrder'
  <2> DEFINE c == fdTable[lfd[t]]
  <2>1. c \in Conns
    BY <1>2, ServedConn DEF ReadData
  <2> DEFINE b == NextBytes(c, BufSize)
  <2>2. /\ nread' = [nread EXCEPT ![c] = @ + Len(b)]
        /\ Unread(c) > 0
        /\ UNCHANGED got
    BY <1>2 DEF ReadData
  <2>3. Len(b) \in Nat
    BY <2>1, <2>2, NextBytesFacts, BoundsAssumption DEF Unread, TypeData
  <2> HIDE DEF c, b
  <2>4. \A d \in Conns : nread[d] \in Nat /\ nread'[d] \in Nat /\ nread[d] <= nread'[d]
    BY <2>1, <2>2, <2>3 DEF TypeData
  <2>5. \A d \in Conns : \A i \in 1..Len(got[d]) : got[d][i][2] \in Nat
    BY DEF TypeData, Byte
  <2>6. QED
    BY <2>2, <2>4, <2>5 DEF EchoInOrder
<1>3. ASSUME NEW t \in Tasks, WriteSome(t) PROVE EchoInOrder'
  <2> DEFINE c == fdTable[lfd[t]]
             g == got[c]
             n == nread[c] - Len(buf)
  <2>1. c \in Conns
    BY <1>3, ServedConn DEF WriteSome
  <2>2. PICK k \in 1..Len(buf) : got' = [got EXCEPT ![c] = @ \o SubSeq(buf, 1, k)]
    BY <1>3 DEF WriteSome
  <2>3. /\ \A i \in 1..Len(buf) : buf[i] = <<c, n + i>>
        /\ \A i \in 1..Len(g) : g[i][2] <= n
    BY <1>3 DEF WriteSome, BufNext
  <2>4. UNCHANGED nread
    BY <1>3 DEF WriteSome
  <2> DEFINE w == SubSeq(buf, 1, k)
  <2>5. /\ w \in Seq(Byte)
        /\ Len(w) = k
        /\ \A i \in 1..k : w[i] = <<c, n + i>>
    <3>1. \A i \in 1..k : buf[i] \in Byte
      BY DEF TypeData
    <3>2. k \in Nat \ {0} /\ k <= Len(buf)
      BY DEF TypeData
    <3>3. /\ w \in Seq(Byte)
          /\ Len(w) = k
          /\ \A i \in 1..k : w[i] = buf[i]
      BY <3>1, <3>2, SubSeqProperties
    <3>4. \A i \in 1..k : i \in 1..Len(buf)
      BY <3>2 DEF TypeData
    <3>5. QED
      BY ONLY <2>3, <3>3, <3>4
  <2>6. /\ g \in Seq(Byte)
        /\ \A i \in 1..Len(g) : g[i] \in Byte
    BY <2>1 DEF TypeData
  <2>7. /\ \A i \in 1..Len(g) : g[i][1] = c /\ g[i][2] \in Int /\ g[i][2] <= n
        /\ \A i, j \in 1..Len(g) : i < j => g[i][2] < g[j][2]
        /\ \A i \in 1..Len(w) : w[i] = <<c, n + i>>
    <3>1. \A i \in 1..Len(g) : g[i][2] \in Int
      BY <2>6 DEF Byte
    <3>2. \A i \in 1..Len(g) : g[i][1] = c
      BY <2>1 DEF EchoInOrder
    <3>3. \A i, j \in 1..Len(g) : i < j => g[i][2] < g[j][2]
      BY <2>1 DEF EchoInOrder
    <3>4. QED
      BY <2>3, <2>5, <3>1, <3>2, <3>3
  <2>8. n \in Int /\ n + Len(buf) = nread[c] /\ Len(buf) \in Nat /\ n + k <= nread[c]
    BY <2>1 DEF TypeData
  <2>9. got'[c] = g \o w /\ \A d \in Conns : d # c => got'[d] = got[d]
    BY <2>1, <2>2 DEF TypeData
  <2> HIDE DEF w, g, n, c
  <2>10. /\ \A i \in 1..Len(g \o w) :
               (g \o w)[i][1] = c /\ (g \o w)[i][2] <= n + Len(w)
         /\ \A i, j \in 1..Len(g \o w) : i < j => (g \o w)[i][2] < (g \o w)[j][2]
    BY <2>5, <2>6, <2>7, <2>8, AppendIncreasing
  <2>11. g \o w \in Seq(Byte)
    BY <2>5, <2>6, ConcatProperties
  <2>12. \A i \in 1..Len(g \o w) : (g \o w)[i] \in Byte
    BY <2>11
  <2>13. \A i \in 1..Len(g \o w) : (g \o w)[i][2] <= nread[c]
    BY <2>5, <2>8, <2>10, <2>12 DEF Byte
  <2>14. QED
    BY <2>4, <2>9, <2>10, <2>13 DEF EchoInOrder
<1>4. QED
  BY <1>1, <1>2, <1>3
  DEF Next, Run, MainStep, TaskStep, ListenerStep, Clients, vars, start,
     startReadWrite, startAccept, TaskIdle, TaskTake, TaskClose, ReadAgain, ReadEof,
     ReadReset, WriteLost, WriteFailed, WriteSigpipe, AcceptorSleep, AcceptFail,
     Accept, Dispatch, Wake, Connect, Send, Leave, Dead

-----------------------------------------------------------------------------
(* The invariant holds.                                                    *)

\* The invariant holds when start() begins.
LEMMA InitIInv == Init => IInv
<1> SUFFICES ASSUME Init PROVE IInv
  OBVIOUS
<1>1. TypeOK
  BY CoroutinesAssumption, BoundsAssumption
  DEF Init, TypeOK, TypeCo, TypeFd, TypeData, Coroutines, TaskPc, ListenerPc, MainPc
<1>2. Sched /\ FdShape
  BY CoroutinesAssumption DEF Init, Sched, FdShape, Coroutines, NoFd
<1>3. Owned
  BY CoroutinesAssumption DEF Init, Owned, Coroutines, NoFd
<1>4. PoolExact /\ AcceptedHasTask
  BY CoroutinesAssumption DEF Init, PoolExact, AcceptedHasTask, Coroutines
<1>5. ReadSent /\ Known /\ EchoInOrder
  BY DEF Init, ReadSent, Known, EchoInOrder
<1>6. CloseGone /\ BufNext
  BY CoroutinesAssumption DEF Init, CloseGone, BufNext, Coroutines
<1>7. QED
  BY <1>1, <1>2, <1>3, <1>4, <1>5, <1>6 DEF IInv

\* Every step preserves the invariant.
LEMMA NextIInv == IInv /\ [Next]_vars => IInv'
<1> SUFFICES ASSUME IInv, [Next]_vars PROVE IInv'
  OBVIOUS
<1> USE DEF IInv, TypeOK
<1>1. TypeOK'
  BY TypeCoStep, TypeFdStep, TypeDataStep
<1>2. Sched' /\ FdShape' /\ Owned'
  BY SchedStep, FdShapeStep, OwnedStep
<1>3. PoolExact' /\ AcceptedHasTask'
  BY PoolStep, AcceptedStep
<1>4. ReadSent' /\ Known' /\ CloseGone'
  BY ReadSentStep, KnownStep, CloseGoneStep
<1>5. BufNext' /\ EchoInOrder'
  BY BufNextStep, EchoStep
<1>6. QED
  BY <1>1, <1>2, <1>3, <1>4, <1>5

\* The invariant holds throughout the server's life.
THEOREM Invariance == Spec => []IInv
<1>1. IInv /\ UNCHANGED vars => IInv'
  BY NextIInv
<1>2. QED
  BY InitIInv, NextIInv, PTL DEF Spec

\* Every variable keeps its type: in particular the pool holds only tasks and
\* the descriptor of every task and acceptor is -1 or one accept returned.
THEOREM TypeCorrect == Spec => []TypeOK
<1>1. IInv => TypeOK
  BY DEF IInv
<1>2. QED
  BY <1>1, Invariance, PTL

\* Every open descriptor has exactly one holder among the tasks and acceptors
\* and a closed one has none (accept_routine, readwrite_routine).
THEOREM Ownership == Spec => []OneOwner
<1>1. IInv => OneOwner
  <2> SUFFICES ASSUME IInv, NEW f \in Fds
               PROVE  LET holders == HeldByTask(f) \cup HeldByCo(f) IN
                      /\ HeldByTask(f) \cap HeldByCo(f) = {}
                      /\ fdTable[f] = NoConn => holders = {}
                      /\ fdTable[f] # NoConn => \E co \in Coroutines : holders = {co}
    BY DEF OneOwner
  <2>1. Owned /\ TypeFd /\ f # NoFd
    BY FdsAssumption DEF IInv, TypeOK, NoFd
  <2>2. HeldByTask(f) \cap HeldByCo(f) = {}
    BY <2>1 DEF Owned, HeldByTask, HeldByCo, Coroutines
  <2>3. fdTable[f] = NoConn => HeldByTask(f) \cup HeldByCo(f) = {}
    BY <2>1 DEF Owned, HeldByTask, HeldByCo
  <2>4. ASSUME fdTable[f] # NoConn
        PROVE  \E co \in Coroutines : HeldByTask(f) \cup HeldByCo(f) = {co}
    <3>1. PICK co \in Coroutines : co \in HeldByTask(f) \cup HeldByCo(f)
      BY <2>1, <2>4 DEF Owned, HeldByTask, HeldByCo, Coroutines
    <3>2. \A d \in HeldByTask(f) \cup HeldByCo(f) : d = co
      BY <2>1, <3>1 DEF Owned, HeldByTask, HeldByCo, Coroutines
    <3>3. QED
      BY <3>1, <3>2
  <2>5. QED
    BY <2>2, <2>3, <2>4
<1>2. QED
  BY <1>1, Invariance, PTL

\* The pool m_readWrite holds exactly the waiting tasks, each once.
THEOREM PoolCorrect == Spec => []PoolExact
<1>1. IInv => PoolExact
  BY DEF IInv
<1>2. QED
  BY <1>1, Invariance, PTL

\* accept_routine never closes an accepted connection for want of a task.
THEOREM NoAcceptedDropped == Spec => []AcceptedHasTask
<1>1. IInv => AcceptedHasTask
  BY DEF IInv
<1>2. QED
  BY <1>1, Invariance, PTL

\* handle echoes to each client its own bytes only, in order, each at most once.
THEOREM EchoCorrect == Spec => []EchoInOrder
<1>1. IInv => EchoInOrder
  BY DEF IInv
<1>2. QED
  BY <1>1, Invariance, PTL

\* The server closes only connections whose client is gone.
THEOREM LiveNeverClosed == Spec => OnlyGoneClosed
<1> DEFINE A == \A c \in Conns : Bound(c) /\ ~(Bound(c))' => client[c] # "open"
<1>1. ASSUME IInv, [Next]_vars PROVE A
  <2>1. CASE UNCHANGED fdTable
    BY <2>1 DEF Bound
  <2>2. ASSUME NEW t \in Tasks, TaskClose(t) PROVE A
    <3>1. /\ lfd[t] \in Fds
          /\ \A f \in Fds : f # lfd[t] => fdTable'[f] = fdTable[f]
      BY <2>2, ServedConn, <1>1 DEF TaskClose, IInv, TypeOK, TypeFd
    <3>2. client[fdTable[lfd[t]]] # "open"
      BY <2>2, <1>1 DEF TaskClose, IInv, CloseGone
    <3>3. QED
      BY <3>1, <3>2 DEF Bound
  <2>3. ASSUME NEW l \in Listeners, Accept(l) PROVE A
    <3>1. PICK g \in FreeFds : fdTable' = [fdTable EXCEPT ![g] = Head(backlog[l])]
      BY <2>3 DEF Accept
    <3>2. g \in Fds /\ fdTable[g] = NoConn
      BY DEF FreeFds
    <3>3. \A f \in Fds : fdTable[f] # NoConn => fdTable'[f] = fdTable[f]
      BY <3>1, <3>2, <1>1 DEF IInv, TypeOK, TypeFd
    <3>4. QED
      BY <3>3, ConnsAssumption DEF Bound
  <2>4. ASSUME NEW l \in Listeners, Dispatch(l) PROVE UNCHANGED fdTable
    BY <2>4, <1>1 DEF Dispatch, IInv, AcceptedHasTask
  <2>5. QED
    BY <1>1, <2>1, <2>2, <2>3, <2>4
    DEF Next, Run, MainStep, TaskStep, ListenerStep, Clients, vars, Wake, start,
        startReadWrite, startAccept, TaskIdle, TaskTake, ReadData, ReadAgain, ReadEof,
        ReadReset, WriteSome, WriteLost, WriteFailed, WriteSigpipe, AcceptorSleep,
        AcceptFail, Connect, Send, Leave, Dead
<1>2. IInv /\ [Next]_vars => [A]_vars
  BY <1>1
<1>3. QED
  BY <1>2, Invariance, PTL DEF Spec, OnlyGoneClosed

=============================================================================
