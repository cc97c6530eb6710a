----------------------------- MODULE TcpServer -----------------------------
(***************************************************************************)
(* The serving part of tadpole::TcpServer (src/src/tcpServer.cc): the pool *)
(* of read/write coroutines, one accept coroutine per listening socket,    *)
(* libco's scheduler as these coroutines use it, and the part of the       *)
(* kernel they call.                                                       *)
(*                                                                         *)
(* Everything runs in one thread.  A coroutine runs until it yields        *)
(* (co_yield_ct, co_poll, the hooked poll); co_resume runs another         *)
(* coroutine on top of the caller, and a yield gives control back to the   *)
(* coroutine that resumed it.  Clients and the kernel move between any two *)
(* system calls.  errno belongs to the thread, hence to all coroutines.    *)
(***************************************************************************)
EXTENDS Integers, Sequences, FiniteSets

CONSTANTS
    Tasks,      \* the read/write tasks, m_ant of them
    Listeners,  \* the accept coroutines, one per element of m_listenFd
    Conns,      \* client connections; each is used once
    Fds,        \* descriptor numbers the process may use for connections
    Main,       \* the code of start(), then co_eventloop
    Killed,     \* value of running when a signal has ended the process
    NoConn,     \* value of an unused entry of the descriptor table
    MaxBytes,   \* bound: bytes a client sends on one connection
    BufSize,    \* sizeof(buf) in handle
    Backlog     \* queue length given to listen

ASSUME CoroutinesAssumption ==
    /\ Tasks \cap Listeners = {}
    /\ Main \notin Tasks \cup Listeners
    /\ Killed \notin Tasks \cup Listeners \cup {Main}
ASSUME ConnsAssumption == NoConn \notin Conns
ASSUME FdsAssumption == Fds \subseteq Nat
ASSUME BoundsAssumption ==
    /\ MaxBytes \in Nat
    /\ BufSize \in Nat \ {0}
    /\ Backlog \in Nat

VARIABLES
    m_readWrite, \* stack of idle tasks, top at the end
    taskFd,      \* task_t::fd of every task
    lfd,         \* local variable fd of every coroutine
    pc,          \* where each coroutine is
    running,     \* the coroutine that has the thread
    resumer,     \* libco's call stack: who resumed each active coroutine
    buf,         \* handle's buffer, meaningful between read and write
    errno,       \* the thread's errno
    fdTable,     \* connection behind each descriptor
    backlog,     \* kernel queue of each listening socket
    client,      \* state of the client's end of each connection
    sent,        \* number of bytes the client has sent
    nread,       \* number of those the server has read
    got          \* the bytes the client has received back

coVars == <<pc, running, resumer>>
serverVars == <<m_readWrite, taskFd, lfd>>
dataVars == <<sent, nread, got>>
vars == <<m_readWrite, taskFd, lfd, pc, running, resumer, buf, errno,
          fdTable, backlog, client, sent, nread, got>>

NoFd == -1
Coroutines == Tasks \cup Listeners
Byte == Conns \X (1..MaxBytes)
FreeFds == {f \in Fds : fdTable[f] = NoConn}

TaskPc == {"none", "loop", "yield", "poll", "read", "write", "close"}
ListenerPc == {"none", "loop", "dispatch", "sleep", "poll"}
MainPc == {"startReadWrite", "startAccept", "eventloop"}

(***************************************************************************)
(* The state right after init() has bound the listening sockets and        *)
(* start() has found m_flag true.  Clients may already connect.            *)
(***************************************************************************)
Init ==
    /\ m_readWrite = << >>
    /\ taskFd = [t \in Tasks |-> NoFd]
    /\ lfd = [co \in Coroutines |-> NoFd]
    /\ pc = [co \in Coroutines \cup {Main} |->
                IF co = Main THEN "startReadWrite" ELSE "none"]
    /\ running = Main
    /\ resumer = [co \in Coroutines |-> Killed]
    /\ buf = << >>
    /\ errno = "none"
    /\ fdTable = [f \in Fds |-> NoConn]
    /\ backlog = [l \in Listeners |-> << >>]
    /\ client = [c \in Conns |-> "idle"]
    /\ sent = [c \in Conns |-> 0]
    /\ nread = [c \in Conns |-> 0]
    /\ got = [c \in Conns |-> << >>]

-----------------------------------------------------------------------------
(* libco: switching coroutines.                                            *)

\* co_resume(co) by the running coroutine; callers say where co continues.
Resume(co) ==
    /\ running' = co
    /\ resumer' = [resumer EXCEPT ![co] = running]

\* co_yield_ct, co_poll, poll: back to the coroutine that resumed co.
Yield(co) ==
    /\ running' = resumer[co]
    /\ resumer' = [resumer EXCEPT ![co] = Killed]

Goto(co, label) == pc' = [pc EXCEPT ![co] = label]

\* One resumption by co_eventloop: the descriptor polled is ready, or the
\* timeout of one second given to every poll has passed.
Wake(co) ==
    /\ running = Main
    /\ pc[Main] = "eventloop"
    /\ \/ co \in Tasks /\ pc[co] = "poll" /\ Goto(co, "read")
       \/ co \in Listeners /\ pc[co] \in {"poll", "sleep"} /\ Goto(co, "loop")
    /\ Resume(co)
    /\ UNCHANGED <<m_readWrite, taskFd, lfd, buf, errno, fdTable, backlog,
                   client, sent, nread, got>>

-----------------------------------------------------------------------------
(* start()                                                                 *)

\* Faulty variant: the task keeps the 0 that calloc put into its fd.
startReadWriteNoFdInit(t) ==
    /\ running = Main
    /\ pc[Main] = "startReadWrite"
    /\ pc[t] = "none"
    /\ taskFd' = [taskFd EXCEPT ![t] = 0]
    /\ Goto(t, "loop")
    /\ Resume(t)
    /\ UNCHANGED <<m_readWrite, lfd, buf, errno, fdTable, backlog, client,
                   sent, nread, got>>

\* One iteration of startReadWrite: the new task runs up to its first yield.
startReadWrite(t) ==
    /\ running = Main
    /\ pc[Main] = "startReadWrite"
    /\ pc[t] = "none"
    /\ taskFd' = [taskFd EXCEPT ![t] = NoFd]
    /\ Goto(t, "loop")
    /\ Resume(t)
    /\ UNCHANGED <<m_readWrite, lfd, buf, errno, fdTable, backlog, client,
                   sent, nread, got>>

\* startAccept(fd) for one listening socket.
startAccept(l) ==
    /\ running = Main
    /\ pc[Main] = "startAccept"
    /\ pc[l] = "none"
    /\ Goto(l, "loop")
    /\ Resume(l)
    /\ UNCHANGED <<m_readWrite, taskFd, lfd, buf, errno, fdTable, backlog,
                   client, sent, nread, got>>

\* The two loops of start() end, and the last one enters co_eventloop.
start ==
    /\ running = Main
    /\ \/ /\ pc[Main] = "startReadWrite"
          /\ \A t \in Tasks : pc[t] # "none"
          /\ Goto(Main, "startAccept")
       \/ /\ pc[Main] = "startAccept"
          /\ \A l \in Listeners : pc[l] # "none"
          /\ Goto(Main, "eventloop")
    /\ UNCHANGED <<m_readWrite, taskFd, lfd, running, resumer, buf, errno,
                   fdTable, backlog, client, sent, nread, got>>

-----------------------------------------------------------------------------
(* The pool: push, empty, erase.                                           *)

push(t) == m_readWrite' = Append(m_readWrite, t)
empty == m_readWrite = << >>
top == m_readWrite[Len(m_readWrite)]
pop == m_readWrite' = SubSeq(m_readWrite, 1, Len(m_readWrite) - 1)

-----------------------------------------------------------------------------
(* readwrite_routine and handle                                            *)

\* Faulty variant: the task waits without going back to the pool.
TaskIdleNoPush(t) ==
    /\ running = t
    /\ pc[t] = "loop"
    /\ taskFd[t] = NoFd
    /\ Goto(t, "yield")
    /\ Yield(t)
    /\ UNCHANGED <<m_readWrite, taskFd, lfd, buf, errno, fdTable, backlog,
                   client, sent, nread, got>>

\* Without a descriptor: into the pool, and wait to be resumed.
TaskIdle(t) ==
    /\ running = t
    /\ pc[t] = "loop"
    /\ taskFd[t] = NoFd
    /\ push(t)
    /\ Goto(t, "yield")
    /\ Yield(t)
    /\ UNCHANGED <<taskFd, lfd, buf, errno, fdTable, backlog, client, sent,
                   nread, got>>

\* Faulty variant: task_t::fd is not reset to -1.
TaskTakeKeepsFd(t) ==
    /\ running = t
    /\ pc[t] = "loop"
    /\ taskFd[t] # NoFd
    /\ lfd' = [lfd EXCEPT ![t] = taskFd[t]]
    /\ Goto(t, "poll")
    /\ Yield(t)
    /\ UNCHANGED <<m_readWrite, taskFd, buf, errno, fdTable, backlog, client,
                   sent, nread, got>>

\* With a descriptor: move it to the local variable and poll it.
TaskTake(t) ==
    /\ running = t
    /\ pc[t] = "loop"
    /\ taskFd[t] # NoFd
    /\ lfd' = [lfd EXCEPT ![t] = taskFd[t]]
    /\ taskFd' = [taskFd EXCEPT ![t] = NoFd]
    /\ Goto(t, "poll")
    /\ Yield(t)
    /\ UNCHANGED <<m_readWrite, buf, errno, fdTable, backlog, client, sent,
                   nread, got>>

\* Faulty variant: wait with co_yield_ct, which no event ends.
HandleKeepNoPoll(t) == Goto(t, "yield") /\ Yield(t)

\* handle returns 0: the loop polls the descriptor again.
HandleKeep(t) == Goto(t, "poll") /\ Yield(t)

\* handle returns -1: the loop closes the descriptor.
HandleDrop(t) == Goto(t, "close") /\ UNCHANGED <<running, resumer>>

\* Faulty variants: every failure ends the connection; none does.
HandleFailedDrops(t) == HandleDrop(t)
HandleFailedKeeps(t) == HandleKeep(t)

\* The test of errno after a system call that returned 0 or -1.
HandleFailed(t) == IF errno' = "EAGAIN" THEN HandleKeep(t) ELSE HandleDrop(t)

Unread(c) == sent[c] - nread[c]

\* What read takes from connection c: its next bytes, at most n.
NextBytes(c, n) == [i \in 1..(IF Unread(c) < n THEN Unread(c) ELSE n) |->
                        <<c, nread[c] + i>>]

\* read() finds data, also data left by a client that has since closed.
ReadData(t) ==
    /\ running = t
    /\ pc[t] = "read"
    /\ LET c == fdTable[lfd[t]] IN
         /\ client[c] \in {"open", "closed"}
         /\ Unread(c) > 0
         /\ buf' = NextBytes(c, BufSize)
         /\ nread' = [nread EXCEPT ![c] = @ + Len(buf')]
    /\ Goto(t, "write")
    /\ UNCHANGED <<m_readWrite, taskFd, lfd, running, resumer, errno,
                   fdTable, backlog, client, sent, got>>

\* read() finds nothing on an open connection and fails with EAGAIN.
ReadAgain(t) ==
    /\ running = t
    /\ pc[t] = "read"
    /\ LET c == fdTable[lfd[t]] IN client[c] = "open" /\ Unread(c) = 0
    /\ errno' = "EAGAIN"
    /\ HandleFailed(t)
    /\ UNCHANGED <<m_readWrite, taskFd, lfd, buf, fdTable, backlog, client,
                   sent, nread, got>>

\* read() returns 0 at the end of the stream, which leaves errno alone.
ReadEof(t) ==
    /\ running = t
    /\ pc[t] = "read"
    /\ LET c == fdTable[lfd[t]] IN client[c] = "closed" /\ Unread(c) = 0
    /\ errno' = errno
    /\ HandleFailed(t)
    /\ UNCHANGED <<m_readWrite, taskFd, lfd, buf, fdTable, backlog, client,
                   sent, nread, got>>

\* read() fails on a connection that was reset.
ReadReset(t) ==
    /\ running = t
    /\ pc[t] = "read"
    /\ client[fdTable[lfd[t]]] = "reset"
    /\ errno' = "ECONNRESET"
    /\ HandleFailed(t)
    /\ UNCHANGED <<m_readWrite, taskFd, lfd, buf, fdTable, backlog, client,
                   sent, nread, got>>

\* Faulty variant: after a short write the whole buffer is written again.
WriteSomeTwice(t) ==
    /\ running = t
    /\ pc[t] = "write"
    /\ LET c == fdTable[lfd[t]] IN
         /\ client[c] = "open"
         /\ \E k \in 1..Len(buf) :
               got' = [got EXCEPT ![c] = @ \o SubSeq(buf, 1, k) \o buf]
    /\ buf' = << >>
    /\ HandleKeep(t)
    /\ UNCHANGED <<m_readWrite, taskFd, lfd, errno, fdTable, backlog, client,
                   sent, nread>>

\* write() takes some of the bytes: all of them, or fewer when the send
\* buffer is nearly full.  The rest is dropped, since handle returns 0.
WriteSome(t) ==
    /\ running = t
    /\ pc[t] = "write"
    /\ LET c == fdTable[lfd[t]] IN
         /\ client[c] = "open"
         /\ \E k \in 1..Len(buf) :
               got' = [got EXCEPT ![c] = @ \o SubSeq(buf, 1, k)]
    /\ buf' = << >>
    /\ HandleKeep(t)
    /\ UNCHANGED <<m_readWrite, taskFd, lfd, errno, fdTable, backlog, client,
                   sent, nread>>

\* write() succeeds towards a client that has closed: nobody gets the bytes.
WriteLost(t) ==
    /\ running = t
    /\ pc[t] = "write"
    /\ client[fdTable[lfd[t]]] = "closed"
    /\ buf' = << >>
    /\ HandleKeep(t)
    /\ UNCHANGED <<m_readWrite, taskFd, lfd, errno, fdTable, backlog, client,
                   sent, nread, got>>

\* write() fails: the send buffer is full, or the client is gone.
WriteFailed(t) ==
    /\ running = t
    /\ pc[t] = "write"
    /\ errno' = IF client[fdTable[lfd[t]]] = "open" THEN "EAGAIN"
                                                ELSE "ECONNRESET"
    /\ buf' = << >>
    /\ HandleFailed(t)
    /\ UNCHANGED <<m_readWrite, taskFd, lfd, fdTable, backlog, client, sent,
                   nread, got>>

\* write() to a client that is gone raises SIGPIPE, which nothing in the
\* program handles: the process ends.
WriteSigpipe(t) ==
    /\ running = t
    /\ pc[t] = "write"
    /\ client[fdTable[lfd[t]]] \in {"closed", "reset"}
    /\ running' = Killed
    /\ UNCHANGED <<m_readWrite, taskFd, lfd, pc, resumer, buf, errno, fdTable,
                   backlog, client, sent, nread, got>>

\* close(fd) and break: back to the head of the loop.
TaskClose(t) ==
    /\ running = t
    /\ pc[t] = "close"
    /\ fdTable' = [fdTable EXCEPT ![lfd[t]] = NoConn]
    /\ lfd' = [lfd EXCEPT ![t] = NoFd]
    /\ Goto(t, "loop")
    /\ UNCHANGED <<m_readWrite, taskFd, running, resumer, buf, errno, backlog,
                   client, sent, nread, got>>

-----------------------------------------------------------------------------
(* accept_routine                                                          *)

\* No idle task: sleep for a second.
AcceptorSleep(l) ==
    /\ running = l
    /\ pc[l] = "loop"
    /\ empty
    /\ Goto(l, "sleep")
    /\ Yield(l)
    /\ UNCHANGED <<m_readWrite, taskFd, lfd, buf, errno, fdTable, backlog,
                   client, sent, nread, got>>

\* Faulty variant: without a descriptor, wait with co_yield_ct.
AcceptFullNoPoll(l) ==
    /\ running = l
    /\ pc[l] = "loop"
    /\ ~empty
    /\ \/ backlog[l] = << >> /\ errno' = "EAGAIN" /\ Goto(l, "poll")
       \/ backlog[l] # << >> /\ FreeFds = {} /\ errno' = "EMFILE" /\ Goto(l, "yield")
    /\ Yield(l)
    /\ UNCHANGED <<m_readWrite, taskFd, lfd, buf, fdTable, backlog, client,
                   sent, nread, got>>

\* co_accept fails: nothing is pending, or no descriptor is left.
AcceptFail(l) ==
    /\ running = l
    /\ pc[l] = "loop"
    /\ ~empty
    /\ \/ backlog[l] = << >> /\ errno' = "EAGAIN"
       \/ backlog[l] # << >> /\ FreeFds = {} /\ errno' = "EMFILE"
    /\ Goto(l, "poll")
    /\ Yield(l)
    /\ UNCHANGED <<m_readWrite, taskFd, lfd, buf, fdTable, backlog, client,
                   sent, nread, got>>

\* Faulty variant: accept before looking whether a task is idle.
AcceptUnchecked(l) ==
    /\ running = l
    /\ pc[l] = "loop"
    /\ backlog[l] # << >>
    /\ \E f \in FreeFds :
         /\ \A g \in FreeFds : f <= g
         /\ lfd' = [lfd EXCEPT ![l] = f]
         /\ fdTable' = [fdTable EXCEPT ![f] = Head(backlog[l])]
    /\ backlog' = [backlog EXCEPT ![l] = Tail(@)]
    /\ Goto(l, "dispatch")
    /\ UNCHANGED <<m_readWrite, taskFd, running, resumer, buf, errno, client,
                   sent, nread, got>>

\* co_accept returns the lowest free descriptor.  It does not yield.
Accept(l) ==
    /\ running = l
    /\ pc[l] = "loop"
    /\ ~empty
    /\ backlog[l] # << >>
    /\ \E f \in FreeFds :
         /\ \A g \in FreeFds : f <= g
         /\ lfd' = [lfd EXCEPT ![l] = f]
         /\ fdTable' = [fdTable EXCEPT ![f] = Head(backlog[l])]
    /\ backlog' = [backlog EXCEPT ![l] = Tail(@)]
    /\ Goto(l, "dispatch")
    /\ UNCHANGED <<m_readWrite, taskFd, running, resumer, buf, errno, client,
                   sent, nread, got>>

\* The code after a successful accept: close the connection if no task is
\* idle, else give it to the task on top of the pool and resume that task.
Dispatch(l) ==
    /\ running = l
    /\ pc[l] = "dispatch"
    /\ lfd' = [lfd EXCEPT ![l] = NoFd]
    /\ IF empty
       THEN /\ fdTable' = [fdTable EXCEPT ![lfd[l]] = NoConn]
            /\ Goto(l, "loop")
            /\ UNCHANGED <<m_readWrite, taskFd, running, resumer>>
       ELSE /\ pop
            /\ taskFd' = [taskFd EXCEPT ![top] = lfd[l]]
            /\ pc' = [pc EXCEPT ![l] = "loop", ![top] = "loop"]
            /\ Resume(top)
            /\ UNCHANGED fdTable
    /\ UNCHANGED <<buf, errno, backlog, client, sent, nread, got>>

-----------------------------------------------------------------------------
(* Clients: external to the server, known by what its system calls return. *)

Connect(c, l) ==
    /\ running # Killed
    /\ client[c] = "idle"
    /\ Len(backlog[l]) < Backlog
    /\ client' = [client EXCEPT ![c] = "open"]
    /\ backlog' = [backlog EXCEPT ![l] = Append(@, c)]
    /\ UNCHANGED <<m_readWrite, taskFd, lfd, pc, running, resumer, buf, errno,
                   fdTable, sent, nread, got>>

Send(c) ==
    /\ running # Killed
    /\ client[c] = "open"
    /\ sent[c] < MaxBytes
    /\ sent' = [sent EXCEPT ![c] = @ + 1]
    /\ UNCHANGED <<m_readWrite, taskFd, lfd, pc, running, resumer, buf, errno,
                   fdTable, backlog, client, nread, got>>

\* The client closes its end, or the connection breaks (a closed client's
\* machine also answers further data with a reset).
Leave(c) ==
    /\ running # Killed
    /\ \/ client[c] = "open" /\ client' = [client EXCEPT ![c] = "closed"]
       \/ /\ client[c] \in {"open", "closed"}
          /\ client' = [client EXCEPT ![c] = "reset"]
    /\ UNCHANGED <<m_readWrite, taskFd, lfd, pc, running, resumer, buf, errno,
                   fdTable, backlog, sent, nread, got>>

\* A killed process stays killed.
Dead == running = Killed /\ UNCHANGED vars

-----------------------------------------------------------------------------
TaskStep(t) ==
    \/ TaskIdle(t) \/ TaskTake(t) \/ TaskClose(t)
    \/ ReadData(t) \/ ReadAgain(t) \/ ReadEof(t) \/ ReadReset(t)
    \/ WriteSome(t) \/ WriteLost(t) \/ WriteFailed(t) \/ WriteSigpipe(t)

ListenerStep(l) ==
    AcceptorSleep(l) \/ AcceptFail(l) \/ Accept(l) \/ Dispatch(l)

MainStep ==
    \/ start
    \/ \E t \in Tasks : startReadWrite(t)
    \/ \E l \in Listeners : startAccept(l)

\* What the server's thread does between two resumptions by the event loop.
Run ==
    \/ MainStep
    \/ \E t \in Tasks : TaskStep(t)
    \/ \E l \in Listeners : ListenerStep(l)

Clients ==
    \/ \E c \in Conns, l \in Listeners : Connect(c, l)
    \/ \E c \in Conns : Send(c) \/ Leave(c)

Next ==
    \/ Run
    \/ \E co \in Coroutines : Wake(co)
    \/ Clients
    \/ Dead

\* The thread is never stopped, and every round of co_eventloop resumes each
\* coroutine whose descriptor is ready or whose timeout has passed, so none
\* is overtaken for ever.  Nothing is assumed of the clients.
Fairness == WF_vars(Run) /\ \A co \in Coroutines : SF_vars(Wake(co))

Spec == Init /\ [][Next]_vars
FairSpec == Spec /\ Fairness

-----------------------------------------------------------------------------
(* Properties.                                                             *)

TypeCo ==
    /\ pc \in [Coroutines \cup {Main} -> TaskPc \cup ListenerPc \cup MainPc]
    /\ \A t \in Tasks : pc[t] \in TaskPc
    /\ \A l \in Listeners : pc[l] \in ListenerPc
    /\ pc[Main] \in MainPc
    /\ running \in Coroutines \cup {Main, Killed}
    /\ resumer \in [Coroutines -> Coroutines \cup {Main, Killed}]

TypeFd ==
    /\ taskFd \in [Tasks -> Fds \cup {NoFd}]
    /\ lfd \in [Coroutines -> Fds \cup {NoFd}]
    /\ fdTable \in [Fds -> Conns \cup {NoConn}]

TypeData ==
    /\ m_readWrite \in Seq(Tasks)
    /\ buf \in Seq(Byte)
    /\ errno \in {"none", "EAGAIN", "ECONNRESET", "EMFILE"}
    /\ backlog \in [Listeners -> Seq(Conns)]
    /\ client \in [Conns -> {"idle", "open", "closed", "reset"}]
    /\ sent \in [Conns -> 0..MaxBytes]
    /\ nread \in [Conns -> 0..MaxBytes]
    /\ got \in [Conns -> Seq(Byte)]

\* Type invariant of the server's, libco's and the kernel's state.
TypeOK == TypeCo /\ TypeFd /\ TypeData

\* The holders of descriptor f: task_t::fd fields and local variables.
HeldByTask(f) == {t \in Tasks : taskFd[t] = f}
HeldByCo(f) == {co \in Coroutines : lfd[co] = f}

\* An open descriptor has exactly one holder over accept_routine, task_t and
\* readwrite_routine, and a descriptor that is closed (and may be reused by
\* the next accept) has none: none leaks, none is served twice, and no task
\* keeps a descriptor it has closed.
OneOwner ==
    \A f \in Fds :
        LET holders == HeldByTask(f) \cup HeldByCo(f) IN
        /\ HeldByTask(f) \cap HeldByCo(f) = {}
        /\ fdTable[f] = NoConn => holders = {}
        /\ fdTable[f] # NoConn => \E co \in Coroutines : holders = {co}

\* The stack m_readWrite holds each task at most once, and exactly the tasks
\* that wait in co_yield_ct: erase never hands out a busy task, and no idle
\* task is forgotten.
PoolExact ==
    /\ \A i, j \in 1..Len(m_readWrite) :
            m_readWrite[i] = m_readWrite[j] => i = j
    /\ \A t \in Tasks :
            pc[t] = "yield" <=> \E i \in 1..Len(m_readWrite) : m_readWrite[i] = t

\* accept_routine's second test of empty() never succeeds: no other coroutine
\* runs between the first test and erase(), so an accepted connection is
\* never closed for want of a task, whatever the number of listeners.
AcceptedHasTask ==
    \A l \in Listeners : pc[l] = "dispatch" => ~empty

\* A client only receives bytes it sent on this connection, in the order sent
\* and each at most once, whichever tasks and reused descriptors served it.
EchoInOrder ==
    \A c \in Conns :
        /\ \A i \in 1..Len(got[c]) : got[c][i][1] = c /\ got[c][i][2] <= nread[c]
        /\ \A i, j \in 1..Len(got[c]) : i < j => got[c][i][2] < got[c][j][2]

Bound(c) == \E f \in Fds : fdTable[f] = c
Pending(c) == \E l \in Listeners : \E i \in 1..Len(backlog[l]) : backlog[l][i] = c

\* The server closes a connection only when its client is gone: an EAGAIN of
\* read or write, in this or another coroutine, never ends a live connection.
OnlyGoneClosed ==
    [][\A c \in Conns : Bound(c) /\ ~(Bound(c))' => client[c] # "open"]_vars

\* Data that reaches an accepted connection does not stay there: its task
\* reads it, or closes the connection (which OnlyGoneClosed allows only when
\* the client is gone), unless the process is killed.
DataIsRead ==
    \A c \in Conns :
        Bound(c) /\ Unread(c) > 0 ~>
            Unread(c) = 0 \/ ~Bound(c) \/ running = Killed

\* The task of a reset connection closes it and goes back to the pool.
ResetIsClosed ==
    \A c \in Conns :
        Bound(c) /\ client[c] = "reset" ~> ~Bound(c) \/ running = Killed

\* A connection that waits in a backlog, because every task is busy or every
\* descriptor taken, is accepted once there is room: the accept coroutine comes
\* back after its sleep and after a failed accept alike.  (There is room when a
\* task is idle and a descriptor free; it must come about again and again, as it
\* does if other clients leave.)
PendingIsAccepted ==
    []<>(~empty /\ FreeFds # {}) =>
        \A c \in Conns : Pending(c) ~> ~Pending(c) \/ running = Killed

\* handle goes on with a connection after a read that returned no data only
\* if that read failed with EAGAIN, that is, the connection is still open.
ContinuesOnlyOnEagain ==
    [][\A t \in Tasks : pc[t] = "read" /\ pc'[t] = "poll" =>
            client[fdTable[lfd[t]]] = "open"]_vars

=============================================================================
