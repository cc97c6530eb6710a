# Verification of tadpole

tadpole is a small C++ server framework: a TCP server built on the coroutine
library libco, and the parts such a server needs (byte buffers, timers, threads
and locks, configuration, logging, addresses, HTTP parsing, Lua bindings). This
directory holds TLA+ models of its own code (`src/src/`), TLC configurations
that check them on small instances, and TLAPS proofs. Third-party code
(`src/3rd/`, `src/l-src/`) is modelled only as far as the project's code uses
it. The scanners that ragel generates (`*.rl.cc`) are part of the program and
are modelled as they are compiled.

`PROJECT.json` is the machine-readable index: components, runs, the source lines
behind each definition, one mutant for each checked property, findings, hazards
and theorems.

## 1. Inventory

| Component | Source | State | Operations | What is hard |
|---|---|---|---|---|
| TCP server: serving | `tcpServer.cc/.h` | stack of idle tasks `m_readWrite`, `task_t::fd` of each task, local `fd` of each coroutine, descriptor table and `errno` of the process | `start`, `startReadWrite`, `startAccept`, `readwrite_routine`, `accept_routine`, `handle`, `push/empty/erase` | coroutines that resume each other; one `errno` for all; descriptor numbers reused at once; partial reads and writes; pool and descriptors at their limits |
| TCP server: start-up | `tcpServer.cc`, `address.cc` | `m_flag`, `m_listenFd` | constructor, `init`, `CSByIP`, `CSByUnixAddr`, `bind`, test of `m_flag` in `start` | any of five calls may fail half-way; a constructor that throws; uninitialized `m_flag`; unparsable addresses |
| Byte array: chain of nodes | `byteArray.cc/.h` | list of nodes, two pointers, `m_size`, `m_capcity` | `write`, `read`, destructor | node boundaries, pointers one past the end of a node |
| Byte array: typed values | `byteArray.cc/.h` | none of its own | fixed and variable length integers, floats, strings | zero, negative and wide values; truncated input |
| Timer manager | `timer.cc/.h`, `singleton.hpp` | ordered set of timers, timer coroutine | `GetInstance`, `addTimer`, `delTimer`, `checkExpire`, `cancel` | the constructor re-enters `GetInstance` |
| Threads and semaphore | `thread.cc/.h`, `mutex.cc/.h` | `m_id`, `m_sem`, `m_thread`, `m_cb` | constructor, `run`, `join`, destructor | the object's lifetime against the thread's |
| Mutexes and lock guards | `mutex.h` | `islock` of each guard over a pthread lock | constructor, `lock`, `unlock`, destructor of three guards | calls in any order, nested guards, one `unlock` for readers and writers, refusals nobody looks at |
| Configuration | `config.cc/.h` | map from name to `ConfigVar` | `Lookup`, `LoadFromYaml`, `fromString`, listeners | `Lookup` replaces a variable others still hold |
| Logging | `log.cc/.h` | loggers, appenders, formatter | `log`, `addAppender`, `delAppender`, `clearAppender`, `setLevel` of logger and appender, `setFormat`, set-up from the configuration and back, scan of the pattern | no locks: a vector walked by one thread and changed by another, streams shared; static initialization order, text conversions |
| Addresses | `address.cc/.h` | a socket address | creation, order, network, broadcast and mask | shifts by the width of the type, elements at and behind the end of the prefix, an order that is not strict |
| HTTP messages and parsers | `http/*` | state of the scanner, positions in the buffer, parts of the message | `execute`, callbacks, `isFinished` | a message cut anywhere over calls of `execute`: the state survives, the positions do not; positions at the very end of the buffer; use after the end |
| Lua state, bit registers | `luaState.cc`, `luaRegister.cc` | Lua stack; a number as flags | `setBit`, `getBit`, `getBitAmount` | positions outside the number, the sign bit |
| Utilities | `utils.cc`, `singleton.hpp` | none | time, ids, directories | pure input/output |

How they interact. The `TcpServer` constructor reads the addresses from the
configuration and binds them (start-up); `start` creates `m_ant` read/write
coroutines and one accept coroutine per listening socket and enters libco's
event loop (serving). All of that is one thread. An acceptor takes an idle task
from `m_readWrite`, puts the new descriptor into `task_t::fd` and resumes the
task directly, on top of itself; the task's first poll gives control back to the
acceptor. From then on the event loop resumes the task when its descriptor is
ready or one second has passed. The timer manager adds a coroutine of its own to
the same loop. Logging is set up by a static object that reads the configuration
file through `Config`. `Thread`, the locks, the HTTP parsers and the Lua functions
are used by programs, not by the server; the parsers take the buffers a program
reads from its connections, in whatever pieces they come.

What makes each modelled component correct:

* serving: no descriptor leaks or has two owners; the pool is exactly the idle
  tasks; no accepted connection is thrown away; no client gets another client's
  bytes, or its own out of order or twice; no live client is disconnected; data
  is read, dead connections are closed, waiting ones are accepted;
* start-up: `m_listenFd` is exactly the sockets that listen, whatever failed, and
  a listener without an owner is left only by a constructor that throws; what is
  bound is what was configured;
* byte array: it is a FIFO queue of bytes with all-or-nothing reads, exact
  counters and bounded memory; on top of it, every value that is written can be
  read back and takes exactly its own bytes;
* configuration: a variable has the value of the last file that gives it one,
  and its callbacks see every change;
* logging set-up: each logger has the appenders that are configured for it,
  whoever asks for it first; a pattern is cut without loss (levels are not read
  from the configuration at all, see section 4);
* timers: the instance can be obtained;
* logging: a message reaches every appender its level passes, once and in order,
  and is damaged only by a race;
* locks: exclusion and flags that agree with the locks whatever the calls, as long
  as no lock refuses a call, which takes nested guards; no deadlock without nesting;
* HTTP: what a callback is given is its token, or its rest if a call cut it;
  the parser neither throws nor aborts unless misused; a finished head is
  complete and its body begins where the scan stopped;
* addresses: mask, network and broadcast address belong together; the order
  serves a set; bit registers keep what was set last;
* threads: a returned constructor has a running, identified thread; `join` is
  final; the pthread is released once; the object outlives its use.

## 2. Modules

| Module | Models | Run by |
|---|---|---|
| `TcpServer` | serving: tasks, acceptors, libco's switching, sockets, clients | `MCTcpServer` |
| `TcpServerProofs` | theorems about `TcpServer` | TLAPS |
| `TcpServerInit` | constructor, `init`, `bind`, the decision in `start` | `MCSetup` |
| `TcpServerInitProofs` | theorems about `TcpServerInit` | TLAPS |
| `LogConfig` | levels, `LoggerMgr`, `LogIniter` | `MCSetup` |
| `Logger` | `Logger::log` and the appenders, several threads | `MCSetup` |
| `LogFormatter` | the formatter's scan of its pattern | `MCSetup` |
| `Address` | subnets of IPv4 and IPv6 addresses | `MCSetup` |
| `LuaBits` | the bit functions for Lua scripts | `MCSetup` |
| `MCSetupProofs` | theorems about `Address`, `Logger`, `LogFormatter`, `LogConfig` and `LuaBits` | TLAPS |
| `ByteQueue` | abstract specification: a queue of bytes | through `ByteArray` |
| `ByteArray` | the chain of nodes; refines `ByteQueue` | `MCData` |
| `ByteArrayCodec` | integers, floating point numbers and strings on a byte queue | `MCData` |
| `Config` | `Config`, `ConfigVar`, YAML files | `MCData` |
| `MCDataProofs` | theorems about `ByteArray` (the refinement among them), `ByteArrayCodec` and `Config` | TLAPS |
| `CommonLemmas` | lemmas on numbers, powers of two, sums and sequences for `MCSetupProofs` and `MCDataProofs` | TLAPS |
| `AddressSet` | the order of addresses in a `std::set` | itself |
| `Locks` | the lock guards over pthread's locks | `MCThreads` |
| `Thread` | `Thread` and `Semaphore` | `MCThreads`, itself |
| `MCThreadsProofs` | theorems about `Locks` and `Thread` | TLAPS |
| `TimerMgr` | construction of the timer singleton | itself |
| `HttpTable` | what the tables of the scanners are made of | through the parsers |
| `HttpRequestTable`, `HttpResponseTable` | the two compiled scanners, state by state | through the parsers |
| `HttpRequestParser`, `HttpResponseParser` | the parser objects around them | themselves |
| `HttpRequestProofs`, `HttpResponseProofs` | theorems about the parsers | TLAPS |

`MCSetup`, `MCData` and `MCThreads` each put several independent modules into one
run: a variable `part` picks one module in the initial state, and only that
module moves. The state space is the sum of the modules', not the product, and
nothing is lost, because none of them reads another's state. In these modules a
component's type invariant is a conjunct of one of its properties.

Definitions named "Faulty variant" are not part of any specification: they are
the mutants listed in `PROJECT.json`, each a plausible mistake in the definition
that follows it.

### TcpServer

A coroutine runs until it yields, so what matters is who has the thread:
`running`, and libco's call stack `resumer` (`Resume` is `co_resume`, `Yield` is
`co_yield_ct`, `co_poll` or the hooked `poll`, `Wake` one resumption by
`co_eventloop`). A step is the code between two system calls or switches,
because the outside world (clients, kernel) moves there: `TaskIdle`, `TaskTake`,
`TaskClose` are the pieces of `readwrite_routine`; `ReadData`, `ReadAgain`,
`ReadEof`, `ReadReset` and `WriteSome`, `WriteLost`, `WriteFailed`,
`WriteSigpipe` are the outcomes of the two calls in `handle`; `AcceptorSleep`,
`AcceptFail`, `Accept`, `Dispatch` are `accept_routine`. `handle` decides by
`errno` (`HandleFailed`), which only failing calls set and which all coroutines
share. A byte is a pair of connection and position, so that the properties can
tell whose byte it is. Nothing installs a handler for SIGPIPE, so a write to a
client that has gone may end the process (`Killed`).

Sockets are non-blocking (`SetNonBlock`), therefore libco's hooked `read` and
`write` go straight to the kernel and do not yield. Abstracted: the result of
`SetNonBlock` on an accepted descriptor (not looked at by the code), memory
(`calloc`, the 128 KiB buffer on a 128 KiB coroutine stack), addresses, and
logging.

### TcpServerInit

One step per half of an iteration of `init()`: the `ip` entry and the `unix`
entry. `bind` lists its five ends (no socket; `SetNonBlock` fails and the socket
stays open; `::bind` fails; `listen` fails; success). `Create` is
`IPv4Address::Create` with `inet_pton`'s three results. `m_flag` starts with any
value, as its memory does. An address that throws (`UnixAddress` with a long
path) leaves the constructor by the exception: `m_listenFd` is destroyed with the
other members, and the sockets of earlier entries go on listening without an
owner (`ListenersExact` says that they do so in this case only). The phase
"serving" is where `TcpServer` starts, with `Listeners` the elements of
`m_listenFd`.

### ByteArray and ByteQueue

`chain` is the list from `m_root`, `w` and `wpos` stand for `m_curWriteNode` and
`m_pos`, `rpos` for `m_cur`; one step per iteration of the loops in `write` and
`read`. `new char[]` does not initialize a node: its bytes are `Junk`, which no
caller may ever receive. The refinement lets a call take effect when it is made:
the abstract queue is the stored bytes followed by what is left to write, or
without what is left to read.

### ByteArrayCodec

The array is a queue of bytes here (`ByteArray` shows that it is one). The
writers append the bytes of a value, the readers read the types in the order in
which they were written, and `pending` remembers the values. Widths are
parameters: `P` payload bits in a byte of a compressed integer, `W` bits in an
`int`; the code has 7 and 32. Arithmetic is two's complement, and the shift of an
`int` by too many bits is the machine's. A compressed value is or'ed together: it
has the bits that one of its shifted bytes has, and `CompressedValue` adds those up.
The callers' integers are a constant (`Values`; for TLC those next to a power of
two), and a string is shorter than 2^`W`, since its length is a `uint32_t`. `Framed` is about where values begin and
end, `RoundTrip` about what they are. The model is of a little-endian machine,
where `byteswapOnBigEndian` is the identity.

### Config

A variable is an object its callers keep (`var`), and `data` says which object a
name is registered for. A YAML file is a tree, written as the sequence of its
nodes, each after those it holds (`Files`; `FilesAssumption` says so). `Visits` is
the recursion of `InitFromYaml`, which gives every text a dotted name: a recursive
function on the places in the file. `Insert`, applied to the visits in their order,
decides between two texts of one name. `fromString` converts, calls the callback, assigns, and gives up
where one of them throws. `LastFileWins` compares the result with `Says`, which
reads the file in another way: list all texts, take the first. Only `int` and
vectors of it are modelled as types; the other containers repeat the vector's
pattern.

### LogFormatter, LogConfig and Logger

`LogFormatter` has one step per iteration of the loop in `init()`, with its two
positions `i` and `f`. `LogConfig` takes one step per entry of the configuration;
`findLogger` is the use of a logger by other static objects, before or after
`LogIniter`, and by programs. `toYamlString` keeps the code's index, which stays
at the first element. An appender's text that names neither kind is one of type
0 without a level, so it is not listed separately; formats are left out.

`Logger` is one logger used by several threads. `EventWrap` is the end of a
logging statement, whose destructor calls `log`; `walk` is one iteration of the
loop over the appenders, and `format` the end of the write into an appender's
stream. `std::cout` is one stream for all its appenders, a file appender has its
own. Two threads that write to one stream at once race for its buffer (`raced`);
from then on the text of any message that goes there may be lost or torn
(`damaged`), also that of a later one, since nothing repairs the buffer.
`addAppender`, `delAppender`, `clearAppender`, `setLevel` of the logger
and of an appender (`setAppenderLevel`) and `setFormat` come at any time. A level
is a word that is read once, so a message may meet the old one or the new one:
`levels` remembers those each appender had since the message began, and
`Delivered` asks for one of them. After a change of the vector, the iterators of a
thread in the loop are invalid: it may leave the loop, or anything may happen
(`undefined`, where the behaviour ends). `setFormat` replaces a shared pointer that
a thread may be reading, with the same result.

### Address, AddressSet and LuaBits

A number is the set of its bits, so that `|` and `& ~` are union and difference.
A shift by the width of an `int` or more is what the processor makes of it (the
count modulo the width). `Address` has the three functions of each family; an
IPv6 address is an array with the scope behind it, where the element of prefix
128 lies. A caller may go on with the result of a call (`Take`). `AddressSet` is
`std::set::insert` over `operator<`. `LuaBits` keeps beside the number what was
last set of each bit.

### Locks

`SelfLock`, `RDSelfLock` and `WRSelfLock` differ in the one call that takes the
lock, so a guard is a reader or not. `Construct` and `lock` bring a guard to that
call, `Acquire` is its return with the lock and `Refused` its return without it,
`unlock` and `Destroy` give the lock back where `islock` says that it is held.
pthread's side is a count of readers and the thread that writes; its one `unlock`
(`Release`) tells by its own state what to undo, as `pthread_rwlock_unlock` does. A
guard belongs to the stack of one thread, and a thread that waits does nothing
else.

A read/write lock refuses the thread that holds it for writing (EDEADLK), and the
code sets `islock` all the same. After that the guards of this lock and the lock
itself go different ways: the inner guard's `unlock` releases the outer guard's
lock, and the outer one's brings the count of readers below zero (where
`pthread_rwlock_rdlock` answers EAGAIN, the other refusal in `Refused`). `refused`
remembers which locks have come to this. `Exclusion` and `HeldExactly` are about the
others, and `RefusedOnlyNested` says what it takes to leave them. `Mutex` and `SpinLock` refuse nobody: there a thread waits for
itself for ever.

### The HTTP parsers

Ragel compiles each grammar to a goto program: one label per state, a switch on
the byte, the actions of the transition, a jump. `HttpRequestTable` (349 states)
and `HttpResponseTable` (123 states) are these programs: a state is mapped to its
transitions, each a set of byte classes, the actions in their order, and the
next state. A class holds bytes that the program never tells apart. The tables
were compared with the transitions extracted from the `.rl.cc` files, state by
state and byte by byte.

The parser modules run the tables. `Execute` starts a call on the next bytes and
forgets what the code forgets (`Reset`); `Scan` is one byte: it applies the actions
(`Apply`), makes the callbacks (`Reports`) and moves on; `Reject` is a byte without a
transition; `Return` ends the call, adds to `nread`, evaluates the asserts and, for
responses, the checks that return -1. The length of a buffer is chosen when the
scan reaches its end, so every message is cut in every way. Bytes themselves are
not kept. Instead `begun` remembers where each token really began, and a callback
gets a text that is the `whole` token, its `rest` (it began in an earlier
buffer), `empty` or `other`. `query_start` and `uri_relaxed` have no initial value in
the code, so they have an arbitrary one here. `over` notes that a finished parser
was used again; what holds then is said by `StopsOnlyWhenMisused`.

### TimerMgr

The guard of the function-local static in `Singleton::GetInstance` as libstdc++
implements it, and the two coroutines (the caller and `timer_routine`) that go
through it.

### Thread

Owner and child share one object. Each step of `run` marks whether the object
was still alive (`stale`). `pthread_create` may fail (the code compares its
result with -1, so it goes on and waits), and `sem_wait` may be interrupted,
which makes the constructor throw. `pthread_join` succeeds: its failure, which
is positive too, would be taken for success by the same test against -1.

## 3. Runs

| Run | Shows | Bounds |
|---|---|---|
| `server_pool` | `OneOwner`, `PoolExact`, `AcceptedHasTask`, `EchoInOrder`, `OnlyGoneClosed` and the types | 2 tasks, 2 listeners, 3 clients, 3 descriptors, 2 bytes, buffer of 2 |
| `server_live` | `DataIsRead`, `ResetIsClosed`, `PendingIsAccepted` | 2 tasks, 1 listener, 2 clients, 1 descriptor, 2 bytes, buffer of 1 |
| `server_eof` | finding: `ContinuesOnlyOnEagain` fails | 1 of each |
| `setup` | `ListenersExact`, `OrphanedOnlyByDuplicate`, `BoundAsConfigured`; `SubnetsRight`; `AppendersAsConfigured`; `DeliveredExactly`; `PatternKept`; `BitsKept` | 0 to 2 configured entries; ints of 5 bits, IPv6 addresses of 2 elements of 3 bits, all addresses and prefixes; 2 loggers, 2 entries, 1 appender each, 2 level texts; 2 threads, 2 appenders, 2 levels; all patterns of up to 5 out of 4 characters; positions 0 to 6 |
| `data` | `CountersExact`, `MemoryBounded`, `ImplementsQueue`; `RoundTrip`, `Framed`; `LastFileWins`, `CallsChained` | nodes of 2 bytes, calls up to 5, 6 bytes in all; bytes of 3 bits, ints of 6, two values; 4 files, 2 names, 2 lookups, 3 loads |
| `threads` | `Exclusion`, `HeldExactly`, `RefusedOnlyNested`, `DeadlockNeedsNesting`; `IdKnown`, `JoinedIsOver`, `ReleasedOnce`, `ConstructorEnds` | 5 guards of 2 threads on 2 locks, 2 of them readers; 2 Thread objects |
| `http_request` | `CallbacksExact`, `StopsOnlyWhenMisused`, `HeadComplete`, `PartsInOrder` | buffers of up to 3 bytes, any number of them |
| `http_response` | `CallbacksExact`, `RefusesOnlyEmpty`, `HeadComplete` | buffers of up to 5 bytes, any number of them |
| `http_finished` | finding: `FinishedWhenDone` fails | buffers of up to 3 bytes |
| `address_set` | finding: `NoDuplicates` fails | 3 addresses, 3 insertions |
| `timer_instance` | finding: `InstanceObtained` fails | none needed |
| `thread_lifetime` | finding: `NoUseAfterDestroy` fails | 2 threads |

Why the bounds are enough for the cases to happen. `server_pool`: more clients and descriptors
than tasks, so the pool runs empty and acceptors sleep; two acceptors compete for
the last task; a descriptor is closed and reused. Two bytes
through a buffer of two give partial reads and short writes that drop a byte.
`server_live`: two clients share one descriptor. While one is served the other
one's connection waits, a task is idle and `accept` fails with EMFILE, which is the
case `PendingIsAccepted` is about; and a byte stays behind after the first read.
(An empty pool beside a free descriptor would need more descriptors than tasks;
that case is in `server_pool`.) Start-up: two
entries reach every pair of duplicates and overlaps (same port, same path,
wildcard and specific). `ByteArray`: a call of five bytes spans three nodes of
two, and starts at every offset. `ByteArrayCodec`: ints have three payload groups as
against five, but the cases are the same: values of one byte, of several, of
exactly all bits of an `int` and of more; two values suffice for one to be
misplaced by the other. `Config`: the four files hold every kind of node, a name
twice, a list with a bad element, and texts of the wrong type; three loads let a
refusal come between two changes. `LogConfig`: two entries may be for one
logger or two, with loggers asked for before and after. `Logger`: two threads meet
in one appender or in `std::cout` through two, an appender may stand in the vector
twice, and a stream that was raced for is used again. `Address`: one
prefix in each element and at each border, in an `int` longer than an element, as
in the code. `Locks`: one thread has a guard on each lock, the other three, so that
both orders of nesting, two readers, and a reader and a writer of one thread
on the `RWMutex` occur; the last gives the refusals. HTTP: messages are unbounded, only a buffer is short. Every place a
message can be cut at is met with every buffer length up to the bound; three
bytes (five for responses, whose `write_value` uses three positions of one line)
let a token begin, go on and end in one buffer, and let it be cut on either side.
For the safety properties the bounds do not matter in the end: they are proved for
all values (section 5).

All runs but those of `TcpServer` turn deadlock checking off: start-up and the
scan of a pattern end, a byte array is destroyed, threads end, locks are used in
orders that deadlock (which `DeadlockNeedsNesting` is about), a parser stops after an
exception or an assert, callers of the others may stop calling (at the bounds
they must), and the timer run is about an execution that stops. In the
runs of `TcpServer` deadlock is checked; a killed process takes the explicit step `Dead`.

Symmetry (`server_pool` only) permutes tasks, listeners and clients, which the
specification treats alike; it is not used with liveness.

### Fairness

`TcpServer!FairSpec`: the thread is never stopped (`WF(Run)`), and
`SF(Wake(co))` for every coroutine. Strong fairness is what `co_eventloop` gives:
`Wake` is disabled whenever another coroutine runs, but each round of the loop
resumes every coroutine whose event or timeout is due, and every poll in the
code has a timeout of one second, so each becomes due again and again. Nothing is assumed
of clients; the liveness properties except the death of the process.
`PendingIsAccepted` asks for room (an idle task and a free descriptor) again and
again, since clients may occupy both for ever: that the acceptor is not always
elsewhere at these moments is what the code has to answer for.

`Thread!FairSpec`: the operating system runs a thread that can run: `run` up to
its `notify`, and the constructor's wait. Callbacks need not end, and owners
need not act (`MCThreads` uses the same fairness). Nothing is assumed of `Locks`:
pthread's locks are not fair, and a thread may wait for ever while others take
turns. `TimerMgr!Spec`: the one thread goes on while it can.

## 4. Findings

1. **End of file depends on a stale errno** (`server_eof`, `tcpServer.cc:148`).
   `read` returning 0 leaves `errno` alone. Acceptors leave EAGAIN there on
   every idle round, so a connection closed by its client is normally kept,
   polled again at once (it is always ready) and never closed; its task is lost
   to the pool. A run of the server shows the same. This is why no liveness
   property is stated for closed (rather than reset) connections.
2. **The timer manager cannot be obtained** (`timer_instance`, `timer.cc:112`).
3. **`run` uses a `Thread` after its end** (`thread_lifetime`, `thread.cc:34`).
4. **A response may end without being finished** (`http_finished`,
   `httpclient_parser.rl.cc:5527`). The scanner has four final states and the test
   knows one. The other three are reached by an empty `Transfer-Encoding`,
   `Connection` or `Content-Length` as the last field.
5. **A set of addresses keeps duplicates** (`address_set`, `address.cc:120`):
   `operator<` holds between an address and itself.

`PROJECT.json` quotes the comment or test each one contradicts.

Other behaviour of the code that the models have and a reader may not expect;
the properties are stated so that they say exactly how far the code goes:

* The flag of a guard does not mean that the lock is held ("whether locked",
  `mutex.h:136`) after a call that pthread refused: `mutex.h:260` and `:267` drop the
  result. A thread that write-locks an `RWMutex` through one guard and asks for it
  through a second one goes on with a flag that is wrong, and the second guard's
  `unlock` releases the lock under the first.
* `m_flag` ("whether binding succeeded", `tcpServer.h:68`) is set to true where an
  address was bound and to false nowhere: with nothing bound, `start` may still enter
  the event loop (`tcpServer.cc:177`). The `EchoServer` of the tests is zeroed by
  `new EchoServer()`; a class with a constructor of its own is not.
* No log level is read from its text ("convert from a string to a log level",
  `log.h:180`), because a text in lower case is compared with names in upper case
  (`log.cc:193`). No property is about levels from the configuration.
* `toYamlString` ("convert the loggers to a yaml string", `log.h:550`) writes one
  element with the name of the last logger and everyone's appenders, and empty ones
  for the others, because its index never moves (`log.cc:559`). It is modelled, and
  no property is about it: none that is worth stating holds.
* A path that is too long makes the constructor throw (`tcpServer.cc:240`), and the
  sockets of earlier entries keep listening without an owner.
* An ip that `inet_pton` cannot parse means every address (`address.cc:175`);
  `AsksFor` says so.
* Of the compressed integers only those from 1 to the largest `int` come back
  (`RoundTrip`). Zero has no bytes, and its reader waits for one for ever
  (`byteArray.cc:121`, `:193`); a negative value is never fully written
  (`byteArray.cc:124`); wider ones are shifted as an `int` (`byteArray.cc:212`).
  Running the code shows all three.
* A second `Lookup` puts a new variable in the place of the first, whose holders no
  longer follow the files (`config.h:436`; `LastFileWins` with `Retired`).
* A file appender without a path ends the process (`log.cc:548`).
* The end of a request (state 348) is not a sink: the next call goes on with a
  header name and the parser is not finished any more; `body_start` still has its
  old value, and an assert fails when the next buffer is shorter.
* `query_start` survives a call and is never initialized: a query cut by a call
  gets other bytes, or its negative length throws `std::length_error`.
* A field that is cut in its value is stored under an empty name.
* A response field whose value stands on the next line is reported with the wrong
  name from the states 79 and 117 (`Misnamed`).
* The response parser's `execute` returns -1 for an empty buffer, which becomes a
  huge `size_t`; a syntax error returns the bytes before it, like success.
* The grammar of requests reads `6( h16 ":" )` as the byte 6, `("0" - "4")` as a
  difference, and `(0 - 31)` as the byte 0; the tables have what was compiled. The
  comments of `http_request.h` call the query what follows "#" and the fragment
  what follows "?".
* An IPv4 prefix of 0 gives the subnet of prefix 32 (a shift by 32). The IPv6
  functions take the masked bits from the low end of the element, agree with each
  other in that, leave the family of the mask 0, and do not refuse a prefix over
  128 for the mask.
* Positions of `setBit` and `getBit` outside 1..32 are other names of bits inside.

## 5. Proofs

Every safety property of a passing run is proved for all values of the constants.
`PROJECT.json` lists the
theorems; each states the property that its run checks on a small instance.

| Module | Theorems | For every |
|---|---|---|
| `TcpServerProofs` | `TypeCorrect`, `Ownership` (`OneOwner`), `PoolCorrect` (`PoolExact`), `NoAcceptedDropped` (`AcceptedHasTask`), `EchoCorrect` (`EchoInOrder`), `LiveNeverClosed` (`OnlyGoneClosed`) | number of tasks, listeners, clients, descriptors and bytes, buffer and backlog size; the sets may be infinite |
| `TcpServerInitProofs` | `ListenersTheorem`, `OrphanedTheorem`, `BoundTheorem` | configuration, and pattern of failing calls |
| `MCDataProofs` | `CountersTheorem`, `MemoryTheorem`, `QueueTheorem` (`ImplementsQueue`) | node size, and sequence of calls of any length |
| `MCDataProofs` | `RoundTripTheorem`, `FramedTheorem` | width of a byte; an `int` of two or four bytes; values and strings, and order of writes and reads |
| `MCDataProofs` | `LastFileTheorem`, `CallsTheorem` | files, names, callbacks, number of variables and loads |
| `MCThreadsProofs` | `GuardsExact` (`HeldExactly`), `MutualExclusion` (`Exclusion`), `RefusedTheorem` (`RefusedOnlyNested`), `NestingDeadlocks` (`DeadlockNeedsNesting`), `IdTheorem`, `JoinTheorem`, `ReleaseTheorem` | finite set of guards, threads and locks; set of Thread objects |
| `HttpRequestProofs` | `CallbacksTheorem`, `StopsTheorem`, `HeadTheorem`, `OrderTheorem` (`PartsInOrder`) | buffer length, however messages are cut |
| `HttpResponseProofs` | `CallbacksTheorem`, `RefusesTheorem`, `HeadTheorem` | buffer length, however messages are cut |
| `MCSetupProofs` | `SubnetsTheorem`, `DeliveredTheorem`, `PatternTheorem`, `AppendersTheorem`, `BitsTheorem` | width of a number and of an address; threads, appenders and levels; pattern; configuration; positions |

`CommonLemmas` holds no theorem of its own about the program.

Assumptions. They stand beside the constants, and TLC evaluates them: names of
coroutines differ, descriptors and bounds are natural numbers, a buffer and a
node are not empty, an uninitialized byte is no byte of a caller
(`JunkAssumption`), the guards are finite, an `int` is longer than an element of
an IPv6 address (`BitsAssumption`), 0 (the empty name) names no logger
(`LoggersAssumption`), positions are integers, an `int` has two or four bytes, a
string is shorter than 2^`W` (`CodecAssumption`), a node of a
configuration file comes after those it holds (`FilesAssumption`). `TableFacts` of the two parsers is
different in kind: it states facts about the compiled tables, which are
constants; no theorem could say more of them than a look at each transition
does, and that is what TLC does.

### Arguments

None of the properties is inductive as it stands.

*Serving.* Two facts carry the invariants: `Sched` (code in the middle of its work
has the thread: a task outside its two waiting points, or an acceptor between
`accept` and `erase`, is `running`), which is what makes the unlocked stack and
the single `buf` safe, and `FdShape` (which variable holds a descriptor at which
program point), which says that a task in the pool holds none. `Owned` is
`OneOwner` in a form the provers can use. `CloseGone` (a task about to close has a
client that is gone) gives `OnlyGoneClosed`: EAGAIN from an open connection never
leads to `close`, and no other failure happens on an open one. `BufNext` (the
buffer holds the last bytes read from the connection of the task that is about to
write, none yet echoed) gives `EchoInOrder` across partial reads and writes.
`IInv` is their conjunction with the properties; one lemma per conjunct shows that
each action preserves it.

*Start-up.* `BoundAsConfigured` says that some function takes each listener to its
entry. In the middle of the loop that function says more (`Placed`): the
listeners come from entries that are done or from the `ip` half of the one at
hand, and a unix listener that lost its file lost it to a later entry. `BindBound`
reduces the five ends of `bind` to two: at most one socket more and none that
listens, or exactly one that does and is kept.

*Byte array.* `IInv` is `CountersExact`, `Filled` (between the read and the write
position there is no `Junk`) and `Calls` (what the call under way has still to do
fits what is there). The refinement maps a call to the moment it is made, so that
every step but the first of a call is a stutter: the bytes stored and the bytes
left to write are together the same. The lemmas above it are about positions in
a chain of nodes of equal size: a product of sizes, and the place of a byte.

*Typed values.* `CodecInv`: as long as no value wrote nothing and none was read in
vain (`synced`), the array can be cut (`Frames`) into the bytes (`Enc`) of the values
written and not yet read, none of them empty. A writer adds a piece at the end
(`WriteEffect`, `FramesWrite`); the reader finds the bytes of its value at the front
(`HeadReady`) and takes exactly those (`ReadRight`, `FramesRead`). What it makes of
them is arithmetic. A number is the sum of its digits (`Expands`, `SumIs`: the first
k terms add up to the number modulo a power), in base 2^8 for the fixed lengths
(`FixedBack`) and in base 2 for the compressed ones, whose bits come from the bytes
(`BitOfDigit`, `HasBit`) as long as no shift leaves an `int` (`ShiftedIs`): that is
where the bound of `RoundTrip` comes from. The only marked byte of a compressed
value is its last (`CompressedIs`), therefore `Framed` holds without that bound.
Division and powers of two are built up in `CommonLemmas`; that 2^(n+1) is twice 2^n
the provers do not know, and it follows from the number of subsets of a set with n
elements (`FS_SUBSET` of the library).

*Configuration.* `ConfigInv`: the registry gives for each name the last variable
looked up by it, and every variable follows (`Follows`) the files from its `Lookup`
to the next one of its name. Against this stands what a file says: that the map
`InitFromYaml` fills holds for each name its first visit (`FirstKept`, kept by
`Insert`), and that the recursive function `Visits` exists and gives names and
places in the file (`VisitsExist`, `VisitsType`). `CallsInv` adds to the chain of
calls that there is none before a callback is set; without that the first call
would not be known to start at the value.

*Locks.* The invariant is the conjunction of `HeldExactly` and `Exclusion`, both
about the locks that have refused no call. A release undoes what its own guard
took only because of exclusion (`HolderKind`), and a lock that looks free to pthread
has no holder only because flags and lock agree (`FreeLock`); a lock that refuses
leaves the claim, and a step at one lock disturbs no other.
`RefusedOnlyNested` follows: up to the first refusal the count of readers is not
below zero, and the thread that writes does so through a guard. So does
`DeadlockNeedsNesting`: somebody holds the lock that is waited for, that guard's
thread waits too, and it waits with another guard.

*Threads.* `Life` ties the owner to `run`: the constructor returns only after
`notify`, therefore the thread is registered and has a handle; the one post is
used up by then; `run` finds a dead object only after the owner's destructor or
exception. `OneObject` reduces every step to the object it is about.

*HTTP parsers.* The invariant says what the scanner's state means for the
structure around it: `Positions` (they stay in the part of the buffer that was
read), `Body` (`body_start` is set once, by the call that ends the head), `Ghosts`
(tokens that are open between calls began earlier), `Discipline` (in a state
inside a token, `mark` or `field_start` is where the token begins, or 0 if it began
in an earlier buffer) and what the state says was reported (`Order` for requests,
`Apart` for responses). That a transition takes the meaning of its source to the
meaning of its target is a fact about the tables (`TableFacts`, through
`Disciplined` and the like); that the parser around it keeps the meaning, whatever
the bytes, the cuts and the buffer lengths, is proved. A transition has at most
three actions (four for responses), so the recursive function that applies them
is unrolled.

*Logger.* `LogInv`: what a thread inside `log` has written so far is exactly what
the places of the vector it has passed should get (`Delivered`, by an increasing
function from what was written to those places), as long as nobody changed the
vector; the level each appender has now is among those it remembers (`CalmOne`). A
message that is alone meets nobody at its streams, so that those that were clean
stay clean and its text whole (`Undamaged`).

*Formatter.* `FmtInv`: the pieces cut so far spell the pattern up to `f`. The case
of a '%' at the end needs the parity of the trailing ones: inside them the scan
stands at an even distance from where they begin (`AtStart`).

*Loggers of the configuration.* `CfgInv`: the appenders of every logger are those
of the entries before `k` (`Wanted` up to there), a logger that does not exist
counts as one without appenders, and every named entry before `k` has its logger.

*Addresses and bit registers.* Sets of bits; what matters is that masked bits lie
inside a number, and that a position one turn further shifts by the same amount
(`OneTurn`).

Induction. A theorem of the library that takes a predicate as parameter cannot be
used here. `Smallest` (a set of numbers has a smallest element) follows from the
well-foundedness of the order, which has no such parameter, and gives `Induct` for
a set of numbers. On it rest what `FlattenSeq` computes (`FlattenAppend`,
`FlattenElems`), division with remainder
(`Quotient`), powers of two, sums, the visits of a file, and that clearing the lowest bit again and again counts the bits
(`BitAmount`).

What the proofs changed in the models. Two operators (`HttpTable!TextOf`,
`Address!Call`) were `CASE`s with overlapping arms, which leaves the choice between
them open; the prover does not take the first as TLC does, and they are `IF`s now.
Four properties are stated in another, equivalent way: places given by an
increasing function instead of by a filtered sequence (`BoundAsConfigured`,
`DeliveredExactly`), texts put together entry by entry (`Source`, `Wanted`).
`Config` walked a tree with a recursive operator and `ByteArrayCodec` used bitwise
operators, which the prover cannot read; a file is a sequence of nodes now, and
the value or'ed together a sum of bits. TLC finds the same number of states as
before.

### Only model-checked

* `DataIsRead`, `ResetIsClosed`, `PendingIsAccepted`, `ConstructorEnds`: liveness
  under fairness.
* The findings: each is a counterexample.

## 6. Not modelled

* Timers beyond the instance (`addTimer`, `checkExpire`, ordering by `m_begin`):
  no program can reach them at this commit (finding 2).
* HTTP messages: `toString`, the names of methods and statuses (the method is
  looked up by a prefix comparison, and `M-SEARCH` is spelled `MSEARCH`), the
  comparison of the version with its 8 bytes, the values of lengths and statuses:
  text only.
* Logging: the reopening of files, two file appenders on one file, an appender
  whose formatter was set to null, and what each conversion of a pattern prints.
  Of `setFormat` only the race is modelled.
* Threads: a `pthread_join` that fails.
* Addresses: look-up of hosts and interfaces, conversion to text.
* `utils.cc`: clocks, ids, directory input/output; nothing to check.
* `luaState.cc`: calls into the Lua library.
* Configuration: the containers that repeat the vector's pattern, the
  conversions to text.
* Headers of third parties under `src/3rd/`, and the tools and data under
  `src/config/`.

## 7. Plan

Modelled, in the order of importance: serving, start-up, the byte queue and its
values, the two lifetimes (timer singleton, thread), configuration and logging,
locks, HTTP parsing, addresses and bit registers. What is left to model is text.

Proved, in the same order: every safety property of the passing runs. The liveness
properties stay with TLC.
