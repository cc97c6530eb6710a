------------------------------ MODULE MCSetup ------------------------------
(* The set-up of a program for TLC: the server's listeners, the subnets of    *)
(* its addresses, the loggers made from the configuration, a logger at work,  *)
(* the patterns of log lines and the bit registers of its scripts.  The       *)
(* modules meet only through the text of the configuration, which each        *)
(* chooses for itself, so a behaviour moves one of them (`part') and leaves   *)
(* the others in an initial state.                                            *)
EXTENDS Integers, TcpServerInit

CONSTANTS
    IntBits, Groups, GroupBits,                     \* of Address
    LoggerNames, LevelTexts, LogFiles, MaxDefs, MaxApps,  \* of LogConfig
    Threads, Appenders, Stdout, Levels, MaxAppenders,     \* of Logger
    PatternChars, MaxPattern,                       \* of LogFormatter
    Positions                                       \* of LuaBits

ASSUME LoggersAssumption == {MaxDefs, MaxApps} \subseteq Nat /\ LoggerNames \subseteq Nat \ {0}
ASSUME FilesAssumption == "" \notin LogFiles

ASSUME PatternAssumption == MaxPattern \in Nat /\ "%" \in PatternChars

ASSUME LoggerAssumption == Levels \subseteq Nat /\ MaxAppenders \in Nat \ {0}

\* An int is longer than an element of an IPv6 address.
ASSUME BitsAssumption ==
    /\ IntBits \in Nat /\ Groups \in Nat \ {0} /\ GroupBits \in Nat \ {0}
    /\ IntBits > GroupBits

ASSUME PositionsAssumption == Positions \subseteq Int

VARIABLES
    part,
    addr, got,
    file, k, m_loggers, written, logPhase,
    m_level, appLevel, m_logAppenders, at, event, raced, undefined,
    m_pattern, pos, f, vec, m_formatItems, done,
    val, flags

serverVars == <<info, i, phase, m_flag, m_listenFd, sockets, files>>
addrVars == <<addr, got>>
logConfigVars == <<file, k, m_loggers, written, logPhase>>
loggerVars == <<m_level, appLevel, m_logAppenders, at, event, raced, undefined>>
formatterVars == <<m_pattern, pos, f, vec, m_formatItems, done>>
bitVars == <<val, flags>>

----------------------------------------------------------------------------
\* Every IPv4 address, and every IPv6 address without a scope.
Port == 80
Elements == SUBSET (0..(GroupBits - 1))
MCIps ==
    {[family |-> 4, port |-> Port, ip |-> ip] : ip \in SUBSET (0..(IntBits - 1))} \cup
    {[family |-> 6, port |-> Port, ip |-> [n \in 0..(Groups + 1) |-> IF n < Groups THEN ip[n] ELSE {}]] :
        ip \in [0..(Groups - 1) -> Elements]}

Addr == INSTANCE Address WITH W <- IntBits, G <- Groups, B <- GroupBits,
                              Ports <- {Port, Port + 1}, Ips <- MCIps
LogCfg == INSTANCE LogConfig WITH Names <- LoggerNames, Texts <- LevelTexts,
                                  Paths <- LogFiles, phase <- logPhase
Log == INSTANCE Logger
Fmt == INSTANCE LogFormatter WITH Chars <- PatternChars, MaxLen <- MaxPattern, i <- pos
Lua == INSTANCE LuaBits WITH W <- IntBits

----------------------------------------------------------------------------
\* An initial state for each part that is left alone.
AtRest(p) == part # p

MCInit ==
    /\ part \in {"server", "address", "logConfig", "logger", "formatter", "lua"}
    /\ IF AtRest("server") THEN info = <<>> /\ m_flag = FALSE ELSE TRUE
    /\ IF AtRest("address") THEN addr = [family |-> 4, port |-> Port, ip |-> {}] ELSE TRUE
    /\ IF AtRest("logConfig") THEN file = <<>> ELSE TRUE
    /\ IF AtRest("logger")
       THEN m_level = 0 /\ appLevel = [a \in Appenders |-> 0] /\ m_logAppenders = <<>>
       ELSE TRUE
    /\ IF AtRest("formatter") THEN m_pattern = Fmt!DefaultPattern ELSE TRUE
    /\ Init /\ Addr!Init /\ LogCfg!Init /\ Log!Init
    /\ Fmt!Init /\ Lua!Init

MCNext ==
    \/ part = "server" /\ Next
       /\ UNCHANGED <<part, addrVars, logConfigVars, loggerVars, formatterVars, bitVars>>
    \/ part = "address" /\ Addr!Next
       /\ UNCHANGED <<part, serverVars, logConfigVars, loggerVars, formatterVars, bitVars>>
    \/ part = "logConfig" /\ LogCfg!Next
       /\ UNCHANGED <<part, serverVars, addrVars, loggerVars, formatterVars, bitVars>>
    \/ part = "logger" /\ Log!Next
       /\ UNCHANGED <<part, serverVars, addrVars, logConfigVars, formatterVars, bitVars>>
    \/ part = "formatter" /\ Fmt!Next
       /\ UNCHANGED <<part, serverVars, addrVars, logConfigVars, loggerVars, bitVars>>
    \/ part = "lua" /\ Lua!Next
       /\ UNCHANGED <<part, serverVars, addrVars, logConfigVars, loggerVars, formatterVars>>

MCSpec ==
    MCInit /\ [][MCNext]_<<part, serverVars, addrVars, logConfigVars, loggerVars, formatterVars, bitVars>>

----------------------------------------------------------------------------
\* The IPv4 mask, network and broadcast address are what the prefix says, for
\* every prefix but 0 (address.cc shifts by the width of an int there); those
\* of IPv6 agree with each other.
SubnetsRight == part = "address" => Addr!TypeOK /\ Addr!SubnetsRight

\* Once LogIniter is through, every logger has the appenders of all its entries
\* in the order of the file.
AppendersAsConfigured == part = "logConfig" => LogCfg!TypeOK /\ LogCfg!AppendersAsConfigured

\* A message during which nobody changed the logger's appenders is written once
\* for each of them that its level passes, in their order; its text is damaged
\* only if another thread was in log(), or two had raced for its stream before.
DeliveredExactly == [](part = "logger" => Log!TypeOK) /\ Log!DeliveredExactly

\* LogFormatter::init loses, repeats and moves nothing of the pattern, but for
\* the text before a '%' at its very end.
PatternKept == part = "formatter" => Fmt!TypeOK /\ Fmt!PatternKept

\* The Lua function getBit gives what setBit set last, and getBitAmount counts
\* the bits that are set.
BitsKept == part = "lua" => Lua!TypeOK /\ Lua!BitsKept
=============================================================================
