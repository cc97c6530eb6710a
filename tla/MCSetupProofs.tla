--------------------------- MODULE MCSetupProofs ---------------------------
(* Parts that a program uses beside its server, for every value of the        *)
(* constants: the subnets of addresses of any length (Address), a logger that *)
(* any number of threads use without a lock (Logger), the cutting of patterns *)
(* (LogFormatter), the loggers of any configuration (LogConfig), and the bit  *)
(* registers of scripts (LuaBits).  A step of another part leaves their       *)
(* variables alone.                                                           *)
EXTENDS MCSetup, CommonLemmas

----------------------------------------------------------------------------
(* The subnets.                                                               *)

\* What Host4 and Masked6 mask is inside a number.
LEMMA MaskedBits ==
    ASSUME NEW prefix \in Nat
    PROVE  /\ Addr!Host4(prefix) \subseteq 0..(IntBits - 1)
           /\ Addr!Masked6(prefix) \subseteq 0..(GroupBits - 1)
           /\ Addr!Mid(prefix) \in Int
<1>1. (IntBits - prefix) % IntBits \in 0..(IntBits - 1) BY BitsAssumption
<1>2. prefix % GroupBits \in 0..(GroupBits - 1) /\ prefix \div GroupBits \in Int BY BitsAssumption
<1>3. Addr!Host4(prefix) \subseteq 0..(IntBits - 1)
  BY <1>1, BitsAssumption DEF Addr!Host4, Addr!LowBits
<1>4. Addr!Masked6(prefix) \subseteq 0..(GroupBits - 1)
  BY <1>2, BitsAssumption DEF Addr!Masked6
<1> QED BY <1>2, <1>3, <1>4 DEF Addr!Mid

\* The results of a call are addresses.
LEMMA SubnetType ==
    ASSUME NEW a \in Addr!IPv4 \cup Addr!IPv6, NEW prefix \in Nat
    PROVE  {Addr!Broadcast(a, prefix), Addr!Network(a, prefix), Addr!Subnetmask(a, prefix)}
             \subseteq Addr!IPv4 \cup Addr!IPv6
<1> DEFINE host == Addr!Host4(prefix)
           low == Addr!Masked6(prefix)
           mid == Addr!Mid(prefix)
           Num == SUBSET (0..(GroupBits - 1))
           all == 0..(GroupBits - 1)
<1>1. host \subseteq 0..(IntBits - 1) /\ low \subseteq all BY MaskedBits
<1> HIDE DEF host, low, mid
<1>2. CASE a.family = 4
  <2>1. a \in Addr!IPv4 BY <1>2 DEF Addr!IPv6
  <2>2. Addr!getBroadcast4(a, prefix) \in Addr!IPv4
    BY <1>1, <2>1 DEF Addr!getBroadcast4, Addr!IPv4, host
  <2>3. Addr!getNetwork4(a, prefix) \in Addr!IPv4
    BY <1>1, <2>1 DEF Addr!getNetwork4, Addr!IPv4, host
  <2>4. Addr!getSubnetmask4(a, prefix) \in Addr!IPv4
    BY <1>1, <2>1 DEF Addr!getSubnetmask4, Addr!IPv4, host
  <2> QED BY <1>2, <2>2, <2>3, <2>4 DEF Addr!Broadcast, Addr!Network, Addr!Subnetmask
<1>3. CASE a.family # 4
  <2>1. a \in Addr!IPv6 BY <1>3 DEF Addr!IPv4
  <2>2. a.ip \in [0..(Groups + 1) -> Num] /\ a.port \in {Port, Port + 1} BY <2>1 DEF Addr!IPv6
  <2>3. ASSUME NEW g \in [0..(Groups + 1) -> Num] PROVE [a EXCEPT !.ip = g] \in Addr!IPv6
    BY <2>1, <2>3 DEF Addr!IPv6
  <2>4. Addr!getBroadcast6(a, prefix) \in Addr!IPv6
    <3> DEFINE g == [j \in DOMAIN a.ip |-> CASE j = mid -> a.ip[j] \cup low
                                             [] j > mid /\ j < Groups -> all
                                             [] OTHER -> a.ip[j]]
    <3>1. Addr!getBroadcast6(a, prefix) = [a EXCEPT !.ip = g]
      BY <2>1 DEF Addr!getBroadcast6, Addr!IPv6, low, mid
    <3>2. g \in [0..(Groups + 1) -> Num] BY <1>1, <2>2
    <3> HIDE DEF g
    <3> QED BY <2>3, <3>1, <3>2
  <2>5. Addr!getNetwork6(a, prefix) \in Addr!IPv6
    <3> DEFINE g == [j \in DOMAIN a.ip |-> CASE j = mid -> a.ip[j] \ low
                                             [] j > mid /\ j < Groups -> {}
                                             [] OTHER -> a.ip[j]]
    <3>1. Addr!getNetwork6(a, prefix) = [a EXCEPT !.ip = g]
      BY <2>1 DEF Addr!getNetwork6, Addr!IPv6, low, mid
    <3>2. g \in [0..(Groups + 1) -> Num] BY <1>1, <2>2
    <3> HIDE DEF g
    <3> QED BY <2>3, <3>1, <3>2
  <2>6. Addr!getSubnetmask6(a, prefix) \in Addr!IPv6
    <3> DEFINE g == [j \in 0..(Groups + 1) |-> CASE j = mid -> all \ low
                                                 [] j < mid -> all
                                                 [] OTHER -> {}]
    <3>1. Addr!getSubnetmask6(a, prefix) = [family |-> 0, port |-> a.port, ip |-> g]
      BY DEF Addr!getSubnetmask6, low, mid
    <3>2. g \in [0..(Groups + 1) -> Num] BY <1>1
    <3> HIDE DEF g
    <3> QED BY <2>2, <3>1, <3>2 DEF Addr!IPv6
  <2> QED BY <1>3, <2>4, <2>5, <2>6 DEF Addr!Broadcast, Addr!Network, Addr!Subnetmask
<1> QED BY <1>2, <1>3

LEMMA AddressInit == MCInit => Addr!TypeOK
<1> SUFFICES ASSUME MCInit PROVE Addr!TypeOK OBVIOUS
<1>1. addr \in MCIps /\ got.res = {} BY DEF MCInit, Addr!Init, Addr!Nullptr
<1>2. CASE \E ip \in SUBSET (0..(IntBits - 1)) : addr = [family |-> 4, port |-> Port, ip |-> ip]
  <2>1. addr \in Addr!IPv4 BY <1>2 DEF Addr!IPv4
  <2> QED BY <1>1, <2>1 DEF Addr!TypeOK
<1>3. ASSUME NEW ip \in [0..(Groups - 1) -> Elements],
             addr = [family |-> 6, port |-> Port,
                     ip |-> [n \in 0..(Groups + 1) |-> IF n < Groups THEN ip[n] ELSE {}]]
      PROVE  Addr!TypeOK
  <2> DEFINE g == [n \in 0..(Groups + 1) |-> IF n < Groups THEN ip[n] ELSE {}]
  <2>1. g \in [0..(Groups + 1) -> SUBSET (0..(GroupBits - 1))] BY BitsAssumption DEF Elements
  <2>2. addr = [family |-> 6, port |-> Port, ip |-> g] BY <1>3
  <2> HIDE DEF g
  <2>3. addr \in Addr!IPv6 BY <2>1, <2>2 DEF Addr!IPv6
  <2> QED BY <1>1, <2>3 DEF Addr!TypeOK
<1> QED BY <1>1, <1>2, <1>3 DEF MCIps

LEMMA AddressStep ==
    Addr!TypeOK /\ [MCNext]_<<part, serverVars, addrVars, logConfigVars, loggerVars, formatterVars, bitVars>>
      => Addr!TypeOK'
<1> SUFFICES ASSUME Addr!TypeOK,
                    [MCNext]_<<part, serverVars, addrVars, logConfigVars, loggerVars, formatterVars, bitVars>>
             PROVE  Addr!TypeOK'
  OBVIOUS
<1>1. CASE addrVars' = addrVars BY <1>1 DEF addrVars, Addr!TypeOK, Addr!IPv4, Addr!IPv6
<1>2. CASE Addr!Next
  <2>1. ASSUME NEW op \in {"broadcast", "network", "mask"}, NEW prefix \in 0..(Addr!Bits(addr) + 1),
               Addr!Call(op, prefix)
        PROVE  Addr!TypeOK'
    <3>1. prefix \in Nat BY BitsAssumption DEF Addr!Bits
    <3>2. addr' = addr /\ addr \in Addr!IPv4 \cup Addr!IPv6 BY <2>1 DEF Addr!Call, Addr!TypeOK
    <3>3. got'.res \subseteq {Addr!Broadcast(addr, prefix), Addr!Network(addr, prefix),
                              Addr!Subnetmask(addr, prefix)}
      BY <2>1 DEF Addr!Call, Addr!Nullptr
    <3>4. got'.res \subseteq Addr!IPv4 \cup Addr!IPv6 BY <3>1, <3>2, <3>3, SubnetType
    <3> QED BY <3>2, <3>4 DEF Addr!TypeOK, Addr!IPv4, Addr!IPv6
  <2>2. CASE Addr!Take
    BY <2>2 DEF Addr!Take, Addr!Nullptr, Addr!TypeOK, Addr!IPv4, Addr!IPv6
  <2>3. ASSUME NEW port \in {Port, Port + 1}, Addr!setPort(port) PROVE Addr!TypeOK'
    <3>1. addr' = [addr EXCEPT !.port = port] /\ got' = got BY <2>3 DEF Addr!setPort
    <3>2. addr \in Addr!IPv4 => addr' \in Addr!IPv4 BY <3>1 DEF Addr!IPv4
    <3>3. addr \in Addr!IPv6 => addr' \in Addr!IPv6 BY <3>1 DEF Addr!IPv6
    <3> QED BY <3>1, <3>2, <3>3 DEF Addr!TypeOK
  <2> QED BY <1>2, <2>1, <2>2, <2>3 DEF Addr!Next
<1> QED BY <1>1, <1>2 DEF MCNext

\* The prefix of an IPv4 address and the bits of its host are the whole.
LEMMA Subnet4 == Addr!TypeOK => Addr!Subnet4Right
<1> SUFFICES ASSUME Addr!TypeOK, addr.family = 4, NEW prefix \in 1..IntBits
             PROVE  /\ Addr!getSubnetmask4(addr, prefix).ip = Addr!First(prefix)
                    /\ Addr!getNetwork4(addr, prefix).ip = addr.ip \cap Addr!First(prefix)
                    /\ Addr!getBroadcast4(addr, prefix).ip =
                         addr.ip \cup ((0..(IntBits - 1)) \ Addr!First(prefix))
  BY DEF Addr!Subnet4Right
<1>1. addr \in Addr!IPv4 BY DEF Addr!TypeOK, Addr!IPv6
<1>2. addr.ip \subseteq 0..(IntBits - 1) BY <1>1 DEF Addr!IPv4
<1>3. (IntBits - prefix) % IntBits = IntBits - prefix BY BitsAssumption
<1>4. Addr!Host4(prefix) = 0..((IntBits - prefix) - 1) BY <1>3 DEF Addr!Host4, Addr!LowBits
<1>5. Addr!First(prefix) = (0..(IntBits - 1)) \ Addr!Host4(prefix)
  BY <1>4, BitsAssumption DEF Addr!First
<1>6. Addr!Host4(prefix) \subseteq 0..(IntBits - 1) BY <1>4, BitsAssumption
<1>7. /\ Addr!getSubnetmask4(addr, prefix).ip = (0..(IntBits - 1)) \ Addr!Host4(prefix)
      /\ Addr!getNetwork4(addr, prefix).ip = addr.ip \ Addr!Host4(prefix)
      /\ Addr!getBroadcast4(addr, prefix).ip = addr.ip \cup Addr!Host4(prefix)
  BY <1>1 DEF Addr!IPv4, Addr!getSubnetmask4, Addr!getNetwork4, Addr!getBroadcast4
<1> QED BY <1>2, <1>5, <1>6, <1>7

\* The elements of an IPv6 address before, at and behind the end of the prefix.
LEMMA Subnet6 == Addr!TypeOK => Addr!Subnet6Agrees
<1> SUFFICES ASSUME Addr!TypeOK, addr.family # 4,
                    NEW prefix \in 0..(Groups * GroupBits), NEW j \in 0..(Groups - 1)
             PROVE  /\ Addr!getNetwork6(addr, prefix).ip[j] =
                         addr.ip[j] \cap Addr!getSubnetmask6(addr, prefix).ip[j]
                    /\ Addr!getBroadcast6(addr, prefix).ip[j] =
                         addr.ip[j] \cup ((0..(GroupBits - 1)) \ Addr!getSubnetmask6(addr, prefix).ip[j])
  BY DEF Addr!Subnet6Agrees
<1> DEFINE low == Addr!Masked6(prefix)
           mid == Addr!Mid(prefix)
           all == 0..(GroupBits - 1)
           x == addr.ip[j]
<1>1. addr \in Addr!IPv6 BY DEF Addr!TypeOK, Addr!IPv4
<1>2. prefix \in Nat BY BitsAssumption
<1>3. low \subseteq all /\ mid \in Int BY <1>2, MaskedBits
<1>4. DOMAIN addr.ip = 0..(Groups + 1) /\ j \in 0..(Groups + 1) /\ j < Groups
  BY <1>1, BitsAssumption DEF Addr!IPv6
<1>5. x \subseteq all BY <1>1, <1>4 DEF Addr!IPv6
<1> HIDE DEF low, mid
<1>6. Addr!getNetwork6(addr, prefix).ip[j] = CASE j = mid -> x \ low
                                               [] j > mid /\ j < Groups -> {}
                                               [] OTHER -> x
  BY <1>1, <1>4 DEF Addr!getNetwork6, Addr!IPv6, low, mid
<1>7. Addr!getBroadcast6(addr, prefix).ip[j] = CASE j = mid -> x \cup low
                                                 [] j > mid /\ j < Groups -> all
                                                 [] OTHER -> x
  BY <1>1, <1>4 DEF Addr!getBroadcast6, Addr!IPv6, low, mid
<1>8. Addr!getSubnetmask6(addr, prefix).ip[j] = CASE j = mid -> all \ low
                                                  [] j < mid -> all
                                                  [] OTHER -> {}
  BY <1>4 DEF Addr!getSubnetmask6, low, mid
<1>9. j = mid \/ j < mid \/ (j > mid /\ j # mid) BY <1>3
<1> HIDE DEF x, all
<1> QED BY <1>3, <1>4, <1>5, <1>6, <1>7, <1>8, <1>9 DEF x, all

\* Mask, network and broadcast address of every address of either family are
\* those of one subnet, for addresses and elements of any length: those of IPv4
\* are what the prefix says, except for the prefix 0.
THEOREM SubnetsTheorem == MCSpec => []SubnetsRight
<1>1. Addr!TypeOK => SubnetsRight BY Subnet4, Subnet6 DEF SubnetsRight, Addr!SubnetsRight
<1> QED BY <1>1, AddressInit, AddressStep, PTL DEF MCSpec

----------------------------------------------------------------------------
(* The logger.                                                                *)

Event == [level : Nat, n : Nat, due : Seq(Appenders), levels : [Appenders -> SUBSET Nat],
          wrote : Seq(Appenders), damaged : BOOLEAN, clean : BOOLEAN, alone : BOOLEAN,
          calm : BOOLEAN]

\* A record written over with what it holds is the same.
LEMMA SameEvent ==
    ASSUME NEW e \in Event
    PROVE  [e EXCEPT !.wrote = e.wrote, !.damaged = e.damaged] = e
BY DEF Event

\* As long as a message is alone nobody else is in log(), and so nobody races
\* for a stream that was clean.
Undamaged(t) ==
    /\ \A u \in Threads \ {t} : ~Log!InLog(u)
    /\ event[t].clean => ~event[t].damaged
    /\ event[t].clean => \A p \in 1..Len(event[t].due) : Log!StreamOf(event[t].due[p]) \notin raced

\* A calm message has passed its first n appenders, or is writing to the n-th;
\* its vector is the logger's, whose levels it knows.
CalmOne(t) ==
    /\ event[t].n <= Len(event[t].due) /\ event[t].due = m_logAppenders
    /\ \A p \in 1..Len(event[t].due) :
          appLevel[event[t].due[p]] \in event[t].levels[event[t].due[p]]
    /\ at[t] = "walk" => Log!Delivered(event[t], event[t].n)
    /\ at[t] = "write" => /\ Log!Delivered(event[t], event[t].n - 1)
                          /\ \E l \in event[t].levels[event[t].due[event[t].n]] : event[t].level >= l
    /\ event[t].alone => Undamaged(t)

\* A message that is in log().
OnItsWay(t) ==
    /\ event[t].n <= MaxAppenders
    /\ at[t] = "write" => event[t].n \in 1..Len(event[t].due)
    /\ event[t].calm => CalmOne(t)

LogTypes ==
    /\ m_level \in Levels /\ appLevel \in [Appenders -> Levels]
    /\ m_logAppenders \in Seq(Appenders) /\ Len(m_logAppenders) <= MaxAppenders
    /\ at \in [Threads -> {"idle", "walk", "write"}]
    /\ event \in [Threads -> Event]

\* The inductive invariant of the logger.
LogInv ==
    /\ LogTypes
    /\ \A t \in Threads : IF Log!InLog(t) THEN OnItsWay(t) ELSE event[t] = Log!NoEvent

\* A message that has not been written yet.
LEMMA DeliveredNone ==
    ASSUME NEW e, e.wrote = <<>>
    PROVE  Log!Delivered(e, 0)
<1> DEFINE place == [j \in DOMAIN e.wrote |-> 1]
<1>1. DOMAIN e.wrote = {} OBVIOUS
<1>2. place \in [DOMAIN e.wrote -> 1..0] BY <1>1
<1>3. DOMAIN place = {} /\ 1..0 = {} BY <1>1
<1> HIDE DEF place
<1>4. \A j \in DOMAIN place : FALSE BY <1>3
<1>5. \A p \in 1..0 : FALSE BY <1>3
<1> QED BY <1>2, <1>4, <1>5 DEF Log!Delivered

\* One more place, whose appender has not let the message pass.
LEMMA DeliveredOver ==
    ASSUME NEW e, NEW ev, NEW n \in Nat, Log!Delivered(e, n),
           \E l \in e.levels[e.due[n + 1]] : e.level < l,
           ev.due = e.due, ev.level = e.level, ev.wrote = e.wrote, ev.levels = e.levels
    PROVE  Log!Delivered(ev, n + 1)
<1>1. PICK place \in [DOMAIN e.wrote -> 1..n] :
        /\ \A j, l \in DOMAIN place : j < l => place[j] < place[l]
        /\ \A j \in DOMAIN place : e.wrote[j] = e.due[place[j]]
        /\ \A p \in 1..n : IF \E j \in DOMAIN place : place[j] = p
                           THEN \E l \in e.levels[e.due[p]] : e.level >= l
                           ELSE \E l \in e.levels[e.due[p]] : e.level < l
  BY DEF Log!Delivered
<1>2. place \in [DOMAIN ev.wrote -> 1..(n + 1)] BY <1>1
<1>3. ASSUME NEW p \in 1..(n + 1)
      PROVE  IF \E j \in DOMAIN place : place[j] = p
             THEN \E l \in ev.levels[ev.due[p]] : ev.level >= l
             ELSE \E l \in ev.levels[ev.due[p]] : ev.level < l
  <2>1. p \in 1..n \/ p = n + 1 OBVIOUS
  <2>2. \A j \in DOMAIN place : place[j] # n + 1 BY <1>1
  <2>3. CASE p \in 1..n BY <1>1, <2>3
  <2>4. CASE p = n + 1 BY <2>2, <2>4
  <2> QED BY <2>1, <2>3, <2>4
<1> QED BY <1>1, <1>2, <1>3 DEF Log!Delivered

\* One more place, whose appender let the message pass and wrote it.
LEMMA DeliveredNext ==
    ASSUME NEW e \in Event, NEW ev, NEW n \in Nat, Log!Delivered(e, n),
           \E l \in e.levels[e.due[n + 1]] : e.level >= l,
           ev.due = e.due, ev.level = e.level, ev.levels = e.levels,
           ev.wrote = Append(e.wrote, e.due[n + 1])
    PROVE  Log!Delivered(ev, n + 1)
<1>1. PICK place \in [DOMAIN e.wrote -> 1..n] :
        /\ \A j, l \in DOMAIN place : j < l => place[j] < place[l]
        /\ \A j \in DOMAIN place : e.wrote[j] = e.due[place[j]]
        /\ \A p \in 1..n : IF \E j \in DOMAIN place : place[j] = p
                           THEN \E l \in e.levels[e.due[p]] : e.level >= l
                           ELSE \E l \in e.levels[e.due[p]] : e.level < l
  BY DEF Log!Delivered
<1> DEFINE m == Len(e.wrote)
           D == 1..(m + 1)
           more == [j \in D |-> IF j = m + 1 THEN n + 1 ELSE place[j]]
<1>2. e.wrote \in Seq(Appenders) BY DEF Event
<1>3. m \in Nat /\ DOMAIN e.wrote = 1..m BY <1>2
<1>4. DOMAIN ev.wrote = D /\ ev.wrote[m + 1] = e.due[n + 1]
      /\ \A j \in 1..m : ev.wrote[j] = e.wrote[j]
  BY <1>2
<1> HIDE DEF m
<1>5. \A j \in 1..m : j \in D /\ more[j] = place[j] /\ place[j] \in 1..n BY <1>1, <1>3
<1>6. m + 1 \in D /\ more[m + 1] = n + 1 BY <1>3
<1>7. \A j \in D : j \in 1..m \/ j = m + 1 BY <1>3
<1>8. more \in [DOMAIN ev.wrote -> 1..(n + 1)] /\ DOMAIN more = D
  BY <1>4, <1>5, <1>6, <1>7
<1>9. DOMAIN place = 1..m BY <1>1, <1>3
<1> HIDE DEF more, D
<1>10. ASSUME NEW j \in D, NEW l \in D, j < l PROVE more[j] < more[l]
  <2>1. j \in 1..m BY <1>3, <1>7, <1>10
  <2>2. CASE l \in 1..m BY <1>1, <1>5, <1>9, <1>10, <2>1, <2>2
  <2>3. CASE l = m + 1 BY <1>5, <1>6, <2>1, <2>3
  <2> QED BY <1>7, <2>2, <2>3
<1>11. ASSUME NEW j \in D PROVE ev.wrote[j] = ev.due[more[j]]
  <2>1. CASE j \in 1..m BY <1>1, <1>4, <1>5, <1>9, <2>1
  <2>2. CASE j = m + 1 BY <1>4, <1>6, <2>2
  <2> QED BY <1>7, <2>1, <2>2
<1>12. ASSUME NEW p \in 1..(n + 1)
       PROVE  IF \E j \in D : more[j] = p
              THEN \E l \in ev.levels[ev.due[p]] : ev.level >= l
              ELSE \E l \in ev.levels[ev.due[p]] : ev.level < l
  <2>1. CASE p \in 1..n
    <3>1. n + 1 # p BY <2>1
    <3>2. (\E j \in D : more[j] = p) <=> \E j \in DOMAIN place : place[j] = p
      BY <1>5, <1>6, <1>7, <1>9, <3>1
    <3> QED BY <1>1, <2>1, <3>2
  <2>2. CASE p = n + 1 BY <1>6, <2>2
  <2> QED BY <2>1, <2>2
<1>13. \A j, l \in DOMAIN more : j < l => more[j] < more[l] BY <1>8, <1>10
<1>14. \A j \in DOMAIN more : ev.wrote[j] = ev.due[more[j]] BY <1>8, <1>11
<1>15. \A p \in 1..(n + 1) : IF \E j \in DOMAIN more : more[j] = p
                           THEN \E l \in ev.levels[ev.due[p]] : ev.level >= l
                           ELSE \E l \in ev.levels[ev.due[p]] : ev.level < l
  BY <1>8, <1>12
<1>16. more \in [DOMAIN ev.wrote -> 1..(n + 1)] BY <1>8
<1> QED BY <1>13, <1>14, <1>15, <1>16 DEF Log!Delivered

\* Nothing else about a message matters, and more levels do no harm.
LEMMA DeliveredSame ==
    ASSUME NEW e, NEW ev, NEW n, Log!Delivered(e, n),
           ev.due = e.due, ev.level = e.level, ev.wrote = e.wrote,
           \A p \in 1..n : e.levels[e.due[p]] \subseteq ev.levels[e.due[p]]
    PROVE  Log!Delivered(ev, n)
<1>1. PICK place \in [DOMAIN e.wrote -> 1..n] :
        /\ \A j, l \in DOMAIN place : j < l => place[j] < place[l]
        /\ \A j \in DOMAIN place : e.wrote[j] = e.due[place[j]]
        /\ \A p \in 1..n : IF \E j \in DOMAIN place : place[j] = p
                           THEN \E l \in e.levels[e.due[p]] : e.level >= l
                           ELSE \E l \in e.levels[e.due[p]] : e.level < l
  BY DEF Log!Delivered
<1>2. \A p \in 1..n : IF \E j \in DOMAIN place : place[j] = p
                      THEN \E l \in ev.levels[ev.due[p]] : ev.level >= l
                      ELSE \E l \in ev.levels[ev.due[p]] : ev.level < l
  BY <1>1
<1> QED BY <1>1, <1>2 DEF Log!Delivered

\* delAppender makes the vector shorter by one.
LEMMA RemoveType ==
    ASSUME NEW s \in Seq(Appenders), NEW a \in Log!ToSet(s)
    PROVE  Log!RemoveFirst(s, a) \in Seq(Appenders) /\ Len(Log!RemoveFirst(s, a)) = Len(s) - 1
<1> DEFINE I == {j \in 1..Len(s) : s[j] = a}
           n == Log!Min(I)
<1>1. Len(s) \in Nat /\ DOMAIN s = 1..Len(s) OBVIOUS
<1>2. I \subseteq Nat /\ I # {} BY <1>1 DEF Log!ToSet
<1>3. \E x \in I : \A y \in I : x <= y BY <1>2, Smallest
<1>4. n \in I BY <1>3 DEF Log!Min
<1>5. Log!RemoveFirst(s, a) = Log!RemoveAt(s, n)
  <2>1. \E j \in 1..Len(s) : s[j] = a BY <1>2
  <2> QED BY <1>2, <2>1 DEF Log!RemoveFirst, Log!SelectInSeq
<1> HIDE DEF n
<1>6. n \in 1..Len(s) BY <1>4
<1> DEFINE u == SubSeq(s, 1, n - 1)
           v == SubSeq(s, n + 1, Len(s))
<1>7. u \in Seq(Appenders) /\ Len(u) = n - 1 BY <1>1, <1>6
<1>8. v \in Seq(Appenders) /\ Len(v) = Len(s) - n
  <2>1. \A j \in (n + 1)..Len(s) : s[j] \in Appenders BY <1>1, <1>6
  <2>2. v \in Seq(Appenders) /\ Len(v) = IF n + 1 <= Len(s) THEN (Len(s) - (n + 1)) + 1 ELSE 0
    BY <1>1, <1>6, <2>1, SubSeqProperties
  <2> HIDE DEF v
  <2>3. CASE n = Len(s)
    <3>1. ~(n + 1 <= Len(s)) /\ Len(s) - n = 0 BY <1>1, <2>3
    <3> QED BY <2>2, <3>1
  <2>4. CASE n # Len(s)
    <3>1. \A a1, b1 \in Nat : a1 <= b1 /\ a1 # b1
             => a1 + 1 <= b1 /\ (b1 - (a1 + 1)) + 1 = b1 - a1
      OBVIOUS
    <3>2. n \in Nat /\ n <= Len(s) BY <1>1, <1>6
    <3>3. n + 1 <= Len(s) /\ (Len(s) - (n + 1)) + 1 = Len(s) - n BY ONLY <1>1, <2>4, <3>1, <3>2
    <3> QED BY <2>2, <3>3
  <2> QED BY <2>3, <2>4
<1>9. Log!RemoveFirst(s, a) = u \o v BY <1>5 DEF Log!RemoveAt
<1> HIDE DEF u, v
<1>10. u \o v \in Seq(Appenders) /\ Len(u \o v) = Len(u) + Len(v) BY <1>7, <1>8
<1> QED BY <1>1, <1>6, <1>7, <1>8, <1>9, <1>10

LEMMA LogInitial == MCInit => LogInv
<1> SUFFICES ASSUME MCInit PROVE LogInv OBVIOUS
<1>1. Log!Init BY DEF MCInit
<1>2. Log!NoEvent \in Event BY DEF Log!NoEvent, Event
<1>3. \A t \in Threads : ~Log!InLog(t) /\ event[t] = Log!NoEvent BY <1>1 DEF Log!Init, Log!InLog
<1>4. LogTypes
  <2>1. m_logAppenders = <<>> \/ \E a \in Appenders : m_logAppenders = <<a>> BY <1>1 DEF Log!Init
  <2>2. m_logAppenders \in Seq(Appenders) /\ Len(m_logAppenders) <= 1
    <3>1. CASE m_logAppenders = <<>> BY <3>1
    <3>2. ASSUME NEW a \in Appenders, m_logAppenders = <<a>>
          PROVE  m_logAppenders \in Seq(Appenders) /\ Len(m_logAppenders) <= 1
      BY <3>2
    <3> QED BY <2>1, <3>1, <3>2
  <2> HIDE DEF Event
  <2> QED BY <1>1, <1>2, <2>2, LoggerAssumption DEF Log!Init, LogTypes
<1> QED BY <1>3, <1>4 DEF LogInv

\* A message that is in log() has a type and is on its way.
LEMMA InLogFacts ==
    ASSUME LogInv, NEW t \in Threads
    PROVE  /\ event[t] \in Event /\ at[t] \in {"idle", "walk", "write"}
           /\ Log!InLog(t) => OnItsWay(t)
           /\ ~Log!InLog(t) => event[t] = Log!NoEvent
BY DEF LogInv, LogTypes

\* Two messages that are in log() are not alone.
LEMMA NotAlone ==
    ASSUME LogInv, NEW t \in Threads, NEW u \in Threads, t # u,
           Log!InLog(t), Log!InLog(u), event[u].calm
    PROVE  ~event[u].alone
<1>1. CalmOne(u) BY InLogFacts DEF OnItsWay
<1> QED BY <1>1 DEF CalmOne, Undamaged

\* A message is on its way as before when only its levels grew with those of
\* the appenders, and its calm and its loneliness may have got lost.
LEMMA Quiet ==
    ASSUME LogInv, NEW u \in Threads, Log!InLog(u), at'[u] = at[u],
           event'[u].n = event[u].n, event'[u].due = event[u].due,
           event'[u].level = event[u].level, event'[u].wrote = event[u].wrote,
           event'[u].calm => event[u].calm /\ m_logAppenders' = m_logAppenders,
           \A a \in Appenders : /\ event[u].levels[a] \subseteq event'[u].levels[a]
                                /\ appLevel[a] \in event[u].levels[a] =>
                                       appLevel'[a] \in event'[u].levels[a],
           event'[u].calm /\ event'[u].alone =>
               /\ event[u].alone /\ event'[u].damaged = event[u].damaged
               /\ event'[u].clean = event[u].clean /\ raced' = raced
               /\ \A w \in Threads \ {u} : Log!InLog(w)' => Log!InLog(w)
    PROVE  OnItsWay(u)'
<1>1. OnItsWay(u) /\ event[u] \in Event BY InLogFacts
<1>2. event[u].due \in Seq(Appenders) /\ event[u].n \in Nat BY <1>1 DEF Event
<1>3. ASSUME event'[u].calm PROVE CalmOne(u)'
  <2>1. CalmOne(u) BY <1>1, <1>3 DEF OnItsWay
  <2>2. \A p \in 1..Len(event[u].due) : event[u].due[p] \in Appenders BY <1>2
  <2>3. \A p \in 1..Len(event[u].due) :
            event[u].levels[event[u].due[p]] \subseteq event'[u].levels[event[u].due[p]]
    BY <2>2
  <2>4. \A p \in 1..Len(event[u].due) :
            appLevel'[event[u].due[p]] \in event'[u].levels[event[u].due[p]]
    BY <2>1, <2>2 DEF CalmOne
  <2>5. event[u].n <= Len(event[u].due) /\ Len(event[u].due) \in Nat BY <1>2, <2>1 DEF CalmOne
  <2>6. at'[u] = "walk" => Log!Delivered(event'[u], event'[u].n)
    <3>1. \A p \in 1..event[u].n : p \in 1..Len(event[u].due) BY <1>2, <2>5
    <3> QED BY <2>1, <2>3, <3>1, DeliveredSame DEF CalmOne
  <2>7. at'[u] = "write" => Log!Delivered(event'[u], event'[u].n - 1)
    <3>1. \A p \in 1..(event[u].n - 1) : p \in 1..Len(event[u].due) BY <1>2, <2>5
    <3> QED BY <2>1, <2>3, <3>1, DeliveredSame DEF CalmOne
  <2>8. at'[u] = "write" =>
            \E l \in event'[u].levels[event'[u].due[event'[u].n]] : event'[u].level >= l
    <3>1. at[u] = "write" => event[u].n \in 1..Len(event[u].due) BY <1>1 DEF OnItsWay
    <3> QED BY <2>1, <2>3, <3>1 DEF CalmOne
  <2>9. event'[u].alone => Undamaged(u)' BY <1>3, <2>1 DEF CalmOne, Undamaged
  <2> QED BY <1>3, <2>1, <2>4, <2>6, <2>7, <2>8, <2>9 DEF CalmOne
<1> QED BY <1>1, <1>3 DEF OnItsWay

\* A step of one thread t: what is left to show is where t's own message is,
\* and that the others' messages are as they were.
LEMMA OneThread ==
    ASSUME LogInv, LogTypes', NEW t \in Threads, Log!InLog(t),
           appLevel' = appLevel, m_logAppenders' = m_logAppenders,
           IF Log!InLog(t)' THEN OnItsWay(t)' ELSE event'[t] = Log!NoEvent,
           \A u \in Threads \ {t} :
               /\ at'[u] = at[u]
               /\ event'[u] = event[u] \/ (Log!InLog(u) /\ event'[u] = [event[u] EXCEPT !.damaged = TRUE])
    PROVE  LogInv'
<1>1. ASSUME NEW u \in Threads, u # t
      PROVE  IF Log!InLog(u)' THEN OnItsWay(u)' ELSE event'[u] = Log!NoEvent
  <2>1. event[u] \in Event BY InLogFacts
  <2>2. CASE Log!InLog(u)
    <3>1. event'[u] = event[u] \/ event'[u] = [event[u] EXCEPT !.damaged = TRUE] BY <1>1
    <3>2. /\ event'[u].n = event[u].n /\ event'[u].due = event[u].due
          /\ event'[u].level = event[u].level /\ event'[u].wrote = event[u].wrote
          /\ event'[u].calm = event[u].calm /\ event'[u].alone = event[u].alone
          /\ event'[u].levels = event[u].levels
      BY <2>1, <3>1 DEF Event
    <3>3. at'[u] = at[u] BY <1>1
    <3>4. event'[u].calm => ~event'[u].alone BY <1>1, <2>2, <3>2, NotAlone
    <3>5. OnItsWay(u)' BY <2>2, <3>2, <3>3, <3>4, Quiet
    <3> QED BY <2>2, <3>3, <3>5 DEF Log!InLog
  <2>3. CASE ~Log!InLog(u)
    <3>1. event'[u] = event[u] /\ at'[u] = at[u] BY <1>1, <2>3
    <3> QED BY <2>3, <3>1, InLogFacts DEF Log!InLog
  <2> QED BY <2>2, <2>3
<1>2. ASSUME NEW u \in Threads
      PROVE  IF Log!InLog(u)' THEN OnItsWay(u)' ELSE event'[u] = Log!NoEvent
  <2>1. CASE u = t BY <2>1
  <2>2. CASE u # t BY <1>1, <2>2
  <2> QED BY <2>1, <2>2
<1> QED BY <1>2 DEF LogInv, Log!NoEvent

\* A new message.
LEMMA NewEventFacts ==
    ASSUME LogInv, NEW level \in Levels, NEW e, e = Log!NewEvent(level)
    PROVE  /\ e \in Event /\ e.n = 0 /\ e.due = m_logAppenders /\ e.wrote = <<>> /\ e.calm
           /\ ~e.damaged
           /\ \A p \in 1..Len(m_logAppenders) : appLevel[m_logAppenders[p]] \in e.levels[m_logAppenders[p]]
           /\ e.alone => \A u \in Threads : ~Log!InLog(u)
           /\ e.clean => \A p \in 1..Len(m_logAppenders) : Log!StreamOf(m_logAppenders[p]) \notin raced
<1>1. LogTypes /\ level \in Nat BY LoggerAssumption DEF LogInv
<1> DEFINE L == Log!ToSet(m_logAppenders)
           lev == [a \in Appenders |-> IF a \in L THEN {appLevel[a]} ELSE {}]
           cl == \A a \in L : Log!StreamOf(a) \notin raced
           al == \A u \in Threads : ~Log!InLog(u)
<1>2. m_logAppenders \in Seq(Appenders) /\ \A a \in Appenders : appLevel[a] \in Nat
  BY <1>1, LoggerAssumption DEF LogTypes
<1>3. \A p \in 1..Len(m_logAppenders) : m_logAppenders[p] \in L /\ m_logAppenders[p] \in Appenders
  BY <1>2 DEF Log!ToSet
<1>4. lev \in [Appenders -> SUBSET Nat] BY <1>2
<1>5. \A p \in 1..Len(m_logAppenders) : appLevel[m_logAppenders[p]] \in lev[m_logAppenders[p]]
  BY <1>3
<1>6. e = [level |-> level, n |-> 0, due |-> m_logAppenders, levels |-> lev, wrote |-> <<>>,
           damaged |-> FALSE, clean |-> cl, alone |-> al, calm |-> TRUE]
  BY DEF Log!NewEvent, Log!NoEvent
<1>7. cl \in BOOLEAN /\ al \in BOOLEAN OBVIOUS
<1>8. cl => \A p \in 1..Len(m_logAppenders) : Log!StreamOf(m_logAppenders[p]) \notin raced BY <1>3
<1> HIDE DEF lev, cl, L
<1>9. e \in Event BY <1>1, <1>2, <1>4, <1>6, <1>7 DEF Event
<1> QED BY <1>5, <1>6, <1>8, <1>9

LEMMA EventWrapInv ==
    ASSUME LogInv, NEW t \in Threads, NEW level \in Levels, Log!EventWrap(t, level)
    PROVE  LogInv'
<1> DEFINE e == Log!NewEvent(level)
<1>1. LogTypes BY DEF LogInv
<1>2. /\ m_level' = m_level /\ appLevel' = appLevel /\ m_logAppenders' = m_logAppenders
      /\ raced' = raced
      /\ ~Log!InLog(t) /\ at' = [at EXCEPT ![t] = "walk"]
      /\ event' = [u \in Threads |-> CASE u = t -> e
                                       [] Log!InLog(u) -> [event[u] EXCEPT !.alone = FALSE]
                                       [] OTHER -> Log!NoEvent]
  BY DEF Log!EventWrap
<1>3. /\ e \in Event /\ e.n = 0 /\ e.due = m_logAppenders /\ e.wrote = <<>> /\ e.calm
      /\ ~e.damaged
      /\ \A p \in 1..Len(m_logAppenders) : appLevel[m_logAppenders[p]] \in e.levels[m_logAppenders[p]]
      /\ e.alone => \A u \in Threads : ~Log!InLog(u)
      /\ e.clean => \A p \in 1..Len(m_logAppenders) : Log!StreamOf(m_logAppenders[p]) \notin raced
  <2> HIDE DEF e
  <2>1. e = Log!NewEvent(level) BY DEF e
  <2> QED BY <2>1, NewEventFacts
<1> HIDE DEF e
<1>4. ASSUME NEW u \in Threads
      PROVE  /\ event'[u] = IF u = t THEN e ELSE
                            IF Log!InLog(u) THEN [event[u] EXCEPT !.alone = FALSE] ELSE Log!NoEvent
             /\ at'[u] = IF u = t THEN "walk" ELSE at[u]
             /\ event[u] \in Event
  BY <1>1, <1>2 DEF LogTypes
<1>5. Log!NoEvent \in Event BY DEF Log!NoEvent, Event
<1>6. ASSUME NEW x \in Event, NEW y, y = [x EXCEPT !.alone = FALSE]
      PROVE  /\ y \in Event /\ y.alone = FALSE /\ y.n = x.n /\ y.due = x.due /\ y.level = x.level
             /\ y.wrote = x.wrote /\ y.calm = x.calm /\ y.levels = x.levels
  BY <1>6 DEF Event
<1>7. LogTypes'
  <2>1. \A u \in Threads : event'[u] \in Event BY <1>3, <1>4, <1>5, <1>6
  <2>2. event' \in [Threads -> Event] BY <1>2, <2>1
  <2> QED BY <1>1, <1>2, <2>2 DEF LogTypes, Event
<1>8. OnItsWay(t)'
  <2>1. event'[t] = e /\ at'[t] = "walk" BY <1>4
  <2>2. Log!Delivered(e, 0) BY <1>3, DeliveredNone
  <2>3. \A u \in Threads \ {t} : Log!InLog(u)' => Log!InLog(u) BY <1>4 DEF Log!InLog
  <2>4. 0 <= MaxAppenders /\ 0 <= Len(m_logAppenders) BY <1>1, LoggerAssumption DEF LogTypes
  <2>5. e.alone => Undamaged(t)' BY <1>2, <1>3, <2>1, <2>3 DEF Undamaged
  <2>6. CalmOne(t)' BY <1>2, <1>3, <2>1, <2>2, <2>4, <2>5 DEF CalmOne
  <2> QED BY <1>3, <2>1, <2>4, <2>6 DEF OnItsWay
<1>9. ASSUME NEW u \in Threads, u # t, Log!InLog(u) PROVE OnItsWay(u)'
  <2> DEFINE x == event[u]
             y == event'[u]
  <2>1. y = [x EXCEPT !.alone = FALSE] /\ at'[u] = at[u] /\ x \in Event BY <1>4, <1>9
  <2> HIDE DEF x, y
  <2>2. /\ y \in Event /\ y.alone = FALSE /\ y.n = x.n /\ y.due = x.due /\ y.level = x.level
        /\ y.wrote = x.wrote /\ y.calm = x.calm /\ y.levels = x.levels
    BY <1>6, <2>1
  <2> USE DEF x, y
  <2> QED BY <1>2, <1>9, <2>1, <2>2, Quiet
<1>10. ASSUME NEW u \in Threads
       PROVE  IF Log!InLog(u)' THEN OnItsWay(u)' ELSE event'[u] = Log!NoEvent
  <2>1. CASE u = t BY <1>4, <1>8, <2>1 DEF Log!InLog
  <2>2. CASE u # t /\ Log!InLog(u) BY <1>4, <1>9, <2>2 DEF Log!InLog
  <2>3. CASE u # t /\ ~Log!InLog(u) BY <1>4, <2>3 DEF Log!InLog
  <2> QED BY <2>1, <2>2, <2>3
<1> QED BY <1>7, <1>10 DEF LogInv, Log!NoEvent

\* A thread that leaves log() disturbs nobody.
LEMMA LeaveInv ==
    ASSUME LogInv, NEW t \in Threads, Log!InLog(t), Log!Leave(t),
           UNCHANGED <<m_level, appLevel, m_logAppenders>>
    PROVE  LogInv'
<1>1. LogTypes BY DEF LogInv
<1>2. ASSUME NEW u \in Threads
      PROVE  /\ at'[u] = IF u = t THEN "idle" ELSE at[u]
             /\ event'[u] = IF u = t THEN Log!NoEvent ELSE event[u]
  BY <1>1 DEF Log!Leave, LogTypes
<1>3. Log!NoEvent \in Event BY DEF Log!NoEvent, Event
<1>4. LogTypes'
  <2>1. event' \in [Threads -> Event] /\ at' \in [Threads -> {"idle", "walk", "write"}]
    <3> HIDE DEF Event
    <3> QED BY <1>1, <1>3 DEF LogTypes, Log!Leave
  <2> QED BY <1>1, <2>1 DEF LogTypes, Event
<1>5. ~Log!InLog(t)' /\ event'[t] = Log!NoEvent BY <1>2 DEF Log!InLog
<1>6. \A u \in Threads \ {t} : at'[u] = at[u] /\ event'[u] = event[u] BY <1>2
<1> QED BY <1>4, <1>5, <1>6, OneThread

LEMMA walkInv ==
    ASSUME LogInv, NEW t \in Threads, Log!walk(t)
    PROVE  LogInv'
<1> DEFINE n == event[t].n + 1
           e == event[t]
<1>1. LogTypes /\ OnItsWay(t) /\ e \in Event /\ Log!InLog(t) /\ at[t] = "walk" /\ e.calm
  BY InLogFacts DEF LogInv, Log!walk, Log!InLog
<1>2. CalmOne(t) BY <1>1 DEF OnItsWay
<1>3. /\ e.due = m_logAppenders /\ e.n \in Nat /\ n \in Nat
      /\ UNCHANGED <<m_level, appLevel, m_logAppenders>>
  BY <1>1, <1>2 DEF Log!walk, CalmOne, Event
<1>4. CASE n > Len(m_logAppenders) BY <1>1, <1>3, <1>4, LeaveInv DEF Log!walk
<1>5. CASE ~(n > Len(m_logAppenders))
  <2> DEFINE ev == [event[t] EXCEPT !.n = n]
             next == IF e.level >= appLevel[m_logAppenders[n]] THEN "write" ELSE "walk"
  <2>1. event' = [event EXCEPT ![t] = ev] BY <1>5 DEF Log!walk
  <2>2. at' = [at EXCEPT ![t] = next]
    <3>1. CASE e.level >= appLevel[m_logAppenders[n]] BY <1>5, <3>1 DEF Log!walk
    <3>2. CASE ~(e.level >= appLevel[m_logAppenders[n]])
      <4>1. at' = at /\ next = "walk" BY <1>5, <3>2 DEF Log!walk
      <4> QED BY <1>1, <4>1 DEF LogTypes
    <3> QED BY <3>1, <3>2
  <2>3. raced' = raced \/ Log!Begin(t, Log!StreamOf(m_logAppenders[n])) BY <1>5 DEF Log!walk
  <2>4. /\ ev \in Event /\ ev.n = n /\ ev.due = e.due /\ ev.level = e.level /\ ev.wrote = e.wrote
        /\ ev.levels = e.levels /\ ev.damaged = e.damaged /\ ev.clean = e.clean
        /\ ev.calm = e.calm /\ ev.alone = e.alone
    BY <1>1, <1>3 DEF Event
  <2> HIDE DEF ev
  <2>5. ASSUME NEW u \in Threads
        PROVE  /\ at'[u] = IF u = t THEN next ELSE at[u]
               /\ event'[u] = IF u = t THEN ev ELSE event[u]
    BY <1>1, <2>1, <2>2 DEF LogTypes
  <2>6. next \in {"walk", "write"} OBVIOUS
  <2>7. LogTypes'
    <3>1. event' \in [Threads -> Event] BY <1>1, <2>1, <2>4 DEF LogTypes
    <3>2. at' \in [Threads -> {"idle", "walk", "write"}] BY <1>1, <2>2, <2>6 DEF LogTypes
    <3> QED BY <1>1, <1>3, <3>1, <3>2 DEF LogTypes, Event
  <2>8. event'[t] = ev /\ at'[t] = next BY <2>5
  <2>9. n <= Len(e.due) /\ n # 0 /\ n - 1 = e.n /\ Len(e.due) \in Nat /\ n \in 1..Len(e.due)
        /\ n <= MaxAppenders
    <3>1. Len(m_logAppenders) \in Nat /\ Len(m_logAppenders) <= MaxAppenders BY <1>1 DEF LogTypes
    <3> QED BY <1>3, <1>5, <3>1, LoggerAssumption
  <2>10. /\ e.level \in Nat /\ appLevel[e.due[n]] \in Nat /\ appLevel[e.due[n]] \in e.levels[e.due[n]]
    <3>1. e.level \in Nat /\ e.due \in Seq(Appenders) BY <1>1 DEF Event
    <3>2. e.due[n] \in Appenders BY <2>9, <3>1
    <3>3. appLevel[e.due[n]] \in Nat BY <1>1, <3>2, LoggerAssumption DEF LogTypes
    <3> QED BY <1>2, <2>9, <3>1, <3>3 DEF CalmOne
  <2>11. /\ \A p \in 1..Len(e.due) : appLevel[e.due[p]] \in e.levels[e.due[p]]
         /\ Log!Delivered(e, e.n)
         /\ e.alone => Undamaged(t)
    BY <1>1, <1>2 DEF CalmOne
  <2>12. next = "walk" => Log!Delivered(ev, n)
    <3> HAVE next = "walk"
    <3>1. e.level < appLevel[e.due[n]] BY <1>3, <2>10
    <3>2. \E l \in e.levels[e.due[e.n + 1]] : e.level < l BY <2>10, <3>1
    <3> QED BY <1>3, <2>4, <2>11, <3>2, DeliveredOver
  <2>13. next = "write" => Log!Delivered(ev, n - 1)
                           /\ \E l \in ev.levels[ev.due[n]] : ev.level >= l
    <3> HAVE next = "write"
    <3>1. e.level >= appLevel[e.due[n]] BY <1>3
    <3>2. Log!Delivered(ev, e.n) BY <2>4, <2>11, DeliveredSame
    <3> QED BY <2>4, <2>9, <2>10, <3>1, <3>2
  <2>14. \A u \in Threads \ {t} : Log!InLog(u)' => Log!InLog(u) BY <2>5 DEF Log!InLog
  <2>15. e.alone => raced' = raced
    <3> HAVE e.alone
    <3>1. \A u \in Threads \ {t} : at[u] # "write" BY <2>11 DEF Undamaged, Log!InLog
    <3> QED BY <2>3, <3>1 DEF Log!Begin
  <2> HIDE DEF n, e, next
  <2>16. ev.alone => Undamaged(t)'
    <3> HAVE ev.alone
    <3>1. Undamaged(t) /\ raced' = raced BY <2>4, <2>11, <2>15
    <3> USE DEF e
    <3> QED BY <2>4, <2>8, <2>14, <3>1 DEF Undamaged
  <2>17. CalmOne(t)' BY <1>3, <2>4, <2>8, <2>9, <2>11, <2>12, <2>13, <2>16 DEF CalmOne
  <2>18. OnItsWay(t)' BY <2>4, <2>8, <2>9, <2>17 DEF OnItsWay
  <2>19. Log!InLog(t)' BY <2>6, <2>8 DEF Log!InLog
  <2>20. \A u \in Threads \ {t} : at'[u] = at[u] /\ event'[u] = event[u] BY <2>5
  <2> QED BY <1>1, <1>3, <2>7, <2>18, <2>19, <2>20, OneThread
<1> QED BY <1>4, <1>5

\* Nothing happens to the messages in log().
LEMMA SameInv ==
    ASSUME LogInv, UNCHANGED <<appLevel, m_logAppenders, at, event, raced>>, m_level' \in Levels
    PROVE  LogInv'
<1>1. LogTypes' BY DEF LogInv, LogTypes, Event
<1>2. ASSUME NEW u \in Threads
      PROVE  IF Log!InLog(u)' THEN OnItsWay(u)' ELSE event'[u] = Log!NoEvent
  <2>1. CASE Log!InLog(u)
    <3>1. \A w \in Threads \ {u} : Log!InLog(w)' => Log!InLog(w) BY DEF Log!InLog
    <3>2. OnItsWay(u)' BY <2>1, <3>1, Quiet
    <3> QED BY <2>1, <3>2 DEF Log!InLog
  <2>2. CASE ~Log!InLog(u) BY <2>2, InLogFacts DEF Log!InLog
  <2> QED BY <2>1, <2>2
<1> QED BY <1>1, <1>2 DEF LogInv, Log!NoEvent

LEMMA walkOnInv ==
    ASSUME LogInv, NEW t \in Threads, Log!walkOn(t)
    PROVE  LogInv'
<1>1. UNCHANGED <<m_level, appLevel, m_logAppenders, raced>> /\ Log!InLog(t) BY DEF Log!walkOn
<1>2. CASE Log!Leave(t) BY <1>1, <1>2, LeaveInv
<1>3. CASE UNCHANGED <<at, event>>
  <2>1. m_level' \in Levels BY <1>1 DEF LogInv, LogTypes
  <2> QED BY <1>1, <1>3, <2>1, SameInv
<1> QED BY <1>2, <1>3 DEF Log!walkOn

LEMMA formatInv ==
    ASSUME LogInv, NEW t \in Threads, NEW hit \in SUBSET Threads, Log!format(t, hit)
    PROVE  LogInv'
<1> DEFINE target == Log!Target(t)
           e == event[t]
           ev == event'[t]
<1>1. LogTypes /\ OnItsWay(t) /\ e \in Event /\ Log!InLog(t) /\ at[t] = "write" /\ e.calm
  BY InLogFacts DEF LogInv, Log!format, Log!InLog
<1>2. CalmOne(t) BY <1>1 DEF OnItsWay
<1>3. /\ hit # {} => Log!StreamOf(target) \in raced /\ \A u \in hit : Log!InLog(u)
      /\ event' = [u \in Threads |->
              [event[u] EXCEPT !.wrote = IF u = t THEN Append(@, target) ELSE @,
                               !.damaged = @ \/ u \in hit]]
      /\ at' = [at EXCEPT ![t] = "walk"]
      /\ UNCHANGED <<m_level, appLevel, m_logAppenders, raced>>
  BY DEF Log!format
<1>4. e.due \in Seq(Appenders) /\ e.n \in Nat /\ e.wrote \in Seq(Appenders) /\ Len(e.due) \in Nat
  BY <1>1 DEF Event
<1>5. /\ e.n \in 1..Len(e.due) /\ e.n <= MaxAppenders BY <1>1 DEF OnItsWay
<1>6. /\ e.n <= Len(e.due) /\ e.due = m_logAppenders
      /\ \A p \in 1..Len(e.due) : appLevel[e.due[p]] \in e.levels[e.due[p]]
      /\ Log!Delivered(e, e.n - 1)
      /\ \E l \in e.levels[e.due[e.n]] : e.level >= l
      /\ e.alone => Undamaged(t)
  BY <1>1, <1>2 DEF CalmOne
<1>7. target = e.due[e.n] /\ target \in Appenders BY <1>4, <1>5 DEF Log!Target
<1>8. ASSUME NEW u \in Threads PROVE at'[u] = IF u = t THEN "walk" ELSE at[u]
  BY <1>1, <1>3 DEF LogTypes
<1> HIDE DEF target
<1>9. /\ ev \in Event /\ ev.n = e.n /\ ev.due = e.due /\ ev.level = e.level
      /\ ev.wrote = Append(e.wrote, target) /\ ev.levels = e.levels /\ ev.clean = e.clean
      /\ ev.calm = e.calm /\ ev.alone = e.alone /\ ev.damaged = (e.damaged \/ t \in hit)
  <2>1. Append(e.wrote, target) \in Seq(Appenders) BY <1>4, <1>7
  <2>2. ev = [e EXCEPT !.wrote = Append(@, target), !.damaged = @ \/ t \in hit] BY <1>3
  <2> DEFINE wrote == Append(e.wrote, target)
             d == e.damaged \/ t \in hit
  <2>3. ev = [e EXCEPT !.wrote = wrote, !.damaged = d] BY <2>2
  <2>4. d \in BOOLEAN OBVIOUS
  <2> HIDE DEF wrote, d, ev, e
  <2>5. e \in Event BY <1>1
  <2>6. wrote \in Seq(Appenders) BY <2>1 DEF wrote
  <2>7. /\ ev \in Event /\ ev.n = e.n /\ ev.due = e.due /\ ev.level = e.level
        /\ ev.wrote = wrote /\ ev.levels = e.levels /\ ev.clean = e.clean
        /\ ev.calm = e.calm /\ ev.alone = e.alone /\ ev.damaged = d
    BY <2>3, <2>4, <2>5, <2>6 DEF Event
  <2> QED BY <2>7 DEF wrote, d
<1>10. ASSUME NEW u \in Threads, u # t
       PROVE  /\ event'[u] \in Event
              /\ event'[u] = event[u] \/ (Log!InLog(u) /\ event'[u] = [event[u] EXCEPT !.damaged = TRUE])
  <2>1. event[u] \in Event BY <1>1 DEF LogTypes
  <2>2. event'[u] = [event[u] EXCEPT !.wrote = @, !.damaged = @ \/ u \in hit] BY <1>3, <1>10
  <2>3. CASE u \in hit
    <3>1. event'[u] = [event[u] EXCEPT !.damaged = TRUE] BY <2>1, <2>2, <2>3 DEF Event
    <3>2. event'[u] \in Event BY <2>1, <3>1 DEF Event
    <3> QED BY <1>3, <2>3, <3>1, <3>2
  <2>4. CASE u \notin hit
    <3>1. (event[u].damaged \/ u \in hit) = event[u].damaged BY <2>1, <2>4 DEF Event
    <3>2. event'[u] = [event[u] EXCEPT !.wrote = event[u].wrote, !.damaged = event[u].damaged]
      BY <2>2, <3>1
    <3>3. event'[u] = event[u] BY <2>1, <3>2, SameEvent
    <3> QED BY <2>1, <3>3
  <2> QED BY <2>3, <2>4
<1>11. LogTypes'
  <2>1. \A u \in Threads : event'[u] \in Event BY <1>9, <1>10
  <2>2. event' \in [Threads -> Event] BY <1>3, <2>1
  <2>3. at' \in [Threads -> {"idle", "walk", "write"}] BY <1>1, <1>3 DEF LogTypes
  <2> QED BY <1>1, <1>3, <2>2, <2>3 DEF LogTypes, Event
<1>12. at'[t] = "walk" /\ Log!InLog(t)' BY <1>8 DEF Log!InLog
<1>13. Log!Delivered(ev, e.n)
  <2> DEFINE m == e.n - 1
  <2>1. m \in Nat /\ m + 1 = e.n BY <1>4, <1>5
  <2>2. Log!Delivered(e, m) /\ \E l \in e.levels[e.due[m + 1]] : e.level >= l BY <1>6, <2>1
  <2>3. ev.wrote = Append(e.wrote, e.due[m + 1]) BY <1>7, <1>9, <2>1
  <2> HIDE DEF m, e, ev
  <2>4. e \in Event BY <1>1
  <2>5. Log!Delivered(ev, m + 1) BY <1>9, <2>1, <2>2, <2>3, <2>4, DeliveredNext
  <2> QED BY <2>1, <2>5
<1>14. e.alone => Undamaged(t)'
  <2> HAVE e.alone
  <2>1. Undamaged(t) BY <1>6
  <2>2. e.clean => hit = {}
    <3> HAVE e.clean
    <3>1. Log!StreamOf(e.due[e.n]) \notin raced BY <1>5, <2>1 DEF Undamaged
    <3> QED BY <1>3, <1>7, <3>1
  <2>3. e.clean => ~ev.damaged BY <1>9, <2>1, <2>2 DEF Undamaged
  <2>4. \A u \in Threads \ {t} : ~Log!InLog(u)' BY <1>8, <2>1 DEF Undamaged, Log!InLog
  <2>5. e.clean => \A p \in 1..Len(e.due) : Log!StreamOf(e.due[p]) \notin raced
    BY <2>1 DEF Undamaged
  <2>6. raced' = raced BY <1>3
  <2>7. ev.clean = e.clean /\ ev.due = e.due BY <1>9
  <2> QED BY <2>3, <2>4, <2>5, <2>6, <2>7 DEF Undamaged, Log!StreamOf
<1>15. CalmOne(t)' BY <1>3, <1>6, <1>9, <1>12, <1>13, <1>14 DEF CalmOne
<1>16. OnItsWay(t)' BY <1>5, <1>9, <1>12, <1>15 DEF OnItsWay
<1>17. \A u \in Threads \ {t} :
           /\ at'[u] = at[u]
           /\ event'[u] = event[u] \/ (Log!InLog(u) /\ event'[u] = [event[u] EXCEPT !.damaged = TRUE])
  BY <1>8, <1>10
<1> HIDE DEF e, ev
<1> QED BY <1>1, <1>3, <1>11, <1>12, <1>16, <1>17, OneThread

\* A change of the vector.
LEMMA DisturbInv ==
    ASSUME LogInv, Log!Disturb, UNCHANGED <<m_level, appLevel, at>>,
           m_logAppenders' \in Seq(Appenders), Len(m_logAppenders') <= MaxAppenders
    PROVE  LogInv'
<1>1. LogTypes BY DEF LogInv
<1>2. ASSUME NEW u \in Threads
      PROVE  event'[u] = IF Log!InLog(u) THEN Log!Disturbed(u) ELSE event[u]
  BY <1>1 DEF Log!Disturb, LogTypes
<1>3. ASSUME NEW u \in Threads, Log!InLog(u)
      PROVE  /\ event'[u] \in Event /\ OnItsWay(u)'
  <2> DEFINE d == IF at[u] = "write" THEN <<Log!Target(u)>> ELSE <<>>
             z == Log!NoEvent
             y == event'[u]
  <2>1. OnItsWay(u) /\ event[u] \in Event BY <1>3, InLogFacts
  <2>2. at[u] = "write" => Log!Target(u) \in Appenders
    <3> HAVE at[u] = "write"
    <3>1. event[u].n \in 1..Len(event[u].due) /\ event[u].due \in Seq(Appenders)
      BY <2>1 DEF OnItsWay, Event
    <3> QED BY <3>1 DEF Log!Target
  <2>3. d \in Seq(Appenders) /\ (at[u] = "write" => Len(d) = 1) BY <2>2
  <2>4. y = [z EXCEPT !.calm = FALSE, !.n = 1, !.due = d] BY <1>2, <1>3 DEF Log!Disturbed
  <2>5. z \in Event BY DEF Log!NoEvent, Event
  <2> HIDE DEF d, z, y
  <2>6. y \in Event /\ y.n = 1 /\ y.calm = FALSE /\ y.due = d BY <2>3, <2>4, <2>5 DEF Event
  <2>7. 1 <= MaxAppenders BY LoggerAssumption
  <2>8. at'[u] = at[u] OBVIOUS
  <2>9. at[u] = "write" => Len(y.due) = 1 BY <2>3, <2>6
  <2>10. at'[u] = "write" => 1 \in 1..Len(y.due)
    <3>1. 1 \in 1..1 OBVIOUS
    <3> DEFINE m == Len(y.due)
    <3> HIDE DEF m
    <3>2. m = 1 => 1 \in 1..m BY ONLY <3>1
    <3>3. at[u] = "write" => m = 1 BY <2>9 DEF m
    <3>4. at'[u] = "write" => 1 \in 1..m BY <2>8, <3>2, <3>3
    <3> QED BY <3>4 DEF m
  <2>11. at'[u] = "write" => y.n \in 1..Len(y.due) BY <2>6, <2>10
  <2> USE DEF y
  <2> QED BY <2>6, <2>7, <2>11 DEF OnItsWay
<1>4. LogTypes'
  <2>1. \A u \in Threads : event'[u] \in Event BY <1>1, <1>2, <1>3 DEF LogTypes
  <2>2. event' \in [Threads -> Event] BY <2>1 DEF Log!Disturb
  <2> QED BY <1>1, <2>2 DEF LogTypes, Event
<1>5. ASSUME NEW u \in Threads
      PROVE  IF Log!InLog(u)' THEN OnItsWay(u)' ELSE event'[u] = Log!NoEvent
  <2>1. CASE Log!InLog(u) BY <1>3, <2>1 DEF Log!InLog
  <2>2. CASE ~Log!InLog(u) BY <1>2, <2>2, InLogFacts DEF Log!InLog
  <2> QED BY <2>1, <2>2
<1> QED BY <1>4, <1>5 DEF LogInv, Log!NoEvent

\* A level of an appender is set: the messages in log() take note of it.
LEMMA setAppenderLevelInv ==
    ASSUME LogInv, NEW a \in Appenders, NEW level \in Levels, Log!setAppenderLevel(a, level)
    PROVE  LogInv'
<1>1. LogTypes /\ level \in Nat BY LoggerAssumption DEF LogInv
<1>2. /\ appLevel' = [appLevel EXCEPT ![a] = level]
      /\ UNCHANGED <<m_level, m_logAppenders, at, raced>>
      /\ event' = [u \in Threads |->
             IF Log!InLog(u) /\ event[u].levels[a] # {}
             THEN [event[u] EXCEPT !.levels[a] = @ \cup {level}] ELSE event[u]]
  BY DEF Log!setAppenderLevel
<1>3. ASSUME NEW u \in Threads
      PROVE  /\ event'[u] \in Event /\ event'[u].n = event[u].n /\ event'[u].due = event[u].due
             /\ event'[u].level = event[u].level /\ event'[u].wrote = event[u].wrote
             /\ event'[u].calm = event[u].calm /\ event'[u].alone = event[u].alone
             /\ event'[u].damaged = event[u].damaged /\ event'[u].clean = event[u].clean
             /\ Log!InLog(u) => \A b \in Appenders :
                   /\ event[u].levels[b] \subseteq event'[u].levels[b]
                   /\ appLevel[b] \in event[u].levels[b] => appLevel'[b] \in event'[u].levels[b]
             /\ ~Log!InLog(u) => event'[u] = event[u]
  <2> DEFINE x == event[u]
             y == event'[u]
             lev == [x.levels EXCEPT ![a] = @ \cup {level}]
  <2>1. x \in Event /\ x.levels \in [Appenders -> SUBSET Nat] BY <1>1 DEF LogTypes, Event
  <2>2. lev \in [Appenders -> SUBSET Nat]
        /\ \A b \in Appenders : lev[b] = IF b = a THEN x.levels[a] \cup {level} ELSE x.levels[b]
    BY <1>1, <2>1
  <2>3. \A b \in Appenders : appLevel'[b] = IF b = a THEN level ELSE appLevel[b]
    BY <1>1, <1>2 DEF LogTypes
  <2>4. CASE Log!InLog(u) /\ x.levels[a] # {}
    <3>1. y = [x EXCEPT !.levels = lev] BY <1>2, <2>4
    <3> HIDE DEF x, y, lev
    <3>2. /\ y \in Event /\ y.n = x.n /\ y.due = x.due /\ y.level = x.level /\ y.wrote = x.wrote
          /\ y.calm = x.calm /\ y.alone = x.alone /\ y.damaged = x.damaged /\ y.clean = x.clean
          /\ y.levels = lev
      BY <2>1, <2>2, <3>1 DEF Event
    <3>3. \A b \in Appenders : /\ x.levels[b] \subseteq y.levels[b]
                               /\ appLevel[b] \in x.levels[b] => appLevel'[b] \in y.levels[b]
      BY <2>2, <2>3, <3>2
    <3> QED BY <2>4, <3>2, <3>3 DEF x, y
  <2>5. CASE ~(Log!InLog(u) /\ x.levels[a] # {})
    <3>1. y = x BY <1>2, <2>5
    <3>2. Log!InLog(u) => \A b \in Appenders : appLevel[b] \in x.levels[b] => appLevel'[b] \in y.levels[b]
      BY <2>3, <2>5, <3>1
    <3> QED BY <2>1, <3>1, <3>2
  <2> QED BY <2>4, <2>5
<1>4. LogTypes'
  <2>1. event' \in [Threads -> Event] BY <1>2, <1>3
  <2>2. appLevel' \in [Appenders -> Levels] BY <1>1, <1>2 DEF LogTypes
  <2> QED BY <1>1, <1>2, <2>1, <2>2 DEF LogTypes, Event
<1>5. ASSUME NEW u \in Threads
      PROVE  IF Log!InLog(u)' THEN OnItsWay(u)' ELSE event'[u] = Log!NoEvent
  <2>1. CASE Log!InLog(u)
    <3>1. \A w \in Threads \ {u} : Log!InLog(w)' => Log!InLog(w) BY <1>2 DEF Log!InLog
    <3>2. at'[u] = at[u] BY <1>2
    <3>3. OnItsWay(u)' BY <1>2, <1>3, <2>1, <3>1, <3>2, Quiet
    <3> QED BY <2>1, <3>2, <3>3 DEF Log!InLog
  <2>2. CASE ~Log!InLog(u) BY <1>2, <1>3, <2>2, InLogFacts DEF Log!InLog
  <2> QED BY <2>1, <2>2
<1> QED BY <1>4, <1>5 DEF LogInv, Log!NoEvent

LEMMA LogNextInv == LogInv /\ Log!Next => LogInv'
<1> SUFFICES ASSUME LogInv, Log!Next PROVE LogInv' OBVIOUS
<1>1. LogTypes BY DEF LogInv
<1>2. ASSUME NEW t \in Threads, NEW level \in Levels, Log!EventWrap(t, level) PROVE LogInv'
  BY <1>2, EventWrapInv
<1>3. ASSUME NEW t \in Threads, Log!walk(t) PROVE LogInv' BY <1>3, walkInv
<1>4. ASSUME NEW t \in Threads, Log!walkOn(t) PROVE LogInv' BY <1>4, walkOnInv
<1>5. ASSUME NEW t \in Threads, NEW hit \in SUBSET Threads, Log!format(t, hit) PROVE LogInv'
  BY <1>5, formatInv
<1>6. ASSUME NEW a \in Appenders, Log!addAppender(a) PROVE LogInv'
  <2>1. m_logAppenders' \in Seq(Appenders) /\ Len(m_logAppenders') <= MaxAppenders
    BY <1>1, <1>6, LoggerAssumption DEF Log!addAppender, LogTypes
  <2> QED BY <1>6, <2>1, DisturbInv DEF Log!addAppender
<1>7. ASSUME NEW a \in Appenders, Log!delAppender(a) PROVE LogInv'
  <2> DEFINE s == m_logAppenders
             r == Log!RemoveFirst(s, a)
  <2>1. s \in Seq(Appenders) /\ Len(s) <= MaxAppenders /\ Len(s) \in Nat BY <1>1 DEF LogTypes
  <2>2. a \in Log!ToSet(s) /\ m_logAppenders' = r BY <1>7 DEF Log!delAppender
  <2>3. r \in Seq(Appenders) /\ Len(r) = Len(s) - 1 BY <2>1, <2>2, RemoveType
  <2> HIDE DEF r
  <2>4. Len(r) <= MaxAppenders BY <2>1, <2>3, LoggerAssumption
  <2> QED BY <1>7, <2>2, <2>3, <2>4, DisturbInv DEF Log!delAppender
<1>8. ASSUME Log!clearAppender PROVE LogInv'
  <2>1. m_logAppenders' \in Seq(Appenders) /\ Len(m_logAppenders') <= MaxAppenders
    BY <1>8, LoggerAssumption DEF Log!clearAppender
  <2> QED BY <1>8, <2>1, DisturbInv DEF Log!clearAppender
<1>9. ASSUME NEW level \in Levels, Log!setLevel(level) PROVE LogInv'
  BY <1>9, SameInv DEF Log!setLevel
<1>10. ASSUME NEW a \in Appenders, NEW level \in Levels, Log!setAppenderLevel(a, level) PROVE LogInv'
  BY <1>10, setAppenderLevelInv
<1>11. ASSUME NEW a \in Appenders, Log!setFormat(a) PROVE LogInv'
  <2>1. UNCHANGED <<m_level, appLevel, m_logAppenders, at, event, raced>> BY <1>11 DEF Log!setFormat
  <2>2. m_level' \in Levels BY <1>1, <2>1 DEF LogTypes
  <2> QED BY <2>1, <2>2, SameInv
<1> QED BY <1>2, <1>3, <1>4, <1>5, <1>6, <1>7, <1>8, <1>9, <1>10, <1>11 DEF Log!Next

LEMMA LogStep ==
    ASSUME LogInv,
           [MCNext]_<<part, serverVars, addrVars, logConfigVars, loggerVars, formatterVars, bitVars>>
    PROVE  LogInv'
<1>1. CASE part = "logger" /\ Log!Next BY <1>1, LogNextInv
<1>2. CASE UNCHANGED loggerVars
  <2>1. UNCHANGED <<appLevel, m_logAppenders, at, event, raced>> /\ m_level' = m_level
    BY <1>2 DEF loggerVars
  <2>2. m_level \in Levels BY DEF LogInv, LogTypes
  <2> QED BY <2>1, <2>2, SameInv
<1> QED BY <1>1, <1>2 DEF MCNext

LEMMA LogTypeOK == LogInv => Log!TypeOK
<1> SUFFICES ASSUME LogInv PROVE Log!TypeOK OBVIOUS
<1>1. LogTypes BY DEF LogInv
<1>2. ASSUME NEW t \in Threads PROVE event[t].n <= MaxAppenders
  <2>1. CASE Log!InLog(t) BY <2>1, InLogFacts DEF OnItsWay
  <2>2. CASE ~Log!InLog(t)
    <3>1. event[t] = Log!NoEvent BY <2>2, InLogFacts
    <3> QED BY <3>1, LoggerAssumption DEF Log!NoEvent
  <2> QED BY <2>1, <2>2
<1> QED BY <1>1, <1>2 DEF Log!TypeOK, LogTypes

\* A calm message leaves log() only at the end of the loop, when the appenders
\* of the whole vector are behind it.
LEMMA LeaveDelivered ==
    ASSUME LogInv, [MCNext]_<<part, serverVars, addrVars, logConfigVars, loggerVars, formatterVars, bitVars>>,
           NEW t \in Threads, Log!InLog(t), at'[t] = "idle", event[t].calm
    PROVE  /\ Log!Delivered(event[t], Len(event[t].due))
           /\ event[t].alone /\ event[t].clean => ~event[t].damaged
<1>1. LogTypes /\ OnItsWay(t) /\ CalmOne(t) /\ event[t] \in Event
  BY InLogFacts DEF LogInv, OnItsWay
<1>2. part = "logger" /\ Log!Next
  <2>1. CASE UNCHANGED loggerVars BY <2>1 DEF loggerVars, Log!InLog
  <2> QED BY <2>1 DEF MCNext
<1>3. Log!walk(t) /\ event[t].n + 1 > Len(m_logAppenders)
  <2>1. ASSUME NEW u \in Threads, NEW level \in Levels, Log!EventWrap(u, level) PROVE FALSE
    BY <1>1, <2>1 DEF Log!EventWrap, Log!InLog, LogTypes
  <2>2. ASSUME NEW u \in Threads, Log!walk(u) PROVE Log!walk(t) /\ event[t].n + 1 > Len(m_logAppenders)
    <3>1. CASE event[u].n + 1 > Len(m_logAppenders) BY <1>1, <2>2, <3>1 DEF Log!walk, Log!Leave, Log!InLog, LogTypes
    <3>2. CASE ~(event[u].n + 1 > Len(m_logAppenders))
      <4>1. at' = [at EXCEPT ![u] = "write"] \/ at' = at BY <2>2, <3>2 DEF Log!walk
      <4> QED BY <1>1, <4>1 DEF Log!InLog, LogTypes
    <3> QED BY <3>1, <3>2
  <2>3. ASSUME NEW u \in Threads, Log!walkOn(u) PROVE FALSE
    BY <1>1, <2>3 DEF Log!walkOn, Log!Leave, Log!InLog, LogTypes
  <2>4. ASSUME NEW u \in Threads, NEW hit \in SUBSET Threads, Log!format(u, hit) PROVE FALSE
    <3>1. at' = [at EXCEPT ![u] = "walk"] BY <2>4 DEF Log!format
    <3> QED BY <1>1, <3>1 DEF Log!InLog, LogTypes
  <2>5. ASSUME UNCHANGED at PROVE FALSE BY <2>5 DEF Log!InLog
  <2> QED BY <1>2, <2>1, <2>2, <2>3, <2>4, <2>5
          DEF Log!Next, Log!addAppender, Log!delAppender, Log!clearAppender, Log!setLevel,
              Log!setAppenderLevel, Log!setFormat
<1>4. at[t] = "walk" BY <1>3 DEF Log!walk
<1>5. /\ Log!Delivered(event[t], event[t].n) /\ event[t].n <= Len(event[t].due)
      /\ event[t].due = m_logAppenders
      /\ event[t].alone /\ event[t].clean => ~event[t].damaged
  BY <1>1, <1>4 DEF CalmOne, Undamaged
<1>6. event[t].n = Len(event[t].due)
  <2>1. event[t].n \in Nat /\ Len(event[t].due) \in Nat BY <1>1 DEF Event
  <2> QED BY <1>3, <1>5, <2>1
<1> QED BY <1>5, <1>6

\* Every message during which nobody changes the vector of appenders goes once
\* to each place whose appender lets it pass, in order, whatever levels are set
\* meanwhile; it is lost or torn only where another thread was in log(), or two
\* had raced for its stream before: for any number of threads and appenders.
THEOREM DeliveredTheorem == MCSpec => DeliveredExactly
<1> DEFINE Good == \A t \in Threads : Log!InLog(t) /\ at'[t] = "idle" /\ event[t].calm =>
                       /\ Log!Delivered(event[t], Len(event[t].due))
                       /\ event[t].alone /\ event[t].clean => ~event[t].damaged
<1>1. LogInv /\ [MCNext]_<<part, serverVars, addrVars, logConfigVars, loggerVars, formatterVars, bitVars>>
      => [Good]_(Log!vars)
  BY LeaveDelivered
<1>2. LogInv => (part = "logger" => Log!TypeOK) BY LogTypeOK
<1>3. LogInv /\ [MCNext]_<<part, serverVars, addrVars, logConfigVars, loggerVars, formatterVars, bitVars>> => LogInv'
  BY LogStep
<1> QED BY <1>1, <1>2, <1>3, LogInitial, PTL DEF MCSpec, DeliveredExactly, Log!DeliveredExactly

----------------------------------------------------------------------------
(* The formatter.                                                             *)

Letters == PatternChars \cup {Fmt!DefaultPattern[j] : j \in DOMAIN Fmt!DefaultPattern}
Piece == [type : {0, 1}, str : Seq(Letters)]

LEMMA SpelledType ==
    ASSUME NEW p \in Piece
    PROVE  Fmt!Spelled(p) \in Seq(Letters)
<1>1. p.str \in Seq(Letters) BY DEF Piece
<1>2. <<"%">> \in Seq(Letters)
  <2>1. "%" \in Letters BY PatternAssumption DEF Letters
  <2> QED BY <2>1
<1>3. <<"%">> \o p.str \in Seq(Letters) BY <1>1, <1>2, ConcatProperties
<1> QED BY <1>1, <1>3 DEF Fmt!Spelled

\* Source puts the pieces one after the other.
LEMMA SourceNone == Fmt!Source(<< >>) = << >>
<1>1. [n \in DOMAIN << >> |-> Fmt!Spelled(<< >>[n])] = << >> OBVIOUS
<1>2. Fmt!FlattenSeq(<< >>) = << >> BY DEF Fmt!FlattenSeq
<1> QED BY <1>1, <1>2 DEF Fmt!Source

LEMMA SourceAppend ==
    ASSUME NEW pieces \in Seq(Piece), NEW p \in Piece
    PROVE  Fmt!Source(Append(pieces, p)) = Fmt!Source(pieces) \o Fmt!Spelled(p)
<1> DEFINE all == Append(pieces, p)
           S(s) == [n \in DOMAIN s |-> Fmt!Spelled(s[n])]
           L == Len(pieces)
<1>1. /\ all \in Seq(Piece) /\ Len(all) = L + 1 /\ L \in Nat /\ all[L + 1] = p
      /\ \A m \in 1..L : pieces[m] = all[m]
  <2>1. L \in Nat OBVIOUS
  <2> HIDE DEF Piece
  <2> QED BY <2>1, AppendProperties
<1>2. \A m \in 1..L : pieces[m] \in Piece
  <2> HIDE DEF Piece
  <2> QED OBVIOUS
<1> HIDE DEF Piece
<1>3. DOMAIN pieces = 1..L /\ DOMAIN all = 1..(L + 1) BY <1>1
<1> HIDE DEF all, L
<1> DEFINE u == S(pieces)
           v == S(all)
           x == Fmt!Spelled(p)
<1>4. u \in Seq(Seq(Letters)) /\ Len(u) = L /\ \A m \in 1..L : u[m] = Fmt!Spelled(pieces[m])
  <2>1. \A m \in 1..L : Fmt!Spelled(pieces[m]) \in Seq(Letters) BY <1>2, SpelledType
  <2> QED BY <1>1, <1>3, <2>1
<1>5. x \in Seq(Letters) BY SpelledType
<1>6. v = Append(u, x)
  <2>1. \A m \in 1..(L + 1) : v[m] = Fmt!Spelled(all[m]) BY <1>3
  <2>2. DOMAIN v = 1..(L + 1) BY <1>3
  <2> DEFINE w == Append(u, x)
  <2>3. /\ w \in Seq(Seq(Letters)) /\ Len(w) = L + 1 /\ w[L + 1] = x /\ \A m \in 1..L : w[m] = u[m]
    <3> HIDE DEF u, x
    <3> QED BY <1>4, <1>5, AppendProperties
  <2>4. \A m \in 1..(L + 1) : m \in 1..L \/ m = L + 1 BY <1>1
  <2> HIDE DEF w, x
  <2>5. \A m \in 1..(L + 1) : v[m] = w[m]
    <3> HIDE DEF u, v
    <3> TAKE m \in 1..(L + 1)
    <3>1. v[m] = Fmt!Spelled(all[m]) BY ONLY <2>1, Zenon
    <3>2. CASE m \in 1..L
      <4>1. all[m] = pieces[m] BY ONLY <1>1, <3>2, Zenon
      <4>2. w[m] = Fmt!Spelled(pieces[m]) BY ONLY <1>4, <2>3, <3>2, Zenon
      <4> QED BY ONLY <3>1, <4>1, <4>2, Zenon
    <3>3. CASE m = L + 1
      <4>1. all[m] = p BY ONLY <1>1, <3>3, Zenon
      <4>2. w[m] = x BY ONLY <2>3, <3>3, Zenon
      <4> QED BY ONLY <3>1, <4>1, <4>2, Zenon DEF x
    <3> QED BY ONLY <2>4, <3>2, <3>3, Zenon
  <2>6. DOMAIN w = 1..(L + 1) BY <2>3
  <2>7. v = [m \in DOMAIN v |-> v[m]] OBVIOUS
  <2>8. w = [m \in DOMAIN w |-> w[m]] BY <2>3
  <2> HIDE DEF v
  <2>9. v = w BY <2>2, <2>5, <2>6, <2>7, <2>8
  <2> QED BY <2>9 DEF w
<1>7. Fmt!Source(pieces) = Seqs!FlattenSeq(u) /\ Fmt!Source(all) = Seqs!FlattenSeq(v)
  BY DEF Fmt!Source, Fmt!FlattenSeq, Seqs!FlattenSeq
<1> HIDE DEF u, v, x
<1>8. Seqs!FlattenSeq(v) = Seqs!FlattenSeq(u) \o x BY <1>4, <1>5, <1>6, FlattenAppend
<1> QED BY <1>7, <1>8 DEF all, x

\* Adjoining parts of a pattern.
LEMMA SubSeqJoin ==
    ASSUME NEW s \in Seq(Letters), NEW a \in 0..Len(s), NEW b \in a..Len(s)
    PROVE  /\ SubSeq(s, 1, a) \o SubSeq(s, a + 1, b) = SubSeq(s, 1, b)
           /\ SubSeq(s, a + 1, b) \in Seq(Letters)
           /\ (SubSeq(s, a + 1, b) = << >>) => a = b
<1> DEFINE u == SubSeq(s, 1, a)
           v == SubSeq(s, a + 1, b)
           x == SubSeq(s, 1, b)
<1>1. Len(s) \in Nat /\ a \in Nat /\ b \in Nat /\ a <= b /\ b <= Len(s) OBVIOUS
<1>2. u \in Seq(Letters) /\ Len(u) = a /\ \A j \in 1..a : u[j] = s[j] BY <1>1
<1>3. v \in Seq(Letters) /\ Len(v) = b - a /\ \A j \in 1..(b - a) : v[j] = s[a + j] BY <1>1
<1>4. x \in Seq(Letters) /\ Len(x) = b /\ \A j \in 1..b : x[j] = s[j] BY <1>1
<1> HIDE DEF u, v, x
<1>5. u \o v \in Seq(Letters) /\ Len(u \o v) = b
  <2>1. u \o v \in Seq(Letters) /\ Len(u \o v) = Len(u) + Len(v) BY <1>2, <1>3, ConcatProperties
  <2>2. a + (b - a) = b BY <1>1
  <2> QED BY <1>2, <1>3, <2>1, <2>2
<1>6. ASSUME NEW j \in 1..b PROVE (u \o v)[j] = x[j]
  <2>1. CASE j <= a
    <3>1. j \in 1..a BY <1>1, <2>1
    <3>2. (u \o v)[j] = u[j] BY <1>2, <1>3, <3>1
    <3> QED BY <1>2, <1>4, <3>1, <3>2
  <2>2. CASE ~(j <= a)
    <3>1. j - a \in 1..(b - a) /\ a + (j - a) = j BY <1>1, <2>2
    <3>2. (u \o v)[j] = v[j - a] BY <1>1, <1>2, <1>3, <2>2
    <3> QED BY <1>3, <1>4, <3>1, <3>2
  <2> QED BY <2>1, <2>2
<1>7. u \o v = x BY <1>1, <1>4, <1>5, <1>6
<1>8. v = << >> => a = b BY <1>1, <1>3
<1> QED BY <1>3, <1>7, <1>8 DEF u, v, x

\* A '%' and the letter behind it.
LEMMA Pair ==
    ASSUME NEW s \in Seq(Letters), NEW a \in Nat, a + 1 < Len(s), s[a + 1] = "%"
    PROVE  <<"%">> \o SubSeq(s, a + 2, a + 2) = SubSeq(s, a + 1, a + 2)
<1> DEFINE v == SubSeq(s, a + 2, a + 2)
           x == SubSeq(s, a + 1, a + 2)
           u == <<"%">>
<1>1. Len(s) \in Nat /\ a + 2 \in 1..Len(s) /\ a + 1 \in 1..Len(s) OBVIOUS
<1>2. v \in Seq(Letters) /\ Len(v) = 1 /\ v[1] = s[a + 2] BY <1>1
<1>3. x \in Seq(Letters) /\ Len(x) = 2 /\ x[1] = s[a + 1] /\ x[2] = s[a + 2] BY <1>1
<1>4. u \in Seq({"%"}) /\ Len(u) = 1 /\ u[1] = "%" OBVIOUS
<1> HIDE DEF u, v, x
<1>5. "%" \in Letters BY PatternAssumption DEF Letters
<1>6. u \in Seq(Letters)
  <2>1. "%" \in Letters => <<"%">> \in Seq(Letters) OBVIOUS
  <2> QED BY <1>5, <2>1 DEF u
<1>7. u \o v \in Seq(Letters) /\ Len(u \o v) = 2 /\ (u \o v)[1] = u[1] /\ (u \o v)[2] = v[1]
  <2>1. /\ u \o v \in Seq(Letters) /\ Len(u \o v) = Len(u) + Len(v)
        /\ \A j \in 1..(Len(u) + Len(v)) : (u \o v)[j] = IF j <= Len(u) THEN u[j] ELSE v[j - Len(u)]
    BY <1>2, <1>6, ConcatProperties
  <2>2. Len(u) + Len(v) = 2 /\ 1 \in 1..2 /\ 2 \in 1..2 /\ 2 - 1 = 1 /\ 1 <= 1 /\ ~(2 <= 1) BY <1>2, <1>4
  <2> QED BY <1>4, <2>1, <2>2
<1>8. \A j \in 1..2 : j = 1 \/ j = 2 OBVIOUS
<1>9. \A j \in 1..2 : (u \o v)[j] = x[j] BY <1>2, <1>3, <1>4, <1>7, <1>8
<1>10. u \o v = x
  <2>1. Len(u \o v) = Len(x) /\ \A j \in 1..Len(x) : (u \o v)[j] = x[j] BY <1>3, <1>7, <1>9
  <2> QED BY <1>3, <1>7, <2>1, SeqEqual
<1> QED BY <1>10 DEF u, v, x

\* TrailingPercents is what its name says.
LEMMA Trailing ==
    ASSUME NEW n, n = Fmt!TrailingPercents, m_pattern \in Seq(Letters)
    PROVE  /\ n \in 0..Len(m_pattern)
           /\ \A j \in 1..n : m_pattern[Len(m_pattern) - j + 1] = "%"
           /\ n < Len(m_pattern) => m_pattern[Len(m_pattern) - n] # "%"
<1> DEFINE L == Len(m_pattern)
           S == {m \in 0..L : m < L => m_pattern[L - m] # "%"}
           Good(m) == /\ \A j \in 1..m : m_pattern[L - j + 1] = "%"
                      /\ m < L => m_pattern[L - m] # "%"
<1>1. L \in Nat OBVIOUS
<1> HIDE DEF L
<1>2. L \in S /\ S \subseteq Nat BY <1>1
<1>3. PICK x \in S : \A y \in S : x <= y
  <2> HIDE DEF S
  <2> QED BY <1>2, Smallest
<1>4. ASSUME NEW j \in 1..x PROVE m_pattern[L - j + 1] = "%"
  <2>1. x \in 0..L OBVIOUS
  <2>2. j - 1 \in 0..L /\ ~(x <= j - 1) /\ L - (j - 1) = L - j + 1 BY <1>1, <2>1
  <2>3. j - 1 \notin S BY <1>3, <2>2
  <2> QED BY <2>2, <2>3
<1>5. x \in 0..L /\ Good(x) BY <1>4
<1>6. n = CHOOSE m \in 0..L : Good(m) BY DEF Fmt!TrailingPercents, L
<1> HIDE DEF Good
<1>7. n \in 0..L /\ Good(n) BY <1>5, <1>6
<1> QED BY <1>7 DEF Good, L

\* pos stands at the start of a text or a conversion: behind the last text only
\* pairs of '%' are behind it.
AtStart(p) ==
    LET begin == Len(m_pattern) - Fmt!TrailingPercents IN
    p <= begin \/ (p - begin) % 2 = 0

\* What has been cut off so far is the pattern up to f; or the last '%' was a
\* conversion of its own and all of the pattern has been cut off.
FmtInv ==
    /\ m_pattern \in Seq(Letters) /\ m_pattern # << >>
    /\ pos \in 0..Len(m_pattern) /\ f \in 0..pos
    /\ vec \in Seq(Piece) /\ done \in BOOLEAN
    /\ ~done => \/ Fmt!Source(vec) = SubSeq(m_pattern, 1, f) /\ AtStart(pos)
                \/ pos = Len(m_pattern) /\ Fmt!Source(vec) = m_pattern /\ Fmt!Dangling
    /\ done => pos = Len(m_pattern) /\ Fmt!PatternKept

LEMMA DefaultIsSeq == Fmt!DefaultPattern \in Seq(Letters) /\ Fmt!DefaultPattern # << >>
<1> DEFINE d == Fmt!DefaultPattern
<1>1. \E n \in Nat : n # 0 /\ DOMAIN d = 1..n BY DEF Fmt!DefaultPattern
<1>2. d = [j \in DOMAIN d |-> d[j]] BY DEF Fmt!DefaultPattern
<1> HIDE DEF d
<1>3. \A j \in DOMAIN d : d[j] \in Letters BY DEF Letters, d
<1>4. d # << >> BY <1>1
<1>5. d \in Seq(Letters) BY <1>1, <1>2, <1>3, IsASeq
<1> QED BY <1>4, <1>5 DEF d

LEMMA FmtInitial == MCInit => FmtInv
<1> SUFFICES ASSUME MCInit PROVE FmtInv OBVIOUS
<1>1. Fmt!Init BY DEF MCInit
<1>2. m_pattern \in Seq(Letters) /\ m_pattern # << >>
  <2>1. PICK pattern \in Fmt!Patterns :
          m_pattern = IF pattern = << >> THEN Fmt!DefaultPattern ELSE pattern
    BY <1>1 DEF Fmt!Init
  <2>2. PICK n \in 0..MaxPattern : pattern \in [1..n -> PatternChars] BY DEF Fmt!Patterns
  <2>3. pattern \in Seq(Letters)
    <3>1. n \in Nat BY PatternAssumption
    <3>2. \A j \in 1..n : pattern[j] \in Letters BY <2>2 DEF Letters
    <3> QED BY <2>2, <3>1, <3>2
  <2> QED BY <2>1, <2>3, DefaultIsSeq
<1>3. pos = 0 /\ f = 0 /\ vec = << >> /\ done = FALSE BY <1>1 DEF Fmt!Init
<1>4. Len(m_pattern) \in Nat BY <1>2
<1>5. Fmt!Source(vec) = SubSeq(m_pattern, 1, f)
  <2>1. SubSeq(m_pattern, 1, 0) = << >> BY <1>2
  <2> QED BY <1>3, <2>1, SourceNone
<1>6. AtStart(pos)
  <2> DEFINE n == Fmt!TrailingPercents
  <2>1. n \in 0..Len(m_pattern) BY <1>2, Trailing
  <2> HIDE DEF n
  <2>2. 0 <= Len(m_pattern) - n BY <1>4, <2>1
  <2> QED BY <1>3, <2>2 DEF AtStart, n
<1>7. vec \in Seq(Piece) BY <1>3
<1>8. pos \in 0..Len(m_pattern) /\ f \in 0..pos BY <1>3, <1>4
<1>9. done \in BOOLEAN /\ ~done BY <1>3
<1> QED BY <1>2, <1>5, <1>6, <1>7, <1>8, <1>9 DEF FmtInv

\* How the scan gets from start to start, and where it ends.
LEMMA StartStep ==
    ASSUME m_pattern \in Seq(Letters), NEW p \in 0..Len(m_pattern), AtStart(p)
    PROVE  /\ p < Len(m_pattern) /\ m_pattern[p + 1] # "%" => AtStart(p + 1)
           /\ p + 1 < Len(m_pattern) /\ m_pattern[p + 1] = "%" => AtStart(p + 2)
           /\ p + 1 = Len(m_pattern) /\ m_pattern[p + 1] = "%" => Fmt!Dangling
           /\ p = Len(m_pattern) => ~Fmt!Dangling
<1> DEFINE L == Len(m_pattern)
           n == Fmt!TrailingPercents
           begin == L - n
<1>1. /\ n \in 0..L
      /\ \A j \in 1..n : m_pattern[L - j + 1] = "%"
      /\ n < L => m_pattern[L - n] # "%"
  BY Trailing
<1>2. L \in Nat /\ p \in Nat /\ p <= L OBVIOUS
<1>3. \A x : AtStart(x) <=> (x <= begin \/ (x - begin) % 2 = 0) BY DEF AtStart
<1>4. Fmt!Dangling <=> n % 2 = 1 BY DEF Fmt!Dangling
<1> HIDE DEF L, n
<1>5. begin \in Nat /\ begin <= L /\ L - begin = n BY <1>1, <1>2
<1> HIDE DEF begin
<1>6. \A q \in Nat : q < L /\ q >= begin => m_pattern[q + 1] = "%"
  <2> SUFFICES ASSUME NEW q \in Nat, q < L, q >= begin PROVE m_pattern[q + 1] = "%" OBVIOUS
  <2>1. L - q \in 1..n /\ L - (L - q) + 1 = q + 1 BY <1>1, <1>2, <1>5
  <2> QED BY <1>1, <2>1
<1>7. \A q \in Nat : q + 1 = begin => m_pattern[q + 1] # "%"
  <2> SUFFICES ASSUME NEW q \in Nat, q + 1 = begin PROVE m_pattern[q + 1] # "%" OBVIOUS
  <2>1. n < L /\ L - n = q + 1 BY <1>1, <1>2, <1>5
  <2> QED BY <1>1, <2>1
<1>8. ASSUME p < L, m_pattern[p + 1] # "%" PROVE AtStart(p + 1)
  <2>1. p + 1 <= begin BY <1>2, <1>5, <1>6, <1>8
  <2> QED BY <1>3, <2>1
<1>9. p <= begin \/ (p - begin) % 2 = 0 BY <1>3
<1>10. ASSUME p + 1 < L, m_pattern[p + 1] = "%" PROVE AtStart(p + 2)
  <2>1. CASE p < begin
    <3>1. p + 1 # begin BY <1>2, <1>7, <1>10
    <3>2. p + 2 <= begin BY <1>2, <1>5, <2>1, <3>1
    <3> QED BY <1>3, <3>2
  <2>2. CASE ~(p < begin)
    <3>1. (p - begin) % 2 = 0 BY <1>2, <1>5, <1>9, <2>2
    <3>2. ((p + 2) - begin) % 2 = 0 BY <1>2, <1>5, <2>2, <3>1
    <3> QED BY <1>3, <3>2
  <2> QED BY <2>1, <2>2
<1>11. ASSUME p + 1 = L, m_pattern[p + 1] = "%" PROVE Fmt!Dangling
  <2>1. p >= begin
    <3>1. p + 1 # begin BY <1>2, <1>7, <1>11
    <3> QED BY <1>2, <1>5, <1>11, <3>1
  <2>2. (p - begin) % 2 = 0 BY <1>2, <1>5, <1>9, <2>1
  <2>3. n = (p - begin) + 1 /\ p - begin \in Nat BY <1>2, <1>5, <1>11, <2>1
  <2>4. n % 2 = 1 BY <2>2, <2>3
  <2> QED BY <1>4, <2>4
<1>12. ASSUME p = L PROVE ~Fmt!Dangling
  <2>1. n = 0 \/ n % 2 = 0 BY <1>1, <1>2, <1>5, <1>9, <1>12
  <2>2. n % 2 # 1 BY <1>1, <1>2, <2>1
  <2> QED BY <1>4, <2>2
<1> QED BY <1>8, <1>10, <1>11, <1>12 DEF L

LEMMA PercentInv ==
    ASSUME FmtInv, Fmt!Percent
    PROVE  FmtInv'
<1> DEFINE s == m_pattern
           L == Len(m_pattern)
           str == SubSeq(m_pattern, f + 1, pos)
           text == IF str = << >> THEN << >> ELSE <<Fmt!Text(str)>>
           more == vec \o text
<1>1. s \in Seq(Letters) /\ s # << >> /\ pos \in 0..L /\ f \in 0..pos /\ vec \in Seq(Piece) /\ L \in Nat
  BY DEF FmtInv
<1>2. pos < L /\ s[pos + 1] = "%" /\ m_pattern' = m_pattern /\ done' = done BY DEF Fmt!Percent
<1>3. ~done BY <1>1, <1>2 DEF FmtInv
<1>4. Fmt!Source(vec) = SubSeq(s, 1, f) /\ AtStart(pos) BY <1>1, <1>2, <1>3 DEF FmtInv
<1>5. more \in Seq(Piece) /\ Fmt!Source(more) = SubSeq(s, 1, pos)
  <2> DEFINE t == Fmt!Text(str)
  <2>1. f \in 0..L /\ pos \in f..L BY <1>1
  <2>2. /\ SubSeq(s, 1, f) \o str = SubSeq(s, 1, pos)
        /\ str \in Seq(Letters) /\ (str = << >> => f = pos)
    BY <1>1, <2>1, SubSeqJoin
  <2>3. t \in Piece /\ Fmt!Spelled(t) = str
    <3>1. t = [type |-> 0, str |-> str] BY DEF Fmt!Text
    <3> HIDE DEF str, t
    <3> QED BY <2>2, <3>1 DEF Piece, Fmt!Spelled
  <2>4. more = vec \o text /\ text = IF str = << >> THEN << >> ELSE <<t>> OBVIOUS
  <2> HIDE DEF str, t, text, more, Piece
  <2>5. CASE str = << >>
    <3>1. vec \o << >> = vec BY <1>1, ConcatEmptySeq
    <3>2. text = << >> BY <2>4, <2>5
    <3>3. more = vec BY <2>4, <3>1, <3>2
    <3> QED BY <1>1, <1>4, <2>2, <2>5, <3>3
  <2>6. CASE str # << >>
    <3>1. more = vec \o <<t>> BY <2>4, <2>6
    <3>2. Append(vec, t) = vec \o <<t>> BY <1>1, <2>3, AppendIsConcat
    <3>3. Append(vec, t) \in Seq(Piece) BY <1>1, <2>3, AppendProperties
    <3>4. Fmt!Source(Append(vec, t)) = Fmt!Source(vec) \o str BY <1>1, <2>3, SourceAppend
    <3>5. more = Append(vec, t) BY <3>1, <3>2
    <3> QED BY <1>4, <2>2, <3>3, <3>4, <3>5
  <2> QED BY <2>5, <2>6
<1>6. done' \in BOOLEAN /\ ~done' BY <1>2, <1>3 DEF FmtInv
<1>7. CASE pos + 1 < L
  <2> DEFINE letter == SubSeq(s, pos + 2, pos + 2)
             c == Fmt!Conversion(letter)
  <2>1. vec' = more \o <<c>> /\ f' = pos + 2 /\ pos' = pos + 2
    <3>1. (pos + 1) + 1 = pos + 2 BY <1>1
    <3> QED BY <1>7, <3>1 DEF Fmt!Percent, Fmt!Substr
  <2>2. letter \in Seq(Letters) BY <1>1, <1>7
  <2>3. c \in Piece /\ Fmt!Spelled(c) = <<"%">> \o letter
    <3>1. c = [type |-> 1, str |-> letter] BY DEF Fmt!Conversion
    <3> HIDE DEF letter, c
    <3> QED BY <2>2, <3>1 DEF Piece, Fmt!Spelled
  <2>4. <<"%">> \o letter = SubSeq(s, pos + 1, pos + 2) BY <1>1, <1>2, <1>7, Pair
  <2>5. SubSeq(s, 1, pos) \o SubSeq(s, pos + 1, pos + 2) = SubSeq(s, 1, pos + 2)
    <3>1. pos + 2 \in pos..L BY <1>1, <1>7
    <3> QED BY <1>1, <3>1, SubSeqJoin
  <2> HIDE DEF letter, c, more, Piece
  <2>6. vec' = Append(more, c) /\ vec' \in Seq(Piece) BY <1>5, <2>1, <2>3
  <2>7. Fmt!Source(Append(more, c)) = SubSeq(s, 1, pos + 2) BY <1>5, <2>3, <2>4, <2>5, SourceAppend
  <2>8. AtStart(pos + 2) BY <1>1, <1>2, <1>4, <1>7, StartStep
  <2>9. pos' \in 0..Len(m_pattern') /\ f' \in 0..pos' BY <1>1, <1>2, <1>7, <2>1
  <2>10. AtStart(pos)' BY <1>2, <2>1, <2>8 DEF AtStart, Fmt!TrailingPercents
  <2>11. Fmt!Source(vec)' = SubSeq(m_pattern', 1, f') BY <1>2, <2>1, <2>6, <2>7
  <2> QED BY <1>1, <1>2, <1>6, <2>6, <2>9, <2>10, <2>11 DEF FmtInv, Piece
<1>8. CASE ~(pos + 1 < L)
  <2> DEFINE c == Fmt!Conversion(<< >>)
             one == <<"%">>
  <2>1. vec' = more \o <<c>> /\ f' = f /\ pos' = pos + 1 BY <1>8 DEF Fmt!Percent, Fmt!Substr
  <2>2. c \in Piece /\ Fmt!Spelled(c) = one
    <3>1. one \o << >> = one OBVIOUS
    <3> QED BY <3>1 DEF Fmt!Conversion, Piece, Fmt!Spelled
  <2>3. pos + 1 = L BY <1>1, <1>2, <1>8
  <2>4. SubSeq(s, 1, pos) \o one = s
    <3>1. one = SubSeq(s, pos + 1, L)
      <4> DEFINE x == SubSeq(s, pos + 1, L)
      <4>1. x \in Seq(Letters) /\ Len(x) = 1 /\ x[1] = s[pos + 1]
        <5>1. L \in 1..Len(s) BY <1>1, <1>2
        <5>2. x = SubSeq(s, L, L) /\ s[pos + 1] = s[L] BY <2>3
        <5> HIDE DEF L, x
        <5>3. \A j \in 1..Len(s) : /\ SubSeq(s, j, j) \in Seq(Letters) /\ Len(SubSeq(s, j, j)) = 1
                                   /\ SubSeq(s, j, j)[1] = s[j]
          BY <1>1
        <5> QED BY <5>1, <5>2, <5>3
      <4> HIDE DEF x
      <4>2. x = <<x[1]>> BY <4>1
      <4> QED BY <1>2, <4>1, <4>2 DEF x
    <3>2. L \in pos..L BY <1>1
    <3>3. SubSeq(s, 1, pos) \o SubSeq(s, pos + 1, L) = SubSeq(s, 1, L) BY <1>1, <3>2, SubSeqJoin
    <3>4. SubSeq(s, 1, L) = s BY <1>1
    <3> QED BY <3>1, <3>3, <3>4
  <2> HIDE DEF c, more, Piece, one
  <2>5. vec' = Append(more, c) /\ vec' \in Seq(Piece) BY <1>5, <2>1, <2>2
  <2>6. Fmt!Source(Append(more, c)) = s BY <1>5, <2>2, <2>4, SourceAppend
  <2>7. Fmt!Dangling BY <1>1, <1>2, <1>4, <2>3, StartStep
  <2>8. Fmt!Dangling' BY <1>2, <2>7 DEF Fmt!Dangling, Fmt!TrailingPercents
  <2>9. pos' \in 0..Len(m_pattern') /\ f' \in 0..pos' /\ pos' = Len(m_pattern') BY <1>1, <1>2, <2>1, <2>3
  <2>10. Fmt!Source(vec)' = m_pattern' BY <1>2, <2>5, <2>6
  <2> QED BY <1>1, <1>2, <1>6, <2>5, <2>8, <2>9, <2>10 DEF FmtInv, Piece
<1> QED BY <1>7, <1>8

LEMMA PlainInv ==
    ASSUME FmtInv, Fmt!Plain
    PROVE  FmtInv'
<1>1. /\ m_pattern \in Seq(Letters) /\ m_pattern # << >> /\ pos \in 0..Len(m_pattern)
      /\ f \in 0..pos /\ vec \in Seq(Piece) /\ Len(m_pattern) \in Nat
  BY DEF FmtInv
<1>2. /\ pos < Len(m_pattern) /\ m_pattern[pos + 1] # "%" /\ pos' = pos + 1
      /\ m_pattern' = m_pattern /\ done' = done /\ vec' = vec /\ f' = f
  BY DEF Fmt!Plain
<1>3. ~done BY <1>1, <1>2 DEF FmtInv
<1>4. Fmt!Source(vec) = SubSeq(m_pattern, 1, f) /\ AtStart(pos) BY <1>1, <1>2, <1>3 DEF FmtInv
<1>5. AtStart(pos + 1) BY <1>1, <1>2, <1>4, StartStep
<1>6. AtStart(pos)' BY <1>2, <1>5 DEF AtStart, Fmt!TrailingPercents
<1>7. Fmt!Source(vec)' = SubSeq(m_pattern', 1, f') BY <1>2, <1>4
<1>8. pos' \in 0..Len(m_pattern') /\ f' \in 0..pos' BY <1>1, <1>2
<1>9. done' \in BOOLEAN /\ ~done' BY <1>2, <1>3 DEF FmtInv
<1> HIDE DEF Piece
<1> QED BY <1>1, <1>2, <1>6, <1>7, <1>8, <1>9 DEF FmtInv, Piece

LEMMA FinishInv ==
    ASSUME FmtInv, Fmt!Finish
    PROVE  FmtInv'
<1> DEFINE s == m_pattern
           L == Len(m_pattern)
           rest == SubSeq(m_pattern, f + 1, L)
           t == Fmt!Text(rest)
<1>1. s \in Seq(Letters) /\ s # << >> /\ pos \in 0..L /\ f \in 0..pos /\ vec \in Seq(Piece) /\ L \in Nat
  BY DEF FmtInv
<1>2. /\ pos = L /\ ~done /\ vec' = Append(vec, t) /\ done' = TRUE
      /\ m_pattern' = m_pattern /\ pos' = pos /\ f' = f
  BY DEF Fmt!Finish, Fmt!Substr
<1>3. f \in 0..L /\ L \in f..L BY <1>1
<1>4. rest \in Seq(Letters) /\ SubSeq(s, 1, f) \o rest = s
  <2>1. SubSeq(s, 1, f) \o rest = SubSeq(s, 1, L) /\ rest \in Seq(Letters) BY <1>1, <1>3, SubSeqJoin
  <2>2. SubSeq(s, 1, L) = s BY <1>1
  <2> QED BY <2>1, <2>2
<1>5. t \in Piece /\ Fmt!Spelled(t) = rest
  <2>1. t = [type |-> 0, str |-> rest] BY DEF Fmt!Text
  <2> HIDE DEF rest, t
  <2> QED BY <1>4, <2>1 DEF Piece, Fmt!Spelled
<1>6. rest = SubSeq(m_pattern', f' + 1, Len(m_pattern')) BY <1>2
<1> HIDE DEF t, Piece
<1>7. vec' \in Seq(Piece) /\ Fmt!Source(Append(vec, t)) = Fmt!Source(vec) \o rest
  <2>1. Append(vec, t) \in Seq(Piece) BY <1>1, <1>5, AppendProperties
  <2>2. Fmt!Source(Append(vec, t)) = Fmt!Source(vec) \o Fmt!Spelled(t) BY <1>1, <1>5, SourceAppend
  <2> HIDE DEF rest
  <2> QED BY <1>2, <1>5, <2>1, <2>2
<1>8. Fmt!Dangling' <=> Fmt!Dangling BY <1>2 DEF Fmt!Dangling, Fmt!TrailingPercents
<1>9. Fmt!PatternKept'
  <2>1. CASE Fmt!Source(vec) = SubSeq(s, 1, f) /\ AtStart(pos)
    <3>1. ~Fmt!Dangling BY <1>1, <1>2, <2>1, StartStep
    <3>2. Fmt!Source(vec)' = m_pattern' BY <1>2, <1>4, <1>7, <2>1
    <3> QED BY <1>8, <3>1, <3>2 DEF Fmt!PatternKept
  <2>2. CASE Fmt!Source(vec) = s /\ Fmt!Dangling
    <3>1. Fmt!Source(vec)' = m_pattern' \o SubSeq(m_pattern', f' + 1, Len(m_pattern'))
      BY <1>2, <1>6, <1>7, <2>2
    <3> QED BY <1>8, <2>2, <3>1 DEF Fmt!PatternKept, Fmt!Substr
  <2> QED BY <1>2, <2>1, <2>2 DEF FmtInv
<1>10. pos' \in 0..Len(m_pattern') /\ f' \in 0..pos' /\ pos' = Len(m_pattern') BY <1>1, <1>2
<1>11. done' \in BOOLEAN /\ done' BY <1>2
<1> QED BY <1>1, <1>2, <1>7, <1>9, <1>10, <1>11 DEF FmtInv, Piece

LEMMA FmtStep ==
    ASSUME FmtInv,
           [MCNext]_<<part, serverVars, addrVars, logConfigVars, loggerVars, formatterVars, bitVars>>
    PROVE  FmtInv'
<1>1. CASE Fmt!Next BY <1>1, PlainInv, PercentInv, FinishInv DEF Fmt!Next
<1>2. CASE UNCHANGED formatterVars
  BY <1>2 DEF formatterVars, FmtInv, Piece, AtStart, Fmt!Dangling, Fmt!TrailingPercents,
              Fmt!PatternKept, Fmt!Substr
<1> QED BY <1>1, <1>2 DEF MCNext

\* For patterns of any length and over any characters: LogFormatter::init loses,
\* repeats and moves nothing but the text before a '%' at the very end.
THEOREM PatternTheorem == MCSpec => []PatternKept
<1>1. FmtInv => PatternKept
  <2> SUFFICES ASSUME FmtInv PROVE Fmt!TypeOK /\ Fmt!PatternKept BY DEF PatternKept
  <2>1. Fmt!PatternKept BY DEF FmtInv, Fmt!PatternKept
  <2>2. \A j \in DOMAIN vec : vec[j] \in Piece
    <3> HIDE DEF Piece
    <3> QED BY DEF FmtInv
  <2> QED BY <2>1, <2>2 DEF FmtInv, Fmt!TypeOK, Piece
<1>2. FmtInv /\ [MCNext]_<<part, serverVars, addrVars, logConfigVars, loggerVars, formatterVars, bitVars>> => FmtInv'
  BY FmtStep
<1> QED BY <1>1, <1>2, FmtInitial, PTL DEF MCSpec

----------------------------------------------------------------------------
(* The loggers made from the configuration.                                   *)

\* The appenders a logger may have, and what is written of one in the file.
App == [type : {0, 1}, level : LogCfg!Level, path : LogFiles \cup {LogCfg!NoText}]

\* Whatever a level text says, a level comes of it.
LEMMA LevelOfText == \A text : LogCfg!FromString(text) \in LogCfg!Level
<1> TAKE text
<1> DEFINE found == {l \in 1..5 : LogCfg!LevelName[l] = LogCfg!tolower(text)}
<1>1. found # {} => (CHOOSE l \in found : TRUE) \in found OBVIOUS
<1>2. 0 \in 0..5 /\ \A l \in found : l \in 0..5 OBVIOUS
<1>3. LogCfg!FromString(text) = IF found = {} THEN 0 ELSE CHOOSE l \in found : TRUE
  BY DEF LogCfg!FromString
<1> HIDE DEF found
<1> QED BY <1>1, <1>2, <1>3 DEF LogCfg!Level

\* What a text becomes, when fromYaml can make an appender of it.
Usable(text) == ~(text.type = 1 /\ text.path = LogCfg!NoText)

LEMMA AppOfText ==
    ASSUME NEW text \in LogCfg!AppText
    PROVE  /\ LogCfg!LogAppDef(text) \in App
           /\ LogCfg!LogAppDef(text).type = text.type
           /\ text.type = 1 => LogCfg!LogAppDef(text).path = text.path
<1>1. text.type \in {0, 1} /\ text.path \in LogFiles \cup {LogCfg!NoText} BY DEF LogCfg!AppText
<1>2. LogCfg!FromString(text.level) \in LogCfg!Level BY LevelOfText
<1>3. LogCfg!LogAppDef(text) = [type |-> text.type, level |-> LogCfg!FromString(text.level),
                                path |-> IF text.type = 1 THEN text.path ELSE LogCfg!NoText]
  BY DEF LogCfg!LogAppDef
<1> HIDE DEF LogCfg!NoText
<1> QED BY <1>1, <1>2, <1>3 DEF App

\* Appenders that are added behind others are still those of the texts.
LEMMA AsTextsJoin ==
    ASSUME NEW apps \in Seq(App), NEW texts \in Seq(LogCfg!AppText), LogCfg!AsTexts(apps, texts),
           NEW new \in Seq(LogCfg!AppText), \A n \in DOMAIN new : Usable(new[n]),
           NEW made, made = [n \in DOMAIN new |-> LogCfg!LogAppDef(new[n])]
    PROVE  apps \o made \in Seq(App) /\ texts \o new \in Seq(LogCfg!AppText)
           /\ LogCfg!AsTexts(apps \o made, texts \o new)
<1> DEFINE T == LogCfg!AppText
<1> HIDE DEF T
<1>0. texts \in Seq(T) /\ new \in Seq(T) BY DEF T
<1>1. \A n \in DOMAIN new : new[n] \in T BY <1>0
<1>2. \A n \in DOMAIN new : made[n] = LogCfg!LogAppDef(new[n]) OBVIOUS
<1>3. DOMAIN new = 1..Len(new) /\ Len(new) \in Nat BY <1>0
<1>4. \A n \in 1..Len(new) : made[n] \in App BY <1>1, <1>2, <1>3, AppOfText DEF T
<1>5. made \in Seq(App) /\ Len(made) = Len(new)
  <2>1. made = [n \in 1..Len(new) |-> made[n]] BY <1>3
  <2> HIDE DEF App
  <2>2. made \in [1..Len(new) -> App] BY <1>4, <2>1
  <2> QED BY <1>3, <2>2
<1>6. Len(apps) = Len(texts) BY DEF LogCfg!AsTexts
<1> HIDE DEF App
<1>7. /\ apps \o made \in Seq(App) /\ Len(apps \o made) = Len(apps) + Len(made)
      /\ \A n \in 1..(Len(apps) + Len(made)) :
            (apps \o made)[n] = IF n <= Len(apps) THEN apps[n] ELSE made[n - Len(apps)]
  BY <1>5, ConcatProperties
<1>8. /\ texts \o new \in Seq(T) /\ Len(texts \o new) = Len(texts) + Len(new)
      /\ \A n \in 1..(Len(texts) + Len(new)) :
            (texts \o new)[n] = IF n <= Len(texts) THEN texts[n] ELSE new[n - Len(texts)]
  BY <1>0, ConcatProperties
<1>9. Len(apps) \in Nat /\ Len(made) \in Nat BY <1>5
<1>10. DOMAIN apps = 1..Len(apps) /\ DOMAIN (apps \o made) = 1..(Len(apps) + Len(made)) BY <1>7
<1> DEFINE Right(app, text) == /\ app.type = text.type
                               /\ app.type = 1 => app.path = text.path /\ app.path # LogCfg!NoText
<1>11. \A n \in 1..Len(apps) : Right(apps[n], texts[n]) BY <1>10 DEF LogCfg!AsTexts
<1>12. \A n \in 1..Len(new) : Right(made[n], new[n])
  <2> TAKE n \in 1..Len(new)
  <2>1. new[n] \in LogCfg!AppText /\ Usable(new[n]) /\ made[n] = LogCfg!LogAppDef(new[n])
    BY <1>1, <1>2, <1>3 DEF T
  <2> QED BY <2>1, AppOfText DEF Usable
<1> HIDE DEF Right
<1>13. ASSUME NEW n \in 1..(Len(apps) + Len(made)) PROVE Right((apps \o made)[n], (texts \o new)[n])
  <2>1. CASE n <= Len(apps)
    <3>1. n \in 1..Len(apps) BY <1>9, <2>1
    <3> QED BY <1>5, <1>6, <1>7, <1>8, <1>11, <2>1, <3>1
  <2>2. CASE ~(n <= Len(apps))
    <3>1. n - Len(apps) \in 1..Len(new) BY <1>5, <1>9, <2>2
    <3>2. (apps \o made)[n] = made[n - Len(apps)] /\ (texts \o new)[n] = new[n - Len(apps)]
      BY <1>5, <1>6, <1>7, <1>8, <2>2
    <3> QED BY <1>12, <3>1, <3>2
  <2> QED BY <2>1, <2>2
<1>14. LogCfg!AsTexts(apps \o made, texts \o new)
  BY <1>5, <1>6, <1>7, <1>8, <1>10, <1>13 DEF LogCfg!AsTexts, Right
<1> QED BY <1>7, <1>8, <1>14 DEF T

\* The entries of the configuration, and the appenders of a logger that need
\* not exist yet.
Entry == [name : LoggerNames \cup {0}, level : LevelTexts \cup {LogCfg!NoText},
          appends : Seq(LogCfg!AppText)]
Of(name) == IF name \in DOMAIN m_loggers THEN m_loggers[name].appends ELSE << >>

\* What entry j gives to a logger.
Given(name, j) == IF file[j].name = name THEN file[j].appends ELSE << >>

LEMMA WantedNone == \A name : LogCfg!Wanted(name, 0) = << >>
<1> TAKE name
<1>1. [j \in 1..0 |-> Given(name, j)] = << >> OBVIOUS
<1>2. LogCfg!Wanted(name, 0) = Seqs!FlattenSeq([j \in 1..0 |-> Given(name, j)])
  BY DEF LogCfg!Wanted, LogCfg!FlattenSeq, Seqs!FlattenSeq, Given
<1> QED BY <1>1, <1>2, FlattenNone

LEMMA WantedNext ==
    ASSUME file \in Seq(Entry), NEW name, NEW n \in 1..Len(file)
    PROVE  LogCfg!Wanted(name, n) = LogCfg!Wanted(name, n - 1) \o Given(name, n)
<1> DEFINE T == LogCfg!AppText
           u(m) == [j \in 1..m |-> Given(name, j)]
<1>1. ASSUME NEW m PROVE LogCfg!Wanted(name, m) = Seqs!FlattenSeq(u(m))
  BY DEF LogCfg!Wanted, LogCfg!FlattenSeq, Seqs!FlattenSeq, Given
<1>2. \A j \in 1..Len(file) : Given(name, j) \in Seq(T)
  <2> TAKE j \in 1..Len(file)
  <2>1. file[j] \in Entry
    <3> HIDE DEF Entry
    <3> QED OBVIOUS
  <2>2. file[j].appends \in Seq(T) BY <2>1 DEF Entry
  <2>3. << >> \in Seq(T) OBVIOUS
  <2> HIDE DEF T
  <2> QED BY <2>2, <2>3 DEF Given
<1>3. Len(file) \in Nat /\ n \in Nat /\ n - 1 \in Nat /\ (n - 1) + 1 = n
  <2>1. Len(file) \in Nat OBVIOUS
  <2> QED BY <2>1
<1> HIDE DEF T
<1>4. u(n - 1) \in Seq(Seq(T)) /\ u(n) \in Seq(Seq(T)) /\ Len(u(n - 1)) = n - 1 /\ Len(u(n)) = n
  <2>1. \A j \in 1..n : Given(name, j) \in Seq(T) BY <1>2, <1>3
  <2>2. \A j \in 1..(n - 1) : Given(name, j) \in Seq(T) BY <1>2, <1>3
  <2> QED BY <1>3, <2>1, <2>2
<1> DEFINE v == Append(u(n - 1), Given(name, n))
<1>5. Given(name, n) \in Seq(T) BY <1>2
<1>6. v = u(n)
  <2>1. /\ v \in Seq(Seq(T)) /\ Len(v) = n /\ v[n] = Given(name, n)
        /\ \A j \in 1..(n - 1) : v[j] = u(n - 1)[j]
    <3> HIDE DEF u
    <3>1. /\ Append(u(n - 1), Given(name, n)) \in Seq(Seq(T))
          /\ Len(Append(u(n - 1), Given(name, n))) = Len(u(n - 1)) + 1
          /\ \A j \in 1..Len(u(n - 1)) : Append(u(n - 1), Given(name, n))[j] = u(n - 1)[j]
          /\ Append(u(n - 1), Given(name, n))[Len(u(n - 1)) + 1] = Given(name, n)
      BY <1>4, <1>5, AppendProperties
    <3> QED BY <1>3, <1>4, <3>1
  <2>2. \A j \in 1..(n - 1) : u(n - 1)[j] = Given(name, j) OBVIOUS
  <2>3. \A j \in 1..n : u(n)[j] = Given(name, j) OBVIOUS
  <2> HIDE DEF u, v
  <2>4. \A j \in 1..n : j = n \/ j \in 1..(n - 1) BY <1>3
  <2>5. \A j \in 1..n : v[j] = u(n)[j] BY <2>1, <2>2, <2>3, <2>4
  <2> QED BY <1>4, <2>1, <2>5, SeqEqual
<1> HIDE DEF u
<1>7. Seqs!FlattenSeq(v) = Seqs!FlattenSeq(u(n - 1)) \o Given(name, n) BY <1>4, <1>5, FlattenAppend
<1> QED BY <1>1, <1>6, <1>7

\* The appenders of each logger are those of the entries before k, and every
\* logger that was named there exists.
Agreed(name, n) ==
    /\ Of(name) \in Seq(App)
    /\ LogCfg!Wanted(name, n) \in Seq(LogCfg!AppText)
    /\ LogCfg!AsTexts(Of(name), LogCfg!Wanted(name, n))

CfgInv ==
    /\ file \in Seq(Entry)
    /\ k \in 1..(Len(file) + 1)
    /\ logPhase \in {"init", "up", "crashed"}
    /\ DOMAIN m_loggers \subseteq LoggerNames
    /\ \A name \in DOMAIN m_loggers : m_loggers[name].level \in LogCfg!Level /\ m_loggers[name].appends \in Seq(App)
    /\ logPhase = "up" => k = Len(file) + 1
    /\ logPhase # "crashed" =>
         /\ \A n \in 1..(k - 1) : file[n].name # 0 => file[n].name \in DOMAIN m_loggers
         /\ \A name \in LoggerNames : Agreed(name, k - 1)

LEMMA CfgInitial == MCInit => CfgInv
<1> SUFFICES ASSUME LogCfg!Init PROVE CfgInv BY DEF MCInit
<1>1. file \in Seq(Entry)
  <2>1. PICK n \in 0..MaxDefs : file \in [1..n -> LogCfg!LogText] BY DEF LogCfg!Init
  <2>2. n \in Nat BY LoggersAssumption
  <2>3. \A e \in LogCfg!LogText : e \in Entry
    <3> TAKE e \in LogCfg!LogText
    <3>1. PICK m \in 0..MaxApps : e.appends \in [1..m -> LogCfg!AppText] BY DEF LogCfg!LogText
    <3>2. m \in Nat BY LoggersAssumption
    <3> DEFINE T == LogCfg!AppText
    <3>3. e.appends \in Seq(T)
      <4> HIDE DEF T
      <4>1. e.appends \in [1..m -> T] BY <3>1 DEF T
      <4> QED BY <3>2, <4>1
    <3> QED BY <3>3 DEF LogCfg!LogText, Entry
  <2> HIDE DEF Entry
  <2>4. file \in [1..n -> Entry] BY <2>1, <2>3
  <2> QED BY <2>2, <2>4
<1>2. k = 1 /\ logPhase = "init" /\ m_loggers = << >> BY DEF LogCfg!Init
<1>3. DOMAIN m_loggers = {} BY <1>2
<1>4. ASSUME NEW name PROVE Agreed(name, 0)
  <2> DEFINE T == LogCfg!AppText
  <2>1. LogCfg!Wanted(name, 0) = << >> BY WantedNone
  <2>2. Of(name) = << >> BY <1>3 DEF Of
  <2> HIDE DEF T, App
  <2>3. << >> \in Seq(T) /\ << >> \in Seq(App) OBVIOUS
  <2>4. LogCfg!AsTexts(<< >>, << >>) BY DEF LogCfg!AsTexts
  <2> QED BY <2>1, <2>2, <2>3, <2>4 DEF Agreed, T
<1>5. 1 \in 1..(Len(file) + 1) /\ 1 - 1 = 0 /\ 1..0 = {}
  <2>1. Len(file) \in Nat
    <3> HIDE DEF Entry
    <3> QED BY <1>1
  <2> QED BY <2>1
<1> HIDE DEF Entry, App
<1> QED BY <1>1, <1>2, <1>3, <1>4, <1>5 DEF CfgInv

\* A logger that is looked up has no appenders yet if it is new.
Got(loggers, name) ==
    /\ DOMAIN loggers = DOMAIN m_loggers \cup {name}
    /\ \A n \in DOMAIN loggers : loggers[n].level \in LogCfg!Level /\ loggers[n].appends = Of(n)
    /\ loggers[name].appends = Of(name)

LEMMA GotLogger ==
    ASSUME CfgInv, NEW name
    PROVE  Got(LogCfg!getLogger(m_loggers, name), name)
<1> DEFINE loggers == LogCfg!getLogger(m_loggers, name)
<1>1. loggers = [n \in DOMAIN m_loggers \cup {name} |->
                   IF n \in DOMAIN m_loggers THEN m_loggers[n] ELSE [level |-> 0, appends |-> << >>]]
  BY DEF LogCfg!getLogger
<1>2. DOMAIN loggers = DOMAIN m_loggers \cup {name} BY <1>1
<1>3. ASSUME NEW n \in DOMAIN loggers PROVE loggers[n].level \in LogCfg!Level /\ loggers[n].appends = Of(n)
  <2>1. CASE n \in DOMAIN m_loggers
    <3>1. loggers[n] = m_loggers[n] /\ m_loggers[n].level \in LogCfg!Level BY <1>1, <2>1 DEF CfgInv
    <3> QED BY <2>1, <3>1 DEF Of
  <2>2. CASE n \notin DOMAIN m_loggers
    <3>1. loggers[n] = [level |-> 0, appends |-> << >>] BY <1>1, <1>2, <2>2
    <3>2. 0 \in LogCfg!Level BY DEF LogCfg!Level
    <3> QED BY <2>2, <3>1, <3>2 DEF Of
  <2> QED BY <2>1, <2>2
<1> HIDE DEF loggers
<1>4. Got(loggers, name) BY <1>2, <1>3 DEF Got
<1> QED BY <1>4 DEF loggers

LEMMA OfType == CfgInv => \A name : Of(name) \in Seq(App)
<1> SUFFICES ASSUME CfgInv, NEW name PROVE Of(name) \in Seq(App) OBVIOUS
<1> HIDE DEF App
<1>1. << >> \in Seq(App) OBVIOUS
<1> QED BY <1>1 DEF CfgInv, Of

LEMMA SameWanted ==
    ASSUME file' = file
    PROVE  \A name, n : LogCfg!Wanted(name, n)' = LogCfg!Wanted(name, n)
BY DEF LogCfg!Wanted

LEMMA findLoggerInv ==
    ASSUME CfgInv, NEW name \in LoggerNames, LogCfg!findLogger(name)
    PROVE  CfgInv'
<1> DEFINE loggers == LogCfg!getLogger(m_loggers, name)
<1>1. m_loggers' = loggers /\ file' = file /\ k' = k /\ logPhase' = logPhase BY DEF LogCfg!findLogger
<1> HIDE DEF loggers
<1>2. /\ DOMAIN m_loggers' = DOMAIN m_loggers \cup {name}
      /\ \A n \in DOMAIN m_loggers' : m_loggers'[n].level \in LogCfg!Level /\ m_loggers'[n].appends = Of(n)
  <2>1. /\ DOMAIN loggers = DOMAIN m_loggers \cup {name}
        /\ \A n \in DOMAIN loggers : loggers[n].level \in LogCfg!Level /\ loggers[n].appends = Of(n)
    <3>1. loggers = LogCfg!getLogger(m_loggers, name) BY DEF loggers
    <3> QED BY <3>1, GotLogger DEF Got
  <2> QED BY <1>1, <2>1
<1>3. \A n : Of(n)' = Of(n)
  <2> TAKE n
  <2>1. CASE n \in DOMAIN m_loggers' BY <1>2, <2>1 DEF Of
  <2>2. CASE n \notin DOMAIN m_loggers' BY <1>2, <2>2 DEF Of
  <2> QED BY <2>1, <2>2
<1>4. \A n, m : Agreed(n, m)' <=> Agreed(n, m)
  <2> HIDE DEF App
  <2> QED BY <1>1, <1>3, SameWanted DEF Agreed, LogCfg!AsTexts
<1> HIDE DEF Entry, App
<1>5. \A n \in DOMAIN m_loggers' : m_loggers'[n].level \in LogCfg!Level /\ m_loggers'[n].appends \in Seq(App)
  BY <1>2, OfType
<1>6. DOMAIN m_loggers' \subseteq LoggerNames BY <1>2 DEF CfgInv
<1>7. logPhase # "crashed" => \A n \in 1..(k - 1) : file[n].name # 0 => file[n].name \in DOMAIN m_loggers'
  BY <1>2 DEF CfgInv
<1>8. logPhase # "crashed" => \A n \in LoggerNames : Agreed(n, k - 1)'
  BY <1>1, <1>4 DEF CfgInv
<1> QED BY <1>1, <1>5, <1>6, <1>7, <1>8 DEF CfgInv

LEMMA fromYamlInv ==
    ASSUME CfgInv, LogCfg!fromYaml
    PROVE  CfgInv'
<1> DEFINE log == file[k]
           made == [j \in DOMAIN log.appends |-> LogCfg!LogAppDef(log.appends[j])]
           loggers == LogCfg!getLogger(m_loggers, log.name)
           bad == \E j \in DOMAIN made : made[j].type = 1 /\ made[j].path = LogCfg!NoText
<1>1. /\ logPhase = "init" /\ k <= Len(file) /\ k' = k + 1 /\ file' = file
      /\ log.name = 0 => m_loggers' = m_loggers /\ logPhase' = logPhase
      /\ log.name # 0 /\ bad => m_loggers' = m_loggers /\ logPhase' = "crashed"
      /\ log.name # 0 /\ ~bad =>
           /\ m_loggers' = [loggers EXCEPT ![log.name] =
                 [level |-> LogCfg!FromString(log.level), appends |-> @.appends \o made]]
           /\ logPhase' = logPhase
  BY DEF LogCfg!fromYaml
<1> DEFINE E == Entry
           T == LogCfg!AppText
<1>2. file \in Seq(E) /\ k \in 1..(Len(file) + 1) /\ DOMAIN m_loggers \subseteq LoggerNames
  BY DEF CfgInv
<1> HIDE DEF E
<1>3. Len(file) \in Nat /\ k \in 1..Len(file) /\ (k + 1) - 1 = k /\ k + 1 \in 1..(Len(file) + 1) /\ k - 1 \in Nat
  <2>1. PICK len \in Nat : len = Len(file) BY <1>2
  <2>2. k \in 1..(len + 1) /\ k <= len BY ONLY <1>1, <1>2, <2>1, Zenon
  <2>3. k \in 1..len /\ (k + 1) - 1 = k /\ k + 1 \in 1..(len + 1) /\ k - 1 \in Nat BY ONLY <2>2, len \in Nat
  <2> QED BY ONLY <2>1, <2>3, Zenon
<1>4. log \in E BY <1>2, <1>3
<1>5. log.name \in LoggerNames \cup {0} /\ log.appends \in Seq(T) BY <1>4 DEF E, Entry
<1>6. \A name : LogCfg!Wanted(name, k) = LogCfg!Wanted(name, k - 1) \o Given(name, k)
  BY <1>2, <1>3, WantedNext DEF E
<1>7. \A name : LogCfg!Wanted(name, k - 1)' = LogCfg!Wanted(name, k)
  BY <1>1, <1>3 DEF LogCfg!Wanted
<1>8. \A name \in LoggerNames : Agreed(name, k - 1) BY <1>1 DEF CfgInv
<1>9. \A n \in 1..(k - 1) : file[n].name # 0 => file[n].name \in DOMAIN m_loggers BY <1>1 DEF CfgInv
<1>10. \A n \in 1..k : n = k \/ n \in 1..(k - 1) BY <1>3
\* A logger the entry is not about keeps its appenders.
<1>11. ASSUME NEW name \in LoggerNames, name # log.name, Of(name)' = Of(name)
      PROVE  Agreed(name, k - 1)'
  <2>1. LogCfg!Wanted(name, k - 1) \in Seq(T) BY <1>8 DEF Agreed, T
  <2> HIDE DEF T
  <2>2. Given(name, k) = << >> BY <1>11 DEF Given
  <2>3. LogCfg!Wanted(name, k - 1) \o << >> = LogCfg!Wanted(name, k - 1) BY <2>1, ConcatEmptySeq
  <2>4. LogCfg!Wanted(name, k - 1)' = LogCfg!Wanted(name, k - 1) BY <1>6, <1>7, <2>2, <2>3
  <2> HIDE DEF App
  <2>5. Agreed(name, k - 1) BY <1>8
  <2> QED BY <1>11, <2>4, <2>5 DEF Agreed
<1>12. CASE log.name = 0
  <2>1. m_loggers' = m_loggers /\ logPhase' = logPhase BY <1>1, <1>12
  <2>2. \A name : Of(name)' = Of(name) BY <2>1 DEF Of
  <2>3. \A name \in LoggerNames : Agreed(name, k - 1)'
    <3>1. \A name \in LoggerNames : name # 0 BY LoggersAssumption
    <3> QED BY <1>11, <1>12, <2>2, <3>1
  <2>4. (\A n \in 1..(k - 1) : file[n].name # 0 => file[n].name \in DOMAIN m_loggers)'
    BY <1>1, <1>3, <1>9, <1>10, <1>12, <2>1
  <2> HIDE DEF Entry, App
  <2> QED BY <1>1, <1>2, <1>3, <2>1, <2>3, <2>4 DEF CfgInv
<1>13. CASE log.name # 0 /\ bad
  <2>1. m_loggers' = m_loggers /\ logPhase' = "crashed" BY <1>1, <1>13
  <2> HIDE DEF Entry, App
  <2> QED BY <1>1, <1>2, <1>3, <2>1 DEF CfgInv
<1>14. CASE log.name # 0 /\ ~bad
  <2>1. PICK name \in LoggerNames : name = log.name BY <1>5, <1>14
  <2>2. /\ DOMAIN loggers = DOMAIN m_loggers \cup {name}
        /\ \A n \in DOMAIN loggers : loggers[n].level \in LogCfg!Level /\ loggers[n].appends = Of(n)
        /\ loggers[name].appends = Of(name)
    BY <2>1, GotLogger DEF Got
  <2>3. LogCfg!FromString(log.level) \in LogCfg!Level BY LevelOfText
  <2> DEFINE level == LogCfg!FromString(log.level)
  <2>4. /\ m_loggers' = [loggers EXCEPT ![name] = [level |-> level, appends |-> Of(name) \o made]]
        /\ logPhase' = logPhase
    BY <1>1, <1>14, <2>1, <2>2
  <2>5. \A j \in DOMAIN log.appends : Usable(log.appends[j])
    <3> TAKE j \in DOMAIN log.appends
    <3>1. log.appends[j] \in T
      <4> HIDE DEF T
      <4> QED BY <1>5
    <3>2. made[j] = LogCfg!LogAppDef(log.appends[j]) /\ j \in DOMAIN made OBVIOUS
    <3>3. ~(made[j].type = 1 /\ made[j].path = LogCfg!NoText) BY <1>14, <3>2
    <3> QED BY <3>1, <3>2, <3>3, AppOfText DEF Usable, T
  <2>6. Of(name) \in Seq(App) /\ LogCfg!Wanted(name, k - 1) \in Seq(LogCfg!AppText)
        /\ LogCfg!AsTexts(Of(name), LogCfg!Wanted(name, k - 1))
    BY <1>8, <2>1 DEF Agreed
  <2> DEFINE new == log.appends
  <2>7. new \in Seq(LogCfg!AppText) /\ made = [n \in DOMAIN new |-> LogCfg!LogAppDef(new[n])]
    BY <1>5
  <2> HIDE DEF new, made, loggers, bad
  <2>8. /\ Of(name) \o made \in Seq(App)
        /\ LogCfg!Wanted(name, k - 1) \o new \in Seq(LogCfg!AppText)
        /\ LogCfg!AsTexts(Of(name) \o made, LogCfg!Wanted(name, k - 1) \o new)
    <3>1. \A n \in DOMAIN new : Usable(new[n]) BY <2>5 DEF new
    <3> QED BY <2>6, <2>7, <3>1, AsTextsJoin
  <2>9. LogCfg!Wanted(name, k - 1)' = LogCfg!Wanted(name, k - 1) \o new
    <3>1. Given(name, k) = new BY <2>1 DEF Given, new
    <3> QED BY <1>6, <1>7, <3>1
  <2>10. /\ DOMAIN m_loggers' = DOMAIN m_loggers \cup {name}
         /\ m_loggers'[name].level \in LogCfg!Level /\ m_loggers'[name].appends = Of(name) \o made
         /\ \A n \in DOMAIN m_loggers' \ {name} : m_loggers'[n] = loggers[n]
    <3> HIDE DEF level
    <3>1. m_loggers'[name] = [level |-> level, appends |-> Of(name) \o made] BY <2>2, <2>4
    <3>2. m_loggers'[name].level = level /\ m_loggers'[name].appends = Of(name) \o made BY <3>1
    <3>3. level \in LogCfg!Level BY <2>3 DEF level
    <3>4. DOMAIN m_loggers' = DOMAIN m_loggers \cup {name} BY <2>2, <2>4
    <3>5. \A n \in DOMAIN m_loggers' \ {name} : m_loggers'[n] = loggers[n] BY <2>2, <2>4
    <3> QED BY <3>2, <3>3, <3>4, <3>5
  <2>11. Of(name)' = Of(name) \o made BY <1>1, <2>10 DEF Of
  <2>12. ASSUME NEW n \in LoggerNames, n # name PROVE Of(n)' = Of(n)
    <3>1. CASE n \in DOMAIN m_loggers'
      <4>1. m_loggers'[n] = loggers[n] /\ n \in DOMAIN loggers BY <2>2, <2>10, <2>12, <3>1
      <4> QED BY <2>2, <3>1, <4>1 DEF Of
    <3>2. CASE n \notin DOMAIN m_loggers' BY <2>10, <3>2 DEF Of
    <3> QED BY <3>1, <3>2
  <2>13. \A n \in LoggerNames : Agreed(n, k - 1)'
    <3>1. Agreed(name, k - 1)'
      <4> HIDE DEF App
      <4> QED BY <2>8, <2>9, <2>11 DEF Agreed
    <3> QED BY <1>11, <2>1, <2>12, <3>1
  <2>14. \A n \in DOMAIN m_loggers' : m_loggers'[n].level \in LogCfg!Level /\ m_loggers'[n].appends \in Seq(App)
    <3> HIDE DEF App
    <3> TAKE n \in DOMAIN m_loggers'
    <3>1. CASE n = name BY <2>8, <2>10, <3>1
    <3>2. CASE n # name
      <4>1. m_loggers'[n] = loggers[n] /\ n \in DOMAIN loggers BY <2>2, <2>10, <3>2
      <4> QED BY <2>2, <4>1, OfType
    <3> QED BY <3>1, <3>2
  <2>15. (\A n \in 1..(k - 1) : file[n].name # 0 => file[n].name \in DOMAIN m_loggers)'
    BY <1>1, <1>3, <1>9, <1>10, <2>1, <2>10
  <2>16. DOMAIN m_loggers' \subseteq LoggerNames BY <1>2, <2>10
  <2> HIDE DEF Entry, App
  <2> QED BY <1>1, <1>2, <1>3, <2>4, <2>13, <2>14, <2>15, <2>16 DEF CfgInv, E
<1> QED BY <1>12, <1>13, <1>14

LEMMA LogIniterInv ==
    ASSUME CfgInv, LogCfg!LogIniter
    PROVE  CfgInv'
<1>1. /\ logPhase = "init" /\ k > Len(file) /\ logPhase' = "up"
      /\ file' = file /\ k' = k /\ m_loggers' = m_loggers
  BY DEF LogCfg!LogIniter
<1> HIDE DEF Entry, App
<1>2. file \in Seq(Entry) /\ k \in 1..(Len(file) + 1) BY DEF CfgInv
<1>3. k = Len(file) + 1
  <2>1. Len(file) \in Nat BY <1>2
  <2> QED BY <1>1, <1>2, <2>1
<1>4. \A name, n : Agreed(name, n)' <=> Agreed(name, n)
  <2>1. \A name : Of(name)' = Of(name) BY <1>1 DEF Of
  <2> QED BY <1>1, <2>1, SameWanted DEF Agreed
<1>5. (\A name \in LoggerNames : Agreed(name, k - 1))' BY <1>1, <1>4 DEF CfgInv
<1> QED BY <1>1, <1>3, <1>5 DEF CfgInv

LEMMA CfgSame ==
    ASSUME CfgInv, UNCHANGED <<file, k, m_loggers, logPhase>>
    PROVE  CfgInv'
<1> HIDE DEF Entry, App
<1>1. \A name, n : Agreed(name, n)' <=> Agreed(name, n)
  <2>1. \A name : Of(name)' = Of(name) BY DEF Of
  <2> QED BY <2>1, SameWanted DEF Agreed
<1>2. logPhase # "crashed" => (\A name \in LoggerNames : Agreed(name, k - 1))' BY <1>1 DEF CfgInv
<1> QED BY <1>2 DEF CfgInv

LEMMA CfgStep ==
    ASSUME CfgInv,
           [MCNext]_<<part, serverVars, addrVars, logConfigVars, loggerVars, formatterVars, bitVars>>
    PROVE  CfgInv'
<1>1. CASE LogCfg!Next
  <2>1. CASE LogCfg!toYamlString
    <3>1. UNCHANGED <<file, k, m_loggers, logPhase>> BY <2>1 DEF LogCfg!toYamlString
    <3> QED BY <3>1, CfgSame
  <2> QED BY <1>1, <2>1, fromYamlInv, LogIniterInv, findLoggerInv DEF LogCfg!Next
<1>2. CASE UNCHANGED logConfigVars BY <1>2, CfgSame DEF logConfigVars
<1> QED BY <1>1, <1>2 DEF MCNext

\* For any configuration, loggers, texts and files: once LogIniter is through,
\* every logger has the appenders of all its entries, in their order, whoever
\* asked for it first.
THEOREM AppendersTheorem == MCSpec => []AppendersAsConfigured
<1>1. CfgInv => AppendersAsConfigured
  <2> SUFFICES ASSUME CfgInv PROVE LogCfg!TypeOK /\ LogCfg!AppendersAsConfigured
    BY DEF AppendersAsConfigured
  <2>2. LogCfg!TypeOK BY DEF CfgInv, LogCfg!TypeOK, App
  <2>3. ASSUME logPhase = "up" PROVE LogCfg!AppendersAsConfigured
    <3> HIDE DEF Entry, App
    <3>1. Len(file) \in Nat /\ DOMAIN file = 1..Len(file) BY DEF CfgInv
    <3>2. k - 1 = Len(file) BY <2>3, <3>1 DEF CfgInv
    <3>3. \A n \in DOMAIN file : file[n].name # 0 => file[n].name \in DOMAIN m_loggers
      BY <2>3, <3>1, <3>2 DEF CfgInv
    <3>4. ASSUME NEW name \in DOMAIN m_loggers
          PROVE  LogCfg!AsTexts(m_loggers[name].appends, LogCfg!Wanted(name, Len(file)))
      <4>1. name \in LoggerNames BY DEF CfgInv
      <4>2. Agreed(name, Len(file)) BY <2>3, <3>2, <4>1 DEF CfgInv
      <4>3. Of(name) = m_loggers[name].appends BY DEF Of
      <4> QED BY <4>1, <4>2, <4>3 DEF Agreed
    <3> QED BY <3>3, <3>4 DEF LogCfg!AppendersAsConfigured
  <2> QED BY <2>2, <2>3 DEF LogCfg!AppendersAsConfigured
<1>2. CfgInv /\ [MCNext]_<<part, serverVars, addrVars, logConfigVars, loggerVars, formatterVars, bitVars>> => CfgInv'
  BY CfgStep
<1> QED BY <1>1, <1>2, CfgInitial, PTL DEF MCSpec

----------------------------------------------------------------------------
(* The bit registers.                                                         *)

\* Clearing the lowest bit as often as it takes counts the bits.
LEMMA BitAmount ==
    ASSUME NEW v, v \subseteq Nat, IsFiniteSet(v)
    PROVE  Lua!getBitAmount(v) = Cardinality(v)
<1> DEFINE Counts(g) == g = [s \in SUBSET v |-> IF s = {} THEN 0 ELSE 1 + g[s \ {Lua!Min(s)}]]
           card == [s \in SUBSET v |-> Cardinality(s)]
<1>1. ASSUME NEW s \in SUBSET v, s # {}
      PROVE  /\ Lua!Min(s) \in s /\ s \ {Lua!Min(s)} \in SUBSET v
             /\ Cardinality(s) \in Nat
             /\ Cardinality(s) = 1 + Cardinality(s \ {Lua!Min(s)})
             /\ Cardinality(s \ {Lua!Min(s)}) \in Nat
  <2>1. IsFiniteSet(s) BY FS_Subset
  <2>2. \E x \in s : \A y \in s : x <= y BY <1>1, Smallest
  <2>3. Lua!Min(s) \in s BY <2>2 DEF Lua!Min
  <2> DEFINE t == s \ {Lua!Min(s)}
  <2>4. IsFiniteSet(t) /\ Cardinality(t) = Cardinality(s) - 1 BY <2>1, <2>3, FS_RemoveElement
  <2>5. Cardinality(s) \in Nat /\ Cardinality(t) \in Nat BY <2>1, <2>4, FS_CardinalityType
  <2>6. Cardinality(s) = 1 + Cardinality(t) BY <2>4, <2>5
  <2> QED BY <2>3, <2>5, <2>6
<1>2. Counts(card)
  <2>1. ASSUME NEW s \in SUBSET v
        PROVE  Cardinality(s) = IF s = {} THEN 0 ELSE 1 + card[s \ {Lua!Min(s)}]
    <3>1. CASE s = {} BY <3>1, FS_EmptySet
    <3>2. CASE s # {} BY <1>1, <3>2
    <3> QED BY <3>1, <3>2
  <2> QED BY <2>1
<1> DEFINE amt == CHOOSE g : Counts(g)
<1>3. Counts(amt) BY <1>2
<1>4. Lua!getBitAmount(v) = amt[v] BY DEF Lua!getBitAmount
<1> HIDE DEF amt
<1>5. \A s \in SUBSET v : amt[s] = IF s = {} THEN 0 ELSE 1 + amt[s \ {Lua!Min(s)}] BY <1>3
<1> DEFINE Q == {n \in Nat : \A s \in SUBSET v : Cardinality(s) = n => amt[s] = n}
<1>6. 0 \in Q
  <2> SUFFICES ASSUME NEW s \in SUBSET v, Cardinality(s) = 0 PROVE amt[s] = 0 OBVIOUS
  <2>1. s = {}
    <3>1. IsFiniteSet(s) BY FS_Subset
    <3> QED BY <3>1, FS_EmptySet
  <2> QED BY <1>5, <2>1
<1>7. ASSUME NEW n \in Nat, n \in Q PROVE n + 1 \in Q
  <2> SUFFICES ASSUME NEW s \in SUBSET v, Cardinality(s) = n + 1 PROVE amt[s] = n + 1 OBVIOUS
  <2>1. s # {} BY FS_EmptySet
  <2> DEFINE t == s \ {Lua!Min(s)}
  <2>2. t \in SUBSET v /\ Cardinality(t) = n BY <1>1, <2>1
  <2>3. amt[t] = n BY <1>7, <2>2
  <2>4. amt[s] = 1 + amt[t] BY <1>5, <2>1
  <2> QED BY <2>3, <2>4
<1>8. Nat \subseteq Q
  <2> HIDE DEF Q
  <2> QED BY <1>6, <1>7, Induct
<1>9. Cardinality(v) \in Nat BY FS_CardinalityType
<1> QED BY <1>4, <1>8, <1>9

\* The bits of the number are those that were last set to 1.
BitInv ==
    /\ val \subseteq 0..(IntBits - 1)
    /\ flags \in [0..(IntBits - 1) -> BOOLEAN]
    /\ \A b \in 0..(IntBits - 1) : flags[b] <=> b \in val

LEMMA setBitInv ==
    ASSUME BitInv, NEW p \in Positions, NEW bit \in 0..2, Lua!setBit(p, bit)
    PROVE  BitInv'
<1> DEFINE N == 0..(IntBits - 1)
<1>1. IntBits \in Nat \ {0} BY BitsAssumption
<1>2. PICK b : b = Lua!Bit(p) OBVIOUS
<1>3. b \in N /\ (p + IntBits - 1) % IntBits = b
  <2>0. p \in Int BY PositionsAssumption
  <2>1. p - 1 \in Int /\ p + IntBits - 1 = (p - 1) + IntBits BY <1>1, <2>0
  <2>2. ((p - 1) + IntBits) % IntBits = (p - 1) % IntBits /\ (p - 1) % IntBits \in 0..(IntBits - 1)
    BY <1>1, <2>1, OneTurn
  <2>3. b = (p - 1) % IntBits BY <1>2 DEF Lua!Bit
  <2> QED BY <2>1, <2>2, <2>3
<1>4. /\ bit = 1 => val' = val \cup {b}
      /\ bit = 0 => val' = val \ {b}
      /\ bit = 2 => val' = val
  <2>1. bit = 0 \/ bit = 1 \/ bit = 2 OBVIOUS
  <2> QED BY <1>2, <2>1 DEF Lua!setBit
<1>5. flags' = IF bit \in {0, 1} THEN [flags EXCEPT ![b] = (bit = 1)] ELSE flags
  BY <1>3 DEF Lua!setBit
<1>6. CASE bit = 1
  <2>1. flags' = [flags EXCEPT ![b] = TRUE] BY <1>5, <1>6, Zenon
  <2>2. val' = val \cup {b} BY <1>4, <1>6
  <2> HIDE DEF N
  <2>3. val \subseteq N /\ flags \in [N -> BOOLEAN] /\ \A c \in N : flags[c] <=> c \in val BY DEF BitInv, N
  <2>4. val' \subseteq N BY <1>3, <2>2, <2>3
  <2>5. flags' \in [N -> BOOLEAN] BY <1>3, <2>1, <2>3
  <2>6. \A c \in N : flags'[c] <=> c \in val' BY <1>3, <2>1, <2>2, <2>3
  <2> QED BY <2>4, <2>5, <2>6 DEF BitInv, N
<1>7. CASE bit = 0
  <2>1. flags' = [flags EXCEPT ![b] = FALSE]
    <3>1. bit \in {0, 1} /\ (bit = 1) = FALSE BY <1>7
    <3> QED BY <1>5, <3>1, Zenon
  <2>2. val' = val \ {b} BY <1>4, <1>7
  <2> HIDE DEF N
  <2>3. val \subseteq N /\ flags \in [N -> BOOLEAN] /\ \A c \in N : flags[c] <=> c \in val BY DEF BitInv, N
  <2>4. val' \subseteq N BY <1>3, <2>2, <2>3
  <2>5. flags' \in [N -> BOOLEAN] BY <1>3, <2>1, <2>3
  <2>6. \A c \in N : flags'[c] <=> c \in val' BY <1>3, <2>1, <2>2, <2>3
  <2> QED BY <2>4, <2>5, <2>6 DEF BitInv, N
<1>8. CASE bit = 2
  <2>1. flags' = flags /\ val' = val BY <1>4, <1>5, <1>8
  <2> QED BY <2>1 DEF BitInv
<1> QED BY <1>6, <1>7, <1>8

LEMMA BitInitial == MCInit => BitInv
<1> SUFFICES ASSUME MCInit PROVE BitInv OBVIOUS
<1>1. val = {} /\ flags = [b \in 0..(IntBits - 1) |-> FALSE] BY DEF MCInit, Lua!Init
<1> QED BY <1>1 DEF BitInv

LEMMA BitStep ==
    ASSUME BitInv,
           [MCNext]_<<part, serverVars, addrVars, logConfigVars, loggerVars, formatterVars, bitVars>>
    PROVE  BitInv'
<1>1. CASE Lua!Next BY <1>1, setBitInv DEF Lua!Next
<1>2. CASE UNCHANGED bitVars BY <1>2 DEF bitVars, BitInv
<1> QED BY <1>1, <1>2 DEF MCNext

\* For numbers of any width and positions inside them or not: getBit gives what
\* setBit set last, and getBitAmount counts the bits that are set.
THEOREM BitsTheorem == MCSpec => []BitsKept
<1>1. BitInv => BitsKept
  <2> SUFFICES ASSUME BitInv PROVE Lua!TypeOK /\ Lua!BitsKept BY DEF BitsKept
  <2>1. IntBits \in Nat \ {0} BY BitsAssumption
  <2> DEFINE N == 0..(IntBits - 1)
  <2>2. Lua!TypeOK BY DEF BitInv, Lua!TypeOK
  <2>3. \A p \in 1..IntBits : Lua!getBit(val, p) <=> flags[p - 1]
    <3> TAKE p \in 1..IntBits
    <3>1. p - 1 \in N BY <2>1
    <3>2. (p - 1) % IntBits = p - 1
      <4>1. p - 1 = 0 * IntBits + (p - 1) BY <2>1, <3>1
      <4> QED BY <2>1, <3>1
    <3>3. Lua!Bit(p) = p - 1 BY <3>2 DEF Lua!Bit
    <3>4. flags[p - 1] <=> p - 1 \in val BY <3>1 DEF BitInv
    <3> QED BY <3>3, <3>4, Zenon DEF Lua!getBit
  <2>4. Lua!getBitAmount(val) = Cardinality(val)
    <3>1. IsFiniteSet(N) BY <2>1, FS_Interval
    <3>2. val \in SUBSET N /\ val \subseteq Nat BY <2>1 DEF BitInv
    <3>3. IsFiniteSet(val)
      <4> HIDE DEF N
      <4> QED BY <3>1, <3>2, FS_Subset
    <3> QED BY <3>2, <3>3, BitAmount
  <2>5. {b \in N : flags[b]} = val BY DEF BitInv
  <2>6. \A S : Lua!Cardinality(S) = Cardinality(S) BY DEF Lua!Cardinality, Cardinality
  <2>7. Lua!getBitAmount(val) = Lua!Cardinality({b \in N : flags[b]}) BY <2>4, <2>5, <2>6
  <2> QED BY <2>2, <2>3, <2>7 DEF Lua!BitsKept
<1>2. BitInv /\ [MCNext]_<<part, serverVars, addrVars, logConfigVars, loggerVars, formatterVars, bitVars>> => BitInv'
  BY BitStep
<1> QED BY <1>1, <1>2, BitInitial, PTL DEF MCSpec
=============================================================================
