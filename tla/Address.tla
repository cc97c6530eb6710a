------------------------------ MODULE Address ------------------------------
(* The subnets of IP addresses (src/address.cc): getBroadcast, getNetwork and *)
(* getSubnetmask of IPv4Address and IPv6Address.  A number is the set of its  *)
(* bits, 0 the lowest, so that | and & ~ are union and difference.            *)
EXTENDS Integers

CONSTANTS
    W,      \* bits of an IPv4 address, and of an int (32)
    G, B,   \* an IPv6 address is an array of G numbers of B bits (8 and 16)
    Ports,
    Ips     \* a few addresses, see IPv4 and IPv6

IPv4 == [family : {4}, port : Ports, ip : SUBSET (0..(W - 1))]

\* The array is followed by sin6_scope_id, which is as long as two elements.
IPv6 == [family : {0, 6}, port : Ports, ip : [0..(G + 1) -> SUBSET (0..(B - 1))]]

VARIABLES
    addr,   \* an address object
    got     \* what the last call returned: its operation, prefix and result

vars == <<addr, got>>

\* No address, in place of the set with the one that is returned.
Nullptr == {}
Init == addr \in Ips /\ got = [op |-> "none", prefix |-> 0, res |-> Nullptr]

----------------------------------------------------------------------------
\* (1 << n) - 1 as the processor computes it: it takes the shift modulo the
\* width of the type, so that a shift by W is a shift by 0.
LowBits(n) == 0..((n % W) - 1)

\* IPv4: the bits of the host, below the prefix.
Host4(prefix) == LowBits(W - prefix)

getBroadcast4(a, prefix) == [a EXCEPT !.ip = @ \cup Host4(prefix)]
getNetwork4(a, prefix) == [a EXCEPT !.ip = @ \ Host4(prefix)]
getSubnetmask4(a, prefix) == [a EXCEPT !.ip = (0..(W - 1)) \ Host4(prefix)]

\* IPv6: the element the prefix ends in, and the bits of it that are masked.
Mid(prefix) == prefix \div B
Masked6(prefix) == 0..((prefix % B) - 1)

getBroadcast6(a, prefix) ==
    [a EXCEPT !.ip = [i \in DOMAIN @ |->
        CASE i = Mid(prefix) -> @[i] \cup Masked6(prefix)
          [] i > Mid(prefix) /\ i < G -> 0..(B - 1)
          [] OTHER -> @[i]]]

\* Faulty variant: the elements behind the prefix are left alone.
getNetwork6Short(a, prefix) ==
    [a EXCEPT !.ip = [i \in DOMAIN @ |->
        IF i = Mid(prefix) THEN @[i] \ Masked6(prefix) ELSE @[i]]]

getNetwork6(a, prefix) ==
    [a EXCEPT !.ip = [i \in DOMAIN @ |->
        CASE i = Mid(prefix) -> @[i] \ Masked6(prefix)
          [] i > Mid(prefix) /\ i < G -> {}
          [] OTHER -> @[i]]]

\* The mask starts from a structure of zeros, of which only the port is set.
getSubnetmask6(a, prefix) ==
    [family |-> 0, port |-> a.port,
     ip |-> [i \in 0..(G + 1) |->
        CASE i = Mid(prefix) -> (0..(B - 1)) \ Masked6(prefix)
          [] i < Mid(prefix) -> 0..(B - 1)
          [] OTHER -> {}]]

Bits(a) == IF a.family = 4 THEN W ELSE G * B

Broadcast(a, prefix) == IF a.family = 4 THEN getBroadcast4(a, prefix) ELSE getBroadcast6(a, prefix)
Network(a, prefix) == IF a.family = 4 THEN getNetwork4(a, prefix) ELSE getNetwork6(a, prefix)
Subnetmask(a, prefix) == IF a.family = 4 THEN getSubnetmask4(a, prefix) ELSE getSubnetmask6(a, prefix)

\* A call.  A prefix that is too long gives a null pointer, but not for the
\* mask of an IPv6 address, whose array is then overrun; prefixes that leave
\* the structure are not called for.
Call(op, prefix) ==
    LET res == IF prefix > Bits(addr) /\ (op # "mask" \/ addr.family = 4) THEN Nullptr
               ELSE CASE op = "broadcast" -> {Broadcast(addr, prefix)}
                      [] op = "network" -> {Network(addr, prefix)}
                      [] OTHER -> {Subnetmask(addr, prefix)}
    IN
    /\ got' = [op |-> op, prefix |-> prefix, res |-> res]
    /\ UNCHANGED addr

\* The caller goes on with the address it was given.
Take ==
    /\ addr' \in got.res
    /\ got' = [op |-> "none", prefix |-> 0, res |-> Nullptr]

setPort(port) == addr' = [addr EXCEPT !.port = port] /\ UNCHANGED got

Next ==
    \/ \E op \in {"broadcast", "network", "mask"}, prefix \in 0..(Bits(addr) + 1) : Call(op, prefix)
    \/ Take
    \/ \E port \in Ports : setPort(port)

Spec == Init /\ [][Next]_vars

----------------------------------------------------------------------------
\* Type invariant.
TypeOK == addr \in IPv4 \cup IPv6 /\ got.res \subseteq IPv4 \cup IPv6

\* The first n bits of an IPv4 address.
First(n) == (W - n)..(W - 1)

\* The IPv4 results are what the prefix says: the mask is its first bits, the
\* network keeps them and clears the others, the broadcast address sets them.
\* The prefix 0 is an exception, because of the shift by the width of an int.
Subnet4Right ==
    addr.family = 4 => \A prefix \in 1..W :
        /\ getSubnetmask4(addr, prefix).ip = First(prefix)
        /\ getNetwork4(addr, prefix).ip = addr.ip \cap First(prefix)
        /\ getBroadcast4(addr, prefix).ip = addr.ip \cup ((0..(W - 1)) \ First(prefix))

\* For IPv6 the three agree with each other at every prefix, whatever the mask
\* is: the network is the address and the mask, the broadcast address is the
\* address or the complement of the mask.
Subnet6Agrees ==
    addr.family # 4 => \A prefix \in 0..(G * B), i \in 0..(G - 1) :
        LET mask == getSubnetmask6(addr, prefix).ip[i] IN
        /\ getNetwork6(addr, prefix).ip[i] = addr.ip[i] \cap mask
        /\ getBroadcast6(addr, prefix).ip[i] = addr.ip[i] \cup ((0..(B - 1)) \ mask)

\* Whichever family the address is of, its mask, network and broadcast address
\* belong to one subnet.
SubnetsRight == Subnet4Right /\ Subnet6Agrees
=============================================================================
