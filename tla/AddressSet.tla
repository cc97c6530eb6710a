----------------------------- MODULE AddressSet -----------------------------
(* Address::operator< (src/address.cc) as the order of a std::set, which is   *)
(* what address.h says it is for.  An address is the sequence of its bytes;   *)
(* here a family, a port and a host, and a Unix address, which is shorter.    *)
EXTENDS Integers, Sequences, SequencesExt, FiniteSetsExt

CONSTANTS
    Ports,      \* of the IPv4 addresses
    MaxStored   \* bound: insertions

Addresses == {<<2, port, 1>> : port \in Ports} \cup {<<1>>}

VARIABLE stored   \* the elements of the set in their order

vars == <<stored>>

Init == stored = <<>>

\* memcmp of the bytes both have: -1, 0 or 1.
memcmp(a, b) ==
    LET diff == {n \in 1..Len(a) : n <= Len(b) /\ a[n] # b[n]} IN
    IF diff = {} THEN 0 ELSE IF a[Min(diff)] < b[Min(diff)] THEN -1 ELSE 1

\* operator<: addresses with the same bytes fall through to `return true'.
less(a, b) == memcmp(a, b) <= 0

\* std::set::insert: before the first element the new one is less than, unless
\* the element before that place is not less than the new one.
insert(a) ==
    LET above == {n \in DOMAIN stored : less(a, stored[n])}
        place == IF above = {} THEN Len(stored) + 1 ELSE Min(above)
    IN
    /\ Len(stored) < MaxStored
    /\ stored' = IF place > 1 /\ ~less(stored[place - 1], a) THEN stored
                 ELSE InsertAt(stored, place, a)

Next == \E a \in Addresses : insert(a)

Spec == Init /\ [][Next]_vars

----------------------------------------------------------------------------
\* operator< is there "so that addresses can be compared in a set or another
\* container" (address.h): a set holds an address at most once.
NoDuplicates == \A m, n \in DOMAIN stored : m # n => stored[m] # stored[n]
=============================================================================
