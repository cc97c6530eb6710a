------------------------------ MODULE LuaBits ------------------------------
(* The functions setBit, getBit and getBitAmount that Lua scripts use to keep *)
(* flags in one number (src/luaRegister.cc).  Positions count from 1.         *)
EXTENDS Integers, FiniteSets, FiniteSetsExt

CONSTANTS
    W,           \* bits of an int (32)
    Positions    \* what a script passes as a position

VARIABLES
    val,     \* the number the script keeps, as the set of its bits
    flags    \* ghost: for each bit, whether it was last set to 1

vars == <<val, flags>>

Init == val = {} /\ flags = [b \in 0..(W - 1) |-> FALSE]

\* 1 << (pos - 1): the processor takes the shift modulo the width.
Bit(pos) == (pos - 1) % W

\* setBit(val, pos, bit): any other bit than 0 and 1 leaves val as it is.
setBit(pos, bit) ==
    /\ val' = CASE bit = 1 -> val \cup {Bit(pos)}
                [] bit = 0 -> val \ {Bit(pos)}
                [] OTHER -> val
    /\ flags' = IF bit \in {0, 1} THEN [flags EXCEPT ![(pos + W - 1) % W] = (bit = 1)] ELSE flags

\* Faulty variant: positions count from 0.
getBitFromZero(v, pos) == pos % W \in v

getBit(v, pos) == Bit(pos) \in v

\* val &= val - 1 clears the lowest bit; as often as it takes.
getBitAmount(v) ==
    LET amt[s \in SUBSET v] == IF s = {} THEN 0 ELSE 1 + amt[s \ {Min(s)}] IN amt[v]

Next == \E pos \in Positions, bit \in 0..2 : setBit(pos, bit)

Spec == Init /\ [][Next]_vars

----------------------------------------------------------------------------
\* Type invariant.
TypeOK == val \subseteq 0..(W - 1) /\ flags \in [0..(W - 1) -> BOOLEAN]

\* getBit gives what was set last, for every position of the number (a position
\* outside it is another name of one inside), and getBitAmount counts the bits
\* that are set, the sign bit included.
BitsKept ==
    /\ \A pos \in 1..W : getBit(val, pos) <=> flags[pos - 1]
    /\ getBitAmount(val) = Cardinality({b \in 0..(W - 1) : flags[b]})
=============================================================================
