----------------------------- MODULE ByteQueue -----------------------------
(***************************************************************************)
(* What a ByteArray promises to its callers (src/src/byteArray.h): a queue *)
(* of bytes.  write appends all of its bytes; read takes exactly as many   *)
(* bytes as asked for from the front, or returns false and takes none.     *)
(***************************************************************************)
EXTENDS Naturals, Sequences

CONSTANTS Byte, MaxOp, MaxTotal

VARIABLES
    q,    \* the bytes written and not yet read
    ret,  \* what the last read returned: ok, and its bytes
    total \* number of bytes written so far (bounds the model)

vars == <<q, ret, total>>

Init ==
    /\ q = << >>
    /\ ret = [ok |-> TRUE, bytes |-> << >>]
    /\ total = 0

Write(b) ==
    /\ total + Len(b) <= MaxTotal
    /\ q' = q \o b
    /\ total' = total + Len(b)
    /\ UNCHANGED ret

Read(n) ==
    /\ n <= Len(q)
    /\ q' = SubSeq(q, n + 1, Len(q))
    /\ ret' = [ok |-> TRUE, bytes |-> SubSeq(q, 1, n)]
    /\ UNCHANGED total

ReadFails(n) ==
    /\ n > Len(q)
    /\ ret' = [ok |-> FALSE, bytes |-> << >>]
    /\ UNCHANGED <<q, total>>

Buffers == UNION {[1..n -> Byte] : n \in 0..MaxOp}

Next ==
    \/ \E b \in Buffers : Write(b)
    \/ \E n \in 0..MaxOp : Read(n) \/ ReadFails(n)

Spec == Init /\ [][Next]_vars

=============================================================================
