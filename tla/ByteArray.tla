----------------------------- MODULE ByteArray -----------------------------
(***************************************************************************)
(* tadpole::ByteArray (src/src/byteArray.cc, byteArray.h): a chain of      *)
(* nodes of m_basesize bytes.  write fills the current write node and      *)
(* appends nodes as needed, read empties the first node and frees it once  *)
(* it has to go past its end.  One step per iteration of their loops.      *)
(***************************************************************************)
EXTENDS Integers, Sequences

CONSTANTS
    Byte,     \* values of a byte
    Junk,     \* contents of a node that new char[] has not initialized
    Base,     \* m_basesize
    MaxOp,    \* bound: bytes in one call
    MaxTotal  \* bound: bytes written over all calls

ASSUME BaseAssumption == Base \in Nat \ {0}
ASSUME LimitsAssumption == MaxOp \in Nat /\ MaxTotal \in Nat
ASSUME JunkAssumption == Junk \notin Byte

VARIABLES
    chain,     \* the nodes from m_root on, each a function of its offsets
    w,         \* the place of m_curWriteNode in chain
    wpos,      \* m_pos - m_curWriteNode->buf
    rpos,      \* m_cur - m_root->buf
    m_size,
    m_capcity,
    live,      \* nodes allocated and not yet deleted
    op,        \* the call in progress: "none", "write", "read", or "gone"
    buf,       \* rest of the bytes to write
    size,      \* rest of the number of bytes to read
    out,       \* bytes copied to the caller of read so far
    ret,       \* result of the last read: ok, and its bytes
    total      \* bytes written over all calls

nodeVars == <<chain, w, wpos, rpos, m_size, m_capcity, live>>
vars == <<chain, w, wpos, rpos, m_size, m_capcity, live, op, buf,
          size, out, ret, total>>

NewNode == [k \in 0..(Base - 1) |-> Junk]

Init ==
    /\ chain = <<NewNode>>
    /\ w = 1
    /\ wpos = 0
    /\ rpos = 0
    /\ m_size = 0
    /\ m_capcity = Base
    /\ live = 1
    /\ op = "none"
    /\ buf = << >>
    /\ size = 0
    /\ out = << >>
    /\ ret = [ok |-> TRUE, bytes |-> << >>]
    /\ total = 0

useCapcity == Base - wpos
readLastSize == Base - rpos

\* memcpy(m_pos, buf, n) into the write node.
CopyIn(n) ==
    [chain EXCEPT ![w] = [k \in 0..(Base - 1) |->
        IF k \in wpos..(wpos + n - 1) THEN buf[k - wpos + 1] ELSE @[k]]]

\* memcpy(buf, m_cur, n) out of the first node.
CopyOut(n) == out \o [k \in 1..n |-> chain[1][rpos + k - 1]]

Drop(s, n) == SubSeq(s, n + 1, Len(s))

-----------------------------------------------------------------------------
\* The caller calls write(buf, size).
WriteCall(b) ==
    /\ op = "none"
    /\ total + Len(b) <= MaxTotal
    /\ op' = "write"
    /\ buf' = b
    /\ total' = total + Len(b)
    /\ UNCHANGED <<nodeVars, size, out, ret>>

\* Faulty variant: m_size is not counted in the loop.
WriteNodeNoSize ==
    /\ op = "write"
    /\ useCapcity < Len(buf)
    /\ chain' = IF w = Len(chain) THEN Append(CopyIn(useCapcity), NewNode)
                                  ELSE CopyIn(useCapcity)
    /\ m_capcity' = IF w = Len(chain) THEN m_capcity + Base ELSE m_capcity
    /\ live' = IF w = Len(chain) THEN live + 1 ELSE live
    /\ w' = w + 1
    /\ wpos' = 0
    /\ buf' = Drop(buf, useCapcity)
    /\ UNCHANGED <<rpos, m_size, op, size, out, ret, total>>

\* Faulty variant: m_pos is not moved to the new node's start.
WriteNodeStalePos ==
    /\ op = "write"
    /\ useCapcity < Len(buf)
    /\ chain' = IF w = Len(chain) THEN Append(CopyIn(useCapcity), NewNode)
                                  ELSE CopyIn(useCapcity)
    /\ m_capcity' = IF w = Len(chain) THEN m_capcity + Base ELSE m_capcity
    /\ live' = IF w = Len(chain) THEN live + 1 ELSE live
    /\ w' = w + 1
    /\ m_size' = m_size + useCapcity
    /\ buf' = Drop(buf, useCapcity)
    /\ UNCHANGED <<wpos, rpos, op, size, out, ret, total>>

\* An iteration of write's loop: fill the node, go to the next one, which is
\* allocated unless it is there already.
WriteNode ==
    /\ op = "write"
    /\ useCapcity < Len(buf)
    /\ chain' = IF w = Len(chain) THEN Append(CopyIn(useCapcity), NewNode)
                                  ELSE CopyIn(useCapcity)
    /\ m_capcity' = IF w = Len(chain) THEN m_capcity + Base ELSE m_capcity
    /\ live' = IF w = Len(chain) THEN live + 1 ELSE live
    /\ w' = w + 1
    /\ wpos' = 0
    /\ m_size' = m_size + useCapcity
    /\ buf' = Drop(buf, useCapcity)
    /\ UNCHANGED <<rpos, op, size, out, ret, total>>

\* The end of write: the rest fits into the node.
WriteRest ==
    /\ op = "write"
    /\ useCapcity >= Len(buf)
    /\ chain' = CopyIn(Len(buf))
    /\ wpos' = wpos + Len(buf)
    /\ m_size' = m_size + Len(buf)
    /\ buf' = << >>
    /\ op' = "none"
    /\ UNCHANGED <<w, rpos, m_capcity, live, size, out, ret, total>>

\* The caller calls read(buf, size), which returns false at once if there is
\* not enough.
ReadCall(n) ==
    /\ op = "none"
    /\ IF n > m_size
       THEN ret' = [ok |-> FALSE, bytes |-> << >>] /\ UNCHANGED <<op, size>>
       ELSE op' = "read" /\ size' = n /\ UNCHANGED ret
    /\ UNCHANGED <<nodeVars, buf, out, total>>

\* Faulty variant: the node that has been read is not deleted.
ReadNodeNoDelete ==
    /\ op = "read"
    /\ readLastSize < size
    /\ out' = CopyOut(readLastSize)
    /\ chain' = Tail(chain)
    /\ w' = w - 1
    /\ rpos' = 0
    /\ m_capcity' = m_capcity - readLastSize
    /\ m_size' = m_size - readLastSize
    /\ size' = size - readLastSize
    /\ UNCHANGED <<wpos, live, op, buf, ret, total>>

\* An iteration of read's loop: empty the first node and free it.
ReadNode ==
    /\ op = "read"
    /\ readLastSize < size
    /\ out' = CopyOut(readLastSize)
    /\ chain' = Tail(chain)
    /\ live' = live - 1
    /\ w' = w - 1
    /\ rpos' = 0
    /\ m_capcity' = m_capcity - readLastSize
    /\ m_size' = m_size - readLastSize
    /\ size' = size - readLastSize
    /\ UNCHANGED <<wpos, op, buf, ret, total>>

\* The end of read: the rest is in the first node.
ReadRest ==
    /\ op = "read"
    /\ readLastSize >= size
    /\ ret' = [ok |-> TRUE, bytes |-> CopyOut(size)]
    /\ rpos' = rpos + size
    /\ m_capcity' = m_capcity - size
    /\ m_size' = m_size - size
    /\ op' = "none"
    /\ size' = 0
    /\ out' = << >>
    /\ UNCHANGED <<chain, w, wpos, live, buf, total>>

\* The destructor deletes the nodes from m_root on, as long as the node has a
\* next one: the last node stays.
Destroy ==
    /\ op = "none"
    /\ live' = live - (Len(chain) - 1)
    /\ op' = "gone"
    /\ UNCHANGED <<chain, w, wpos, rpos, m_size, m_capcity, buf, size, out, ret, total>>

Buffers == UNION {[1..n -> Byte] : n \in 0..MaxOp}

Next ==
    \/ \E b \in Buffers : WriteCall(b)
    \/ \E n \in 0..MaxOp : ReadCall(n)
    \/ WriteNode
    \/ WriteRest
    \/ ReadNode
    \/ ReadRest
    \/ Destroy

Spec == Init /\ [][Next]_vars

-----------------------------------------------------------------------------
\* Type invariant.
TypeOK ==
    /\ chain \in Seq([0..(Base - 1) -> Byte \cup {Junk}])
    /\ w \in 1..Len(chain)
    /\ wpos \in 0..Base
    /\ rpos \in 0..Base
    /\ m_size \in Nat
    /\ m_capcity \in Nat
    /\ live \in Nat
    /\ op \in {"none", "write", "read", "gone"}
    /\ buf \in Seq(Byte)
    /\ size \in Nat
    /\ out \in Seq(Byte)
    /\ ret \in [ok : BOOLEAN, bytes : Seq(Byte)]
    /\ total \in 0..MaxTotal

\* Number of bytes between m_cur and m_pos, following the chain.
Stored == (w - 1) * Base + wpos - rpos

\* The bytes between m_cur and m_pos.
Content ==
    [k \in 1..Stored |-> chain[(rpos + k - 1) \div Base + 1][(rpos + k - 1) % Base]]

\* The counters agree with the pointers: getSize() is the distance from m_cur
\* to m_pos, and getCapcity() is that plus what the write node has left, so
\* m_curWriteNode is always the last node.
CountersExact ==
    /\ TypeOK
    /\ m_size = Stored
    /\ m_capcity = m_size + useCapcity
    /\ w = Len(chain)

\* Nodes are deleted as they are read, and only those in the chain are live:
\* beyond the nodes full of unread bytes there are at most the one being read
\* and the one being written, and the destructor leaves one.
MemoryBounded ==
    /\ op # "gone" => (live - 2) * Base <= m_size
    /\ op = "gone" => live <= 1

\* ByteArray implements a queue of bytes.  A write takes effect when it is
\* called, and so does a read: what the queue holds is what the chain holds
\* and the rest of the call in progress.
Queue == INSTANCE ByteQueue WITH
    q <- IF op = "write" THEN Content \o buf ELSE Drop(Content, size),
    ret <- IF op = "read" THEN [ok |-> TRUE, bytes |-> out \o SubSeq(Content, 1, size)]
                          ELSE ret

\* Refinement: write appends, read returns the oldest bytes, all or nothing,
\* across any number of nodes.
ImplementsQueue == Queue!Spec

=============================================================================
