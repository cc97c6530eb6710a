---------------------------- MODULE MCDataProofs ----------------------------
(***************************************************************************)
(* The byte array, the typed values and the configuration variables: the   *)
(* theorems about ByteArray for every behaviour of the array, and those    *)
(* about ByteArrayCodec and Config for every behaviour of MCData.          *)
(***************************************************************************)
EXTENDS MCData, CommonLemmas

\* The node of a fresh or used buffer.
Node == [0..(Base - 1) -> Byte \cup {Junk}]

\* Positions count from the start of the first node: m_cur is at rpos, m_pos at
\* End, and Cell is the byte at a position of a chain.
End == (w - 1) * Base + wpos
Cell(c, n) == c[n \div Base + 1][n % Base]

\* Everything between m_cur and m_pos was written: no caller gets Junk.
Filled == \A n \in rpos..(End - 1) : Cell(chain, n) \in Byte

\* What a call in progress still has to do.
Calls ==
    /\ op # "write" => buf = << >>
    /\ op # "read" => size = 0 /\ out = << >>
    /\ size <= m_size
    /\ live = IF op = "gone" THEN 1 ELSE w

\* The inductive invariant.
IInv == CountersExact /\ Filled /\ Calls

----------------------------------------------------------------------------
\* Arithmetic of positions.  A product is monotone.
LEMMA TimesMono ==
    ASSUME NEW m \in Int, NEW n \in Int, m <= n
    PROVE  m * Base <= n * Base
<1>1. Base \in Nat BY BaseAssumption
<1>2. (n - m) * Base >= 0 BY <1>1, SMT
<1>3. (n - m) * Base = n * Base - m * Base BY <1>1, SMT
<1> QED BY <1>1, <1>2, <1>3, SMT

\* Every position is an offset in one node.
LEMMA Position ==
    ASSUME NEW n \in Nat
    PROVE  /\ n \div Base \in Nat /\ n % Base \in 0..(Base - 1)
           /\ n = (n \div Base) * Base + (n % Base)
<1> DEFINE e == n \div Base
           k == n % Base
<1>1. Base \in Nat \ {0} BY BaseAssumption
<1>2. e \in Nat BY <1>1, SMT
<1>3. k \in 0..(Base - 1) BY <1>1, SMT
<1>4. n >= Base * e BY <1>1, SMT
<1>5. n < Base * e + Base BY <1>1, SMT
<1>6. k = n - Base * e BY <1>1, <1>4, <1>5, SMT
<1> HIDE DEF e, k
<1>7. Base * e = e * Base /\ e * Base \in Nat BY <1>1, <1>2, SMT
<1>8. n = e * Base + k BY <1>1, <1>2, <1>3, <1>6, <1>7
<1> QED BY <1>2, <1>3, <1>8 DEF e, k

\* And the other way round.
LEMMA PositionOf ==
    ASSUME NEW d \in Nat, NEW k \in 0..(Base - 1)
    PROVE  /\ d * Base + k \in Nat
           /\ (d * Base + k) \div Base = d /\ (d * Base + k) % Base = k
<1>1. Base \in Nat \ {0} BY BaseAssumption
<1>2. d * Base \in Nat BY <1>1, SMT
<1> QED BY <1>1, <1>2, SMTT(30)

\* A position before a bound of d nodes and r bytes lies in an earlier node, or
\* in that one before offset r.
LEMMA Before ==
    ASSUME NEW n \in Nat, NEW d \in Nat, NEW r \in 0..Base, n < d * Base + r
    PROVE  \/ n \div Base < d
           \/ n \div Base = d /\ n % Base < r
<1> DEFINE e == n \div Base
           k == n % Base
<1>1. Base \in Nat \ {0} BY BaseAssumption
<1> HIDE DEF e, k
<1>2. e \in Nat /\ k \in 0..(Base - 1) /\ n = e * Base + k BY Position DEF e, k
<1>3. CASE e > d
  <2>1. (d + 1) * Base <= e * Base BY <1>2, <1>3, TimesMono
  <2>2. (d + 1) * Base = d * Base + Base BY <1>1, SMT
  <2>3. d * Base \in Nat /\ e * Base \in Nat BY <1>1, <1>2, SMT
  <2> QED BY <1>1, <1>2, <2>1, <2>2, <2>3
<1>4. CASE e = d
  <2>1. d * Base \in Nat BY <1>1, SMT
  <2> QED BY <1>1, <1>2, <1>4, <2>1
<1> QED BY <1>2, <1>3, <1>4 DEF e, k

\* The position one node further on.
LEMMA NextNode ==
    ASSUME NEW n \in Nat
    PROVE  (n + Base) \div Base = n \div Base + 1 /\ (n + Base) % Base = n % Base
<1> DEFINE e == n \div Base
           k == n % Base
<1>1. Base \in Nat \ {0} BY BaseAssumption
<1> HIDE DEF e, k
<1>2. e \in Nat /\ k \in 0..(Base - 1) /\ n = e * Base + k BY Position DEF e, k
<1>3. (e + 1) * Base = e * Base + Base BY <1>1, <1>2, SMT
<1>4. e * Base \in Nat BY <1>1, <1>2, SMT
<1>5. n + Base = (e + 1) * Base + k BY <1>1, <1>2, <1>3, <1>4
<1>6. ((e + 1) * Base + k) \div Base = e + 1 /\ ((e + 1) * Base + k) % Base = k
  BY <1>2, PositionOf
<1> QED BY <1>5, <1>6 DEF e, k

----------------------------------------------------------------------------
\* What the steps do to the bytes of a chain.  A new node at the end leaves the
\* others alone.
LEMMA CellAppend ==
    ASSUME NEW c \in Seq(Node), NEW x \in Node, NEW n \in Nat, n < Len(c) * Base
    PROVE  Cell(Append(c, x), n) = Cell(c, n)
<1>1. Base \in Nat \ {0} /\ Len(c) \in Nat BY BaseAssumption
<1>2. n < Len(c) * Base + 0
  <2>1. Len(c) * Base \in Nat BY <1>1, SMT
  <2> QED BY <2>1
<1>3. n \div Base < Len(c)
  <2>1. n % Base \in 0..(Base - 1) /\ n \div Base \in Nat BY Position
  <2>2. n \div Base < Len(c) \/ (n \div Base = Len(c) /\ n % Base < 0)
    BY <1>1, <1>2, Before
  <2> QED BY <2>1, <2>2
<1>4. n \div Base \in Nat BY Position
<1>5. n \div Base + 1 \in 1..Len(c) BY <1>1, <1>3, <1>4
<1>6. \A j \in 1..Len(c) : Append(c, x)[j] = c[j] BY AppendProperties
<1> QED BY <1>5, <1>6 DEF Cell

\* Without the first node every byte is one node nearer.
LEMMA CellTail ==
    ASSUME NEW c \in Seq(Node), c # << >>, NEW n \in Nat, n < (Len(c) - 1) * Base
    PROVE  Cell(Tail(c), n) = Cell(c, n + Base)
<1>1. Base \in Nat \ {0} /\ Len(c) \in Nat /\ Len(c) - 1 \in Nat
  BY BaseAssumption, EmptySeq
<1>2. n < (Len(c) - 1) * Base + 0
  <2>1. (Len(c) - 1) * Base \in Nat BY <1>1, SMT
  <2> QED BY <2>1
<1>3. n \div Base \in Nat /\ n % Base \in 0..(Base - 1) BY Position
<1>4. n \div Base < Len(c) - 1
  <2>1. n \div Base < Len(c) - 1 \/ (n \div Base = Len(c) - 1 /\ n % Base < 0)
    BY <1>1, <1>2, Before
  <2> QED BY <1>3, <2>1
<1>5. n \div Base + 1 \in 1..(Len(c) - 1) BY <1>1, <1>3, <1>4
<1>6. Len(Tail(c)) = Len(c) - 1 /\ \A j \in 1..Len(Tail(c)) : Tail(c)[j] = c[j + 1]
  BY HeadTailProperties
<1>7. Tail(c)[n \div Base + 1] = c[(n \div Base + 1) + 1] BY <1>5, <1>6
<1>8. (n + Base) \div Base = n \div Base + 1 /\ (n + Base) % Base = n % Base BY NextNode
<1> QED BY <1>7, <1>8 DEF Cell

\* memcpy into the write node: the bytes before m_pos stay, the new ones follow.
LEMMA CellCopyIn ==
    ASSUME TypeOK, w = Len(chain), NEW m \in 0..useCapcity, m <= Len(buf)
    PROVE  /\ CopyIn(m) \in Seq(Node) /\ Len(CopyIn(m)) = Len(chain)
           /\ \A n \in 0..(End - 1) : Cell(CopyIn(m), n) = Cell(chain, n)
           /\ \A j \in 0..(m - 1) : Cell(CopyIn(m), End + j) = buf[j + 1]
<1> DEFINE new == [k \in 0..(Base - 1) |->
                     IF k \in wpos..(wpos + m - 1) THEN buf[k - wpos + 1] ELSE chain[w][k]]
<1>1. /\ Base \in Nat \ {0} /\ w \in Nat /\ w \in 1..Len(chain) /\ w - 1 \in Nat
      /\ wpos \in 0..Base /\ m \in Nat /\ wpos + m <= Base
      /\ chain \in Seq(Node) /\ buf \in Seq(Byte) /\ Len(buf) \in Nat
  BY BaseAssumption DEF TypeOK, Node, useCapcity
<1>2. chain[w] \in Node BY <1>1, ElementOfSeq
<1>3. \A k \in 0..(Base - 1) : new[k] \in Byte \cup {Junk}
  <2> SUFFICES ASSUME NEW k \in 0..(Base - 1) PROVE new[k] \in Byte \cup {Junk} OBVIOUS
  <2>1. CASE k \in wpos..(wpos + m - 1)
    <3>1. k - wpos + 1 \in 1..Len(buf) BY <1>1, <2>1
    <3>2. buf[k - wpos + 1] \in Byte BY <1>1, <3>1, ElementOfSeq
    <3> QED BY <2>1, <3>2
  <2>2. CASE k \notin wpos..(wpos + m - 1) BY <1>2, <2>2 DEF Node
  <2> QED BY <2>1, <2>2
<1>4. new \in Node BY <1>3 DEF Node
<1>5. CopyIn(m) = [chain EXCEPT ![w] = new] BY <1>1 DEF CopyIn
<1> HIDE DEF new
<1>6. /\ CopyIn(m) \in Seq(Node) /\ Len(CopyIn(m)) = Len(chain)
      /\ \A j \in 1..Len(chain) : CopyIn(m)[j] = IF j = w THEN new ELSE chain[j]
  BY <1>1, <1>4, <1>5, ExceptSeq
<1>7. ASSUME NEW n \in 0..(End - 1) PROVE Cell(CopyIn(m), n) = Cell(chain, n)
  <2>1. n \in Nat /\ n < (w - 1) * Base + wpos
    <3>1. (w - 1) * Base \in Nat BY <1>1, SMT
    <3> QED BY <1>1, <1>7, <3>1 DEF End
  <2>2. n \div Base \in Nat /\ n % Base \in 0..(Base - 1) BY <2>1, Position
  <2>3. n \div Base < w - 1 \/ (n \div Base = w - 1 /\ n % Base < wpos)
    BY <1>1, <2>1, Before
  <2>4. CASE n \div Base < w - 1
    <3>1. n \div Base + 1 \in 1..Len(chain) /\ n \div Base + 1 # w BY <1>1, <2>2, <2>4
    <3> QED BY <1>6, <3>1 DEF Cell
  <2>5. CASE n \div Base = w - 1 /\ n % Base < wpos
    <3>1. n \div Base + 1 = w BY <1>1, <2>5
    <3>2. CopyIn(m)[w] = new BY <1>1, <1>6
    <3>3. new[n % Base] = chain[w][n % Base] BY <1>1, <2>2, <2>5 DEF new
    <3> QED BY <3>1, <3>2, <3>3 DEF Cell
  <2> QED BY <2>3, <2>4, <2>5
<1>8. ASSUME NEW j \in 0..(m - 1) PROVE Cell(CopyIn(m), End + j) = buf[j + 1]
  <2>1. wpos + j \in 0..(Base - 1) BY <1>1, <1>8
  <2>2. (w - 1) * Base \in Nat BY <1>1, SMT
  <2>3. End + j = (w - 1) * Base + (wpos + j) BY <1>1, <1>8, <2>2 DEF End
  <2>4. (End + j) \div Base = w - 1 /\ (End + j) % Base = wpos + j
    <3>1. /\ ((w - 1) * Base + (wpos + j)) \div Base = w - 1
          /\ ((w - 1) * Base + (wpos + j)) % Base = wpos + j
      BY <1>1, <2>1, PositionOf
    <3> QED BY <2>3, <3>1
  <2>5. (End + j) \div Base + 1 = w BY <1>1, <2>4
  <2>6. CopyIn(m)[w] = new BY <1>1, <1>6
  <2>7. new[wpos + j] = buf[j + 1] BY <1>1, <1>8, <2>1 DEF new
  <2> QED BY <2>4, <2>5, <2>6, <2>7 DEF Cell
<1> QED BY <1>6, <1>7, <1>8

----------------------------------------------------------------------------
\* The n bytes of a chain from a position on.
Bytes(c, r, n) == [k \in 1..n |-> Cell(c, r + k - 1)]

\* They are a sequence of bytes when their cells are filled.
LEMMA BytesSeq ==
    ASSUME NEW c, NEW r \in Nat, NEW n \in Nat,
           \A p \in r..(r + n - 1) : Cell(c, p) \in Byte
    PROVE  Bytes(c, r, n) \in Seq(Byte) /\ Len(Bytes(c, r, n)) = n
<1>1. ASSUME NEW k \in 1..n PROVE Cell(c, r + k - 1) \in Byte
  <2>1. r + k - 1 \in r..(r + n - 1) BY <1>1
  <2> QED BY <2>1
<1> QED BY <1>1 DEF Bytes

\* A read in two parts: the first m bytes, then the others.
LEMMA BytesSplit ==
    ASSUME NEW c, NEW r \in Nat, NEW n \in Nat, NEW m \in 0..n,
           \A p \in r..(r + n - 1) : Cell(c, p) \in Byte
    PROVE  /\ SubSeq(Bytes(c, r, n), 1, m) = Bytes(c, r, m)
           /\ Drop(Bytes(c, r, n), m) = Bytes(c, r + m, n - m)
           /\ Bytes(c, r, n) = Bytes(c, r, m) \o Bytes(c, r + m, n - m)
<1>1. m \in Nat /\ n - m \in Nat /\ r + m \in Nat OBVIOUS
<1>2. /\ \A p \in r..(r + m - 1) : Cell(c, p) \in Byte
      /\ \A p \in (r + m)..((r + m) + (n - m) - 1) : Cell(c, p) \in Byte
  BY <1>1
<1>3. /\ Bytes(c, r, n) \in Seq(Byte) /\ Len(Bytes(c, r, n)) = n
      /\ Bytes(c, r, m) \in Seq(Byte) /\ Len(Bytes(c, r, m)) = m
      /\ Bytes(c, r + m, n - m) \in Seq(Byte) /\ Len(Bytes(c, r + m, n - m)) = n - m
  BY <1>1, <1>2, BytesSeq
<1>4. /\ \A k \in 1..n : Bytes(c, r, n)[k] = Cell(c, r + k - 1)
      /\ \A k \in 1..m : Bytes(c, r, m)[k] = Cell(c, r + k - 1)
      /\ \A k \in 1..(n - m) : Bytes(c, r + m, n - m)[k] = Cell(c, (r + m) + k - 1)
  BY DEF Bytes
<1>5. SubSeq(Bytes(c, r, n), 1, m) = Bytes(c, r, m)
  BY <1>1, <1>3, <1>4, SMTT(30)
<1>6. Drop(Bytes(c, r, n), m) = Bytes(c, r + m, n - m)
  BY <1>1, <1>3, <1>4, SMTT(30) DEF Drop
<1>7. Bytes(c, r, n) = Bytes(c, r, m) \o Bytes(c, r + m, n - m)
  <2> DEFINE a == Bytes(c, r, m)
             b == Bytes(c, r + m, n - m)
  <2> HIDE DEF a, b
  <2>1. /\ a \in Seq(Byte) /\ Len(a) = m /\ b \in Seq(Byte) /\ Len(b) = n - m
        /\ \A k \in 1..m : a[k] = Cell(c, r + k - 1)
        /\ \A k \in 1..(n - m) : b[k] = Cell(c, (r + m) + k - 1)
    BY <1>3, <1>4 DEF a, b
  <2>2. /\ a \o b \in Seq(Byte) /\ Len(a \o b) = n
        /\ \A k \in 1..n : (a \o b)[k] = IF k <= m THEN a[k] ELSE b[k - m]
    <3>1. /\ a \o b \in Seq(Byte) /\ Len(a \o b) = Len(a) + Len(b)
          /\ \A k \in 1..(Len(a) + Len(b)) :
                (a \o b)[k] = IF k <= Len(a) THEN a[k] ELSE b[k - Len(a)]
      BY <2>1, ConcatProperties
    <3>2. Len(a) + Len(b) = n BY <1>1, <2>1
    <3> QED BY <2>1, <3>1, <3>2
  <2>3. ASSUME NEW k \in 1..n PROVE (a \o b)[k] = Bytes(c, r, n)[k]
    <3>1. CASE k <= m BY <1>1, <1>4, <2>1, <2>2, <3>1
    <3>2. CASE k > m
      <4>1. k - m \in 1..(n - m) /\ (r + m) + (k - m) - 1 = r + k - 1 BY <1>1, <3>2
      <4>2. b[k - m] = Cell(c, r + k - 1) BY <2>1, <4>1
      <4>3. ~ (k <= m) BY <1>1, <3>2
      <4>4. (a \o b)[k] = b[k - m] BY <2>2, <4>3
      <4> QED BY <1>4, <4>2, <4>4
    <3>3. k <= m \/ k > m BY <1>1
    <3> QED BY <3>1, <3>2, <3>3
  <2>4. a \o b = Bytes(c, r, n) BY <1>3, <2>2, <2>3, SeqEqual
  <2> QED BY <2>4 DEF a, b
<1> QED BY <1>5, <1>6, <1>7

\* The n cells of c from r on are filled: what is read there is put together from
\* its two parts.
HasBytes(c, r, n) == \A p \in r..(r + n - 1) : Cell(c, p) \in Byte

LEMMA BytesJoin ==
    ASSUME NEW c, NEW r \in Nat, NEW n \in Nat, NEW m \in 0..n, HasBytes(c, r, n)
    PROVE  Bytes(c, r, n) = Bytes(c, r, m) \o Bytes(c, r + m, n - m)
BY BytesSplit DEF HasBytes

----------------------------------------------------------------------------
\* The facts of the invariant that every step needs.
LEMMA Shape ==
    ASSUME IInv
    PROVE  /\ Base \in Nat \ {0} /\ w \in Nat \ {0} /\ (w - 1) * Base \in Nat
           /\ w = Len(chain) /\ chain \in Seq(Node)
           /\ wpos \in 0..Base /\ rpos \in 0..Base
           /\ End = (w - 1) * Base + wpos /\ End \in Nat
           /\ m_size \in Nat /\ End = rpos + m_size /\ m_capcity = m_size + (Base - wpos)
           /\ buf \in Seq(Byte) /\ Len(buf) \in Nat
           /\ size \in 0..m_size /\ out \in Seq(Byte)
<1>1. TypeOK BY DEF IInv, CountersExact
<1>2. Base \in Nat \ {0} BY BaseAssumption
<1>3. /\ w = Len(chain) /\ chain \in Seq(Node) /\ w \in 1..Len(chain) /\ w \in Nat \ {0}
      /\ wpos \in 0..Base /\ rpos \in 0..Base /\ m_size \in Nat
      /\ buf \in Seq(Byte) /\ Len(buf) \in Nat /\ out \in Seq(Byte)
  BY <1>1, <1>2 DEF IInv, CountersExact, TypeOK, Node
<1>4. (w - 1) * Base \in Nat BY <1>2, <1>3, SMT
<1>5. size \in 0..m_size BY <1>1, <1>3 DEF IInv, Calls, TypeOK
<1>6. End = (w - 1) * Base + wpos /\ End \in Nat BY <1>2, <1>3, <1>4 DEF End
<1>7. End = rpos + m_size BY <1>2, <1>3, <1>4 DEF End, IInv, CountersExact, Stored
<1>8. m_capcity = m_size + (Base - wpos) BY DEF IInv, CountersExact, useCapcity
<1> QED BY <1>2, <1>3, <1>4, <1>5, <1>6, <1>7, <1>8

\* memcpy out of the first node: the bytes at m_cur.
LEMMA CopyOutBytes ==
    ASSUME IInv, NEW m \in Nat, rpos + m <= Base, m <= m_size
    PROVE  /\ Bytes(chain, rpos, m) \in Seq(Byte) /\ Len(Bytes(chain, rpos, m)) = m
           /\ CopyOut(m) = out \o Bytes(chain, rpos, m)
<1>1. Base \in Nat \ {0} /\ rpos \in Nat /\ m_size \in Nat /\ End = rpos + m_size BY Shape
<1>2. \A p \in rpos..(rpos + m - 1) : Cell(chain, p) \in Byte
  BY <1>1 DEF IInv, Filled
<1>3. ASSUME NEW k \in 1..m PROVE chain[1][rpos + k - 1] = Cell(chain, rpos + k - 1)
  <2>1. rpos + k - 1 \in 0..(Base - 1) BY <1>1, <1>3
  <2>2. 0 * Base + (rpos + k - 1) = rpos + k - 1 BY <1>1, <2>1, SMT
  <2>3. (rpos + k - 1) \div Base = 0 /\ (rpos + k - 1) % Base = rpos + k - 1
    BY <2>1, <2>2, PositionOf
  <2> QED BY <2>3 DEF Cell
<1>4. CopyOut(m) = out \o Bytes(chain, rpos, m) BY <1>3 DEF CopyOut, Bytes
<1> QED BY <1>1, <1>2, <1>4, BytesSeq

\* A node just allocated is a node.
LEMMA NewNodeIsNode == NewNode \in Node
BY DEF NewNode, Node

\* An empty array: no byte to read.
LEMMA InitInv == Init => IInv
<1> SUFFICES ASSUME Init PROVE IInv OBVIOUS
<1>1. Base \in Nat \ {0} /\ (1 - 1) * Base = 0 BY BaseAssumption, SMT
<1>2. chain \in Seq(Node) /\ Len(chain) = 1 BY NewNodeIsNode DEF Init
<1>3. TypeOK
  <2>1. /\ << >> \in Seq(Byte) /\ op \in {"none", "write", "read", "gone"}
        /\ ret \in [ok : BOOLEAN, bytes : Seq(Byte)]
    BY DEF Init
  <2> QED BY <1>1, <1>2, <2>1, LimitsAssumption DEF Init, TypeOK, Node
<1>4. CountersExact BY <1>1, <1>2, <1>3 DEF Init, CountersExact, Stored, useCapcity
<1>5. Filled BY <1>1 DEF Init, Filled, End
<1>6. Calls BY DEF Init, Calls
<1> QED BY <1>4, <1>5, <1>6 DEF IInv

\* A call of write only records what is to be written.
LEMMA WriteCallInv ==
    ASSUME IInv, NEW b \in Buffers, WriteCall(b) PROVE IInv'
<1>1. b \in Seq(Byte) /\ Len(b) \in Nat BY LimitsAssumption DEF Buffers
<1>2. TypeOK' /\ CountersExact'
  BY <1>1, LimitsAssumption
     DEF IInv, CountersExact, TypeOK, WriteCall, nodeVars, Stored, useCapcity
<1>3. Filled' BY DEF IInv, Filled, End, Cell, WriteCall, nodeVars
<1>4. Calls' BY DEF IInv, Calls, WriteCall, nodeVars
<1> QED BY <1>2, <1>3, <1>4 DEF IInv

\* What an iteration of write does to the bytes of the chain.
LEMMA WriteNodeCells ==
    ASSUME IInv, WriteNode
    PROVE  /\ chain' \in Seq(Node) /\ Len(chain') = w + 1
           /\ useCapcity \in 0..Len(buf) /\ useCapcity = Base - wpos
           /\ \A n \in 0..(End - 1) : Cell(chain', n) = Cell(chain, n)
           /\ \A j \in 0..(useCapcity - 1) : Cell(chain', End + j) = buf[j + 1]
<1>1. /\ Base \in Nat \ {0} /\ w \in Nat \ {0} /\ (w - 1) * Base \in Nat
      /\ w = Len(chain) /\ wpos \in 0..Base
      /\ End = (w - 1) * Base + wpos /\ End \in Nat /\ Len(buf) \in Nat
  BY Shape
<1>2. /\ useCapcity \in Nat /\ useCapcity = Base - wpos /\ useCapcity <= Len(buf)
      /\ useCapcity \in 0..useCapcity /\ useCapcity \in 0..Len(buf)
  BY <1>1 DEF WriteNode, useCapcity
<1> TypeOK BY DEF IInv, CountersExact
<1>3. /\ CopyIn(useCapcity) \in Seq(Node) /\ Len(CopyIn(useCapcity)) = w
      /\ \A n \in 0..(End - 1) : Cell(CopyIn(useCapcity), n) = Cell(chain, n)
      /\ \A j \in 0..(useCapcity - 1) : Cell(CopyIn(useCapcity), End + j) = buf[j + 1]
  BY <1>1, <1>2, CellCopyIn
<1>4. chain' = Append(CopyIn(useCapcity), NewNode) BY <1>1 DEF WriteNode
<1>5. chain' \in Seq(Node) /\ Len(chain') = w + 1
  BY <1>3, <1>4, NewNodeIsNode, AppendProperties
<1>6. w * Base = (w - 1) * Base + Base BY <1>1, SMT
<1>7. ASSUME NEW n \in Nat, n < w * Base PROVE Cell(chain', n) = Cell(CopyIn(useCapcity), n)
  BY <1>3, <1>4, <1>7, NewNodeIsNode, CellAppend
<1>8. ASSUME NEW n \in 0..(End - 1) PROVE Cell(chain', n) = Cell(chain, n)
  <2>1. n \in Nat /\ n < w * Base BY <1>1, <1>6
  <2> QED BY <1>3, <1>7, <2>1
<1>9. ASSUME NEW j \in 0..(useCapcity - 1) PROVE Cell(chain', End + j) = buf[j + 1]
  <2>1. End + j \in Nat /\ End + j < w * Base BY <1>1, <1>2, <1>6
  <2> QED BY <1>3, <1>7, <2>1
<1> QED BY <1>2, <1>5, <1>8, <1>9

\* The node is filled up, and m_curWriteNode moves to a fresh one.
LEMMA WriteNodeInv ==
    ASSUME IInv, WriteNode PROVE IInv'
<1>1. /\ Base \in Nat \ {0} /\ w \in Nat \ {0} /\ (w - 1) * Base \in Nat
      /\ w = Len(chain) /\ chain \in Seq(Node)
      /\ wpos \in 0..Base /\ rpos \in 0..Base
      /\ End = (w - 1) * Base + wpos /\ End \in Nat
      /\ m_size \in Nat /\ End = rpos + m_size /\ m_capcity = m_size + (Base - wpos)
      /\ buf \in Seq(Byte) /\ Len(buf) \in Nat
  BY Shape
<1>2. /\ chain' \in Seq(Node) /\ Len(chain') = w + 1
      /\ useCapcity \in 0..Len(buf) /\ useCapcity = Base - wpos
      /\ \A n \in 0..(End - 1) : Cell(chain', n) = Cell(chain, n)
      /\ \A j \in 0..(useCapcity - 1) : Cell(chain', End + j) = buf[j + 1]
  BY WriteNodeCells
<1>3. useCapcity \in Nat BY <1>1, <1>2
<1> TypeOK BY DEF IInv, CountersExact
<1>4. /\ w' = w + 1 /\ wpos' = 0
      /\ m_size' = m_size + useCapcity /\ m_capcity' = m_capcity + Base
      /\ live' = live + 1 /\ rpos' = rpos /\ op' = op /\ size' = size
      /\ out' = out /\ ret' = ret /\ total' = total
  BY <1>1 DEF WriteNode
<1>5. buf' \in Seq(Byte)
  <2>1. buf' = SubSeq(buf, useCapcity + 1, Len(buf)) BY DEF WriteNode, Drop
  <2> QED BY <1>1, <1>2, <2>1
<1>6. ((w + 1) - 1) * Base = (w - 1) * Base + Base BY <1>1, SMT
<1>7. TypeOK'
  <2>1. chain' \in Seq([0..(Base - 1) -> Byte \cup {Junk}]) /\ w' \in 1..Len(chain')
    BY <1>1, <1>2, <1>3, <1>4 DEF Node
  <2>2. m_size' \in Nat /\ m_capcity' \in Nat /\ live' \in Nat
    BY <1>1, <1>3, <1>4 DEF TypeOK
  <2> QED BY <1>1, <1>4, <1>5, <2>1, <2>2 DEF TypeOK
<1>8. End' = End + useCapcity /\ End' = (w - 1) * Base + Base
  BY <1>1, <1>2, <1>3, <1>4, <1>6 DEF End
<1>9. CountersExact'
  <2>1. Stored' = End' - rpos BY <1>1, <1>4, <1>6 DEF Stored, End
  <2>2. m_size' = Stored' BY <1>1, <1>3, <1>4, <1>8, <2>1
  <2>3. m_capcity' = m_size' + useCapcity'
    <3>1. useCapcity' = Base BY <1>1, <1>4 DEF useCapcity
    <3> QED BY <1>1, <1>2, <1>3, <1>4, <3>1
  <2> QED BY <1>2, <1>4, <1>7, <2>2, <2>3 DEF CountersExact
<1>10. Filled'
  <2> SUFFICES ASSUME NEW n \in rpos..(End' - 1) PROVE Cell(chain', n) \in Byte
    BY <1>4 DEF Filled, Cell
  <2>1. n \in Nat BY <1>1
  <2>3. CASE n < End
    <3>1. n \in 0..(End - 1) /\ n \in rpos..(End - 1) BY <1>1, <2>1, <2>3
    <3> QED BY <1>2, <3>1 DEF IInv, Filled
  <2>4. CASE n >= End
    <3>1. n - End \in 0..(useCapcity - 1) BY <1>1, <1>2, <1>3, <1>8, <2>1, <2>4
    <3>2. End + (n - End) = n BY <1>1, <2>1
    <3>3. Cell(chain', n) = buf[(n - End) + 1] BY <1>2, <3>1, <3>2
    <3>4. (n - End) + 1 \in 1..Len(buf) BY <1>1, <1>2, <3>1
    <3>5. buf[(n - End) + 1] \in Byte BY <1>1, <3>4, ElementOfSeq
    <3> QED BY <3>3, <3>5
  <2> QED BY <1>1, <2>1, <2>3, <2>4
<1>11. Calls' BY <1>1, <1>2, <1>3, <1>4 DEF IInv, Calls, WriteNode
<1> QED BY <1>9, <1>10, <1>11 DEF IInv

\* The rest fits into the node.
LEMMA WriteRestInv ==
    ASSUME IInv, WriteRest PROVE IInv'
<1>1. /\ Base \in Nat \ {0} /\ w \in Nat \ {0} /\ (w - 1) * Base \in Nat
      /\ w = Len(chain) /\ chain \in Seq(Node)
      /\ wpos \in 0..Base /\ rpos \in 0..Base
      /\ End = (w - 1) * Base + wpos /\ End \in Nat
      /\ m_size \in Nat /\ End = rpos + m_size /\ m_capcity = m_size + (Base - wpos)
      /\ buf \in Seq(Byte) /\ Len(buf) \in Nat
  BY Shape
<1>2. useCapcity = Base - wpos /\ Len(buf) \in 0..useCapcity /\ Len(buf) <= Len(buf)
  BY <1>1 DEF WriteRest, useCapcity
<1> TypeOK BY DEF IInv, CountersExact
<1>3. /\ CopyIn(Len(buf)) \in Seq(Node) /\ Len(CopyIn(Len(buf))) = w
      /\ \A n \in 0..(End - 1) : Cell(CopyIn(Len(buf)), n) = Cell(chain, n)
      /\ \A j \in 0..(Len(buf) - 1) : Cell(CopyIn(Len(buf)), End + j) = buf[j + 1]
  BY <1>1, <1>2, CellCopyIn
<1>4. /\ chain' = CopyIn(Len(buf)) /\ buf' = << >> /\ op' = "none"
  BY DEF WriteRest
<1>5. /\ w' = w /\ wpos' = wpos + Len(buf) /\ m_size' = m_size + Len(buf)
      /\ m_capcity' = m_capcity /\ live' = live /\ rpos' = rpos /\ size' = size
      /\ out' = out /\ ret' = ret /\ total' = total
  BY DEF WriteRest
<1>6. TypeOK'
  <2>1. chain' \in Seq([0..(Base - 1) -> Byte \cup {Junk}]) /\ w' \in 1..Len(chain')
    BY <1>1, <1>3, <1>4, <1>5 DEF Node
  <2>2. m_size' \in Nat /\ m_capcity' \in Nat /\ live' \in Nat /\ wpos' \in 0..Base
    BY <1>1, <1>2, <1>5 DEF TypeOK
  <2>3. buf' \in Seq(Byte) /\ op' \in {"none", "write", "read", "gone"} BY <1>4
  <2> QED BY <1>5, <2>1, <2>2, <2>3 DEF TypeOK
<1>7. End' = End + Len(buf) BY <1>1, <1>2, <1>5 DEF End
<1>8. CountersExact'
  <2>1. Stored' = End' - rpos BY <1>1, <1>5 DEF Stored, End
  <2>2. m_size' = Stored' BY <1>1, <1>5, <1>7, <2>1
  <2>3. useCapcity' = Base - (wpos + Len(buf)) BY <1>5 DEF useCapcity
  <2>4. m_capcity' = m_size' + useCapcity' BY <1>1, <1>5, <2>3
  <2> QED BY <1>1, <1>3, <1>4, <1>5, <1>6, <2>2, <2>4 DEF CountersExact
<1>9. Filled'
  <2> SUFFICES ASSUME NEW n \in rpos..(End' - 1) PROVE Cell(CopyIn(Len(buf)), n) \in Byte
    BY <1>4, <1>5 DEF Filled, Cell
  <2>1. n \in Nat BY <1>1, <1>7
  <2>2. CASE n < End
    BY <1>1, <1>3, <2>1, <2>2 DEF IInv, Filled
  <2>3. CASE n >= End
    <3>1. n - End \in 0..(Len(buf) - 1) BY <1>1, <1>7, <2>1, <2>3
    <3>2. End + (n - End) = n BY <1>1, <2>1
    <3>3. Cell(CopyIn(Len(buf)), n) = buf[(n - End) + 1] BY <1>3, <3>1, <3>2
    <3>4. (n - End) + 1 \in 1..Len(buf) BY <1>1, <3>1
    <3>5. buf[(n - End) + 1] \in Byte BY <1>1, <3>4, ElementOfSeq
    <3> QED BY <3>3, <3>5
  <2> QED BY <1>1, <2>1, <2>2, <2>3
<1>10. Calls' BY <1>1, <1>4, <1>5 DEF IInv, Calls, WriteRest
<1> QED BY <1>8, <1>9, <1>10 DEF IInv

\* A call of read only records how much is to be read, and never more than is
\* there.
LEMMA ReadCallInv ==
    ASSUME IInv, NEW n \in 0..MaxOp, ReadCall(n) PROVE IInv'
<1>1. n \in Nat BY LimitsAssumption
<1> TypeOK BY DEF IInv, CountersExact
<1>2. TypeOK'
  <2>1. CASE n > m_size
    <3>1. [ok |-> FALSE, bytes |-> << >>] \in [ok : BOOLEAN, bytes : Seq(Byte)]
      OBVIOUS
    <3> QED BY <2>1, <3>1 DEF TypeOK, ReadCall, nodeVars
  <2>2. CASE ~ (n > m_size) BY <1>1, <2>2 DEF TypeOK, ReadCall, nodeVars
  <2> QED BY <2>1, <2>2
<1>3. CountersExact'
  BY <1>2 DEF IInv, CountersExact, ReadCall, nodeVars, Stored, useCapcity
<1>4. Filled' BY DEF IInv, Filled, End, Cell, ReadCall, nodeVars
<1>5. Calls' BY <1>1 DEF IInv, Calls, TypeOK, ReadCall, nodeVars
<1> QED BY <1>3, <1>4, <1>5 DEF IInv

\* The first node is read to its end and freed: there is another one, because
\* read never goes beyond m_pos.
LEMMA ReadNodeInv ==
    ASSUME IInv, ReadNode PROVE IInv'
<1>1. /\ Base \in Nat \ {0} /\ w \in Nat \ {0} /\ (w - 1) * Base \in Nat
      /\ w = Len(chain) /\ chain \in Seq(Node)
      /\ wpos \in 0..Base /\ rpos \in 0..Base
      /\ End = (w - 1) * Base + wpos /\ End \in Nat
      /\ m_size \in Nat /\ End = rpos + m_size /\ m_capcity = m_size + (Base - wpos)
      /\ size \in 0..m_size /\ out \in Seq(Byte)
  BY Shape
<1>2. readLastSize \in Nat /\ readLastSize = Base - rpos /\ readLastSize < size
  BY <1>1 DEF ReadNode, readLastSize
<1> TypeOK BY DEF IInv, CountersExact
<1>3. w >= 2
  <2>1. ASSUME w = 1 PROVE FALSE
    <3>1. (1 - 1) * Base = 0 BY <1>1, SMT
    <3> QED BY <1>1, <1>2, <2>1, <3>1
  <2> QED BY <1>1, <2>1
<1>4. /\ chain' = Tail(chain) /\ out' = CopyOut(readLastSize) /\ chain # << >>
  BY <1>1, <1>3 DEF ReadNode
<1>5. /\ w' = w - 1 /\ wpos' = wpos /\ rpos' = 0
      /\ m_size' = m_size - readLastSize /\ m_capcity' = m_capcity - readLastSize
      /\ size' = size - readLastSize /\ live' = live - 1
      /\ op' = op /\ buf' = buf /\ ret' = ret /\ total' = total
  BY DEF ReadNode
<1>6. chain' \in Seq(Node) /\ Len(chain') = w - 1
  BY <1>1, <1>4, HeadTailProperties
<1>7. ((w - 1) - 1) * Base = (w - 1) * Base - Base /\ ((w - 1) - 1) * Base \in Nat
  BY <1>1, <1>3, SMT
<1>8. out' \in Seq(Byte)
  <2>1. /\ out' = out \o Bytes(chain, rpos, readLastSize)
        /\ Bytes(chain, rpos, readLastSize) \in Seq(Byte)
    <3>1. readLastSize \in Nat /\ rpos + readLastSize <= Base /\ readLastSize <= m_size
      BY <1>1, <1>2
    <3> QED BY <1>4, <3>1, CopyOutBytes
  <2> QED BY <1>1, <2>1
<1>9. TypeOK'
  <2>1. chain' \in Seq([0..(Base - 1) -> Byte \cup {Junk}]) /\ w' \in 1..Len(chain')
    BY <1>1, <1>3, <1>5, <1>6 DEF Node
  <2>2. live' \in Nat
    BY <1>1, <1>5 DEF IInv, Calls, ReadNode
  <2>3. m_size' \in Nat /\ m_capcity' \in Nat /\ size' \in Nat /\ rpos' \in 0..Base
    BY <1>1, <1>2, <1>5
  <2> QED BY <1>5, <1>8, <2>1, <2>2, <2>3 DEF TypeOK
<1>10. End' = End - Base BY <1>1, <1>5, <1>7 DEF End
<1>11. CountersExact'
  <2>1. Stored' = End' BY <1>1, <1>5, <1>7 DEF Stored, End
  <2>2. m_size' = Stored' BY <1>1, <1>2, <1>5, <1>10, <2>1
  <2>3. useCapcity' = Base - wpos BY <1>5 DEF useCapcity
  <2>4. m_capcity' = m_size' + useCapcity' BY <1>1, <1>2, <1>5, <2>3
  <2> QED BY <1>1, <1>5, <1>6, <1>9, <2>2, <2>4 DEF CountersExact
<1>12. Filled'
  <2> SUFFICES ASSUME NEW n \in 0..(End' - 1) PROVE Cell(Tail(chain), n) \in Byte
    BY <1>4, <1>5 DEF Filled, Cell
  <2>1. n \in Nat /\ n < (Len(chain) - 1) * Base BY <1>1, <1>10
  <2>2. Cell(Tail(chain), n) = Cell(chain, n + Base) BY <1>1, <1>4, <2>1, CellTail
  <2>3. n + Base \in rpos..(End - 1) BY <1>1, <1>10, <2>1
  <2> QED BY <2>2, <2>3 DEF IInv, Filled
<1>13. Calls' BY <1>1, <1>2, <1>5 DEF IInv, Calls, ReadNode
<1> QED BY <1>11, <1>12, <1>13 DEF IInv

\* The rest of a read is in the first node.
LEMMA ReadRestInv ==
    ASSUME IInv, ReadRest PROVE IInv'
<1>1. /\ Base \in Nat \ {0} /\ w \in Nat \ {0} /\ (w - 1) * Base \in Nat
      /\ wpos \in 0..Base /\ rpos \in 0..Base
      /\ End = (w - 1) * Base + wpos /\ End \in Nat
      /\ m_size \in Nat /\ End = rpos + m_size /\ m_capcity = m_size + (Base - wpos)
      /\ size \in 0..m_size /\ out \in Seq(Byte)
  BY Shape
<1>2. size \in Nat /\ rpos + size <= Base BY <1>1 DEF ReadRest, readLastSize
<1> TypeOK BY DEF IInv, CountersExact
<1>3. /\ rpos' = rpos + size /\ m_capcity' = m_capcity - size
      /\ m_size' = m_size - size /\ size' = 0 /\ live' = live
      /\ chain' = chain /\ w' = w /\ wpos' = wpos
  BY DEF ReadRest
<1>4. /\ op' = "none" /\ out' = << >> /\ buf' = buf /\ total' = total
      /\ ret' = [ok |-> TRUE, bytes |-> CopyOut(size)]
  BY DEF ReadRest
<1>5. CopyOut(size) \in Seq(Byte)
  <2>1. /\ CopyOut(size) = out \o Bytes(chain, rpos, size)
        /\ Bytes(chain, rpos, size) \in Seq(Byte)
    BY <1>1, <1>2, CopyOutBytes
  <2> QED BY <1>1, <2>1
<1>6. TypeOK'
  <2>1. ret' \in [ok : BOOLEAN, bytes : Seq(Byte)] BY <1>4, <1>5
  <2>2. out' \in Seq(Byte) /\ op' \in {"none", "write", "read", "gone"} BY <1>4
  <2>3. m_size' \in Nat /\ m_capcity' \in Nat /\ size' \in Nat /\ rpos' \in 0..Base
    BY <1>1, <1>2, <1>3
  <2> QED BY <1>3, <1>4, <2>1, <2>2, <2>3 DEF TypeOK
<1>7. End' = End BY <1>3 DEF End
<1>8. CountersExact'
  <2>1. Stored' = End' - rpos' BY <1>1, <1>2, <1>3 DEF Stored, End
  <2>2. m_size' = Stored' BY <1>1, <1>2, <1>3, <1>7, <2>1
  <2>3. useCapcity' = Base - wpos BY <1>3 DEF useCapcity
  <2>4. m_capcity' = m_size' + useCapcity' BY <1>1, <1>2, <1>3, <2>3
  <2>5. w' = Len(chain') BY <1>3 DEF IInv, CountersExact
  <2> QED BY <1>6, <2>2, <2>4, <2>5 DEF CountersExact
<1>9. Filled'
  <2> SUFFICES ASSUME NEW n \in (rpos + size)..(End - 1) PROVE Cell(chain, n) \in Byte
    BY <1>3, <1>7 DEF Filled, Cell
  <2>1. n \in rpos..(End - 1) BY <1>1, <1>2
  <2> QED BY <2>1 DEF IInv, Filled
<1>10. Calls' BY <1>1, <1>2, <1>3, <1>4 DEF IInv, Calls, ReadRest
<1> QED BY <1>8, <1>9, <1>10 DEF IInv

\* The destructor leaves the last node, and only that.
LEMMA DestroyInv ==
    ASSUME IInv, Destroy PROVE IInv'
<1> TypeOK BY DEF IInv, CountersExact
<1>1. live' = 1
  <2>1. w = Len(chain) /\ w \in Nat BY Shape
  <2> QED BY <2>1 DEF IInv, Calls, Destroy
<1>2. TypeOK' BY <1>1 DEF TypeOK, Destroy
<1>3. CountersExact' BY <1>2 DEF IInv, CountersExact, Destroy, Stored, useCapcity
<1>4. Filled' BY DEF IInv, Filled, End, Cell, Destroy
<1>5. Calls' BY <1>1 DEF IInv, Calls, Destroy
<1> QED BY <1>3, <1>4, <1>5 DEF IInv

\* The invariant holds in every state.
LEMMA Inductive == Spec => []IInv
<1>1. ASSUME IInv, [Next]_vars PROVE IInv'
  <2>1. CASE UNCHANGED vars
    BY <1>1, <2>1 DEF vars, IInv, CountersExact, TypeOK, Stored, useCapcity, Filled, End,
                      Cell, Calls
  <2>2. CASE \E b \in Buffers : WriteCall(b) BY <1>1, <2>2, WriteCallInv
  <2>3. CASE \E n \in 0..MaxOp : ReadCall(n) BY <1>1, <2>3, ReadCallInv
  <2>4. CASE WriteNode BY <1>1, <2>4, WriteNodeInv
  <2>5. CASE WriteRest BY <1>1, <2>5, WriteRestInv
  <2>6. CASE ReadNode BY <1>1, <2>6, ReadNodeInv
  <2>7. CASE ReadRest BY <1>1, <2>7, ReadRestInv
  <2>8. CASE Destroy BY <1>1, <2>8, DestroyInv
  <2> QED BY <1>1, <2>1, <2>2, <2>3, <2>4, <2>5, <2>6, <2>7, <2>8 DEF Next
<1> QED BY InitInv, <1>1, PTL DEF Spec

----------------------------------------------------------------------------
\* getSize() and getCapcity() agree with the pointers after every step of every
\* call, for every size of a node.
THEOREM CountersTheorem == Spec => []CountersExact
<1>1. IInv => CountersExact BY DEF IInv
<1> QED BY Inductive, <1>1, PTL

\* The array never holds more than two nodes beyond those full of unread bytes,
\* and its destructor leaves exactly the last one.
THEOREM MemoryTheorem == Spec => []MemoryBounded
<1>1. ASSUME IInv PROVE MemoryBounded
  <2>1. /\ Base \in Nat \ {0} /\ w \in Nat \ {0} /\ (w - 1) * Base \in Nat
        /\ wpos \in 0..Base /\ rpos \in 0..Base /\ m_size \in Nat
        /\ End = (w - 1) * Base + wpos /\ End = rpos + m_size
    BY <1>1, Shape
  <2>2. live = IF op = "gone" THEN 1 ELSE w BY <1>1 DEF IInv, Calls
  <2>3. (w - 2) * Base = (w - 1) * Base - Base BY <2>1, SMT
  <2>4. (w - 2) * Base <= m_size BY <2>1, <2>3
  <2> QED BY <2>2, <2>4 DEF MemoryBounded
<1> QED BY Inductive, <1>1, PTL

----------------------------------------------------------------------------
(* The refinement of ByteQueue.  What Content, and with it the queue, holds:   *)
(* the m_size bytes from m_cur on.                                            *)
AbsQ == IF op = "write" THEN Content \o buf ELSE Drop(Content, size)
AbsRet == IF op = "read" THEN [ok |-> TRUE, bytes |-> out \o SubSeq(Content, 1, size)]
                         ELSE ret

\* Content in terms of positions, as a sequence of bytes.
LEMMA ContentBytes ==
    ASSUME IInv
    PROVE  /\ Content = Bytes(chain, rpos, m_size)
           /\ Content \in Seq(Byte) /\ Len(Content) = m_size
           /\ \A p \in rpos..(rpos + m_size - 1) : Cell(chain, p) \in Byte
<1>1. rpos \in Nat /\ m_size \in Nat /\ End = rpos + m_size BY Shape
<1>2. Content = Bytes(chain, rpos, m_size)
  BY DEF IInv, CountersExact, Content, Bytes, Cell
<1>3. \A p \in rpos..(rpos + m_size - 1) : Cell(chain, p) \in Byte
  BY <1>1 DEF IInv, Filled
<1> QED BY <1>1, <1>2, <1>3, BytesSeq

\* The same in the state after a step.
LEMMA ContentNext ==
    ASSUME IInv' PROVE Content' = Bytes(chain', rpos', m_size')
BY DEF IInv, CountersExact, Content, Bytes, Cell

\* Outside of write the queue is the content without what a read is taking.
LEMMA Halves ==
    ASSUME IInv
    PROVE  /\ SubSeq(Content, 1, size) = Bytes(chain, rpos, size)
           /\ Drop(Content, size) = Bytes(chain, rpos + size, m_size - size)
<1>1. rpos \in Nat /\ m_size \in Nat /\ size \in 0..m_size BY Shape
<1>2. /\ Content = Bytes(chain, rpos, m_size)
      /\ \A p \in rpos..(rpos + m_size - 1) : Cell(chain, p) \in Byte
  BY ContentBytes
<1>3. /\ SubSeq(Bytes(chain, rpos, m_size), 1, size) = Bytes(chain, rpos, size)
      /\ Drop(Bytes(chain, rpos, m_size), size) = Bytes(chain, rpos + size, m_size - size)
  BY <1>1, <1>2, BytesSplit
<1> QED BY <1>2, <1>3

\* A write that leaves the bytes up to m_pos alone and puts bytes b after them
\* appends these bytes to the content.
\* Kept: the n bytes from r on are those of c. Put: from r on are the bytes b.
\* Longer: the content from r on is the old one and b after it.
Kept(c, e, r, n) == \A p \in r..(r + n - 1) : Cell(c, p) \in Byte /\ Cell(e, p) = Cell(c, p)
Put(e, r, b) == \A j \in 0..(Len(b) - 1) : Cell(e, r + j) = b[j + 1]
Longer(c, e, r, n, b) == Bytes(e, r, n + Len(b)) = Bytes(c, r, n) \o b

LEMMA Appended ==
    ASSUME NEW c, NEW e, NEW r \in Nat, NEW n \in Nat, NEW b \in Seq(Byte), Kept(c, e, r, n), Put(e, r + n, b)
    PROVE  Longer(c, e, r, n, b)
<1> USE DEF Kept, Put
<1> DEFINE m == Len(b)
<1>1. m \in Nat /\ n + m \in Nat /\ r + n \in Nat OBVIOUS
<1>2. \A k \in 1..m : Cell(e, (r + n) + k - 1) = b[k] /\ b[k] \in Byte
  <2> SUFFICES ASSUME NEW k \in 1..m
               PROVE  Cell(e, (r + n) + k - 1) = b[k] /\ b[k] \in Byte
    OBVIOUS
  <2>1. k - 1 \in 0..(m - 1) /\ (k - 1) + 1 = k /\ (r + n) + (k - 1) = (r + n) + k - 1
    BY <1>1
  <2> QED BY <2>1, ElementOfSeq
<1>3. b = Bytes(e, r + n, m)
  <2>1. b = [k \in 1..m |-> b[k]] OBVIOUS
  <2> QED BY <1>2, <2>1 DEF Bytes
<1>4. Bytes(c, r, n) = Bytes(e, r, n)
  BY DEF Bytes
<1>5. \A p \in r..(r + (n + m) - 1) : Cell(e, p) \in Byte
  <2> SUFFICES ASSUME NEW p \in r..(r + (n + m) - 1) PROVE Cell(e, p) \in Byte OBVIOUS
  <2>1. CASE p < r + n BY <1>1, <2>1
  <2>2. CASE p >= r + n
    <3>1. p - (r + n) + 1 \in 1..m /\ (r + n) + (p - (r + n) + 1) - 1 = p BY <1>1, <2>2
    <3> QED BY <1>2, <3>1
  <2> QED BY <1>1, <2>1, <2>2
<1>6. n \in 0..(n + m) /\ (n + m) - n = m BY <1>1
<1>7. Bytes(e, r, n + m) = Bytes(e, r, n) \o Bytes(e, r + n, (n + m) - n)
  BY <1>1, <1>5, <1>6, BytesSplit
<1> QED BY <1>3, <1>4, <1>6, <1>7 DEF Longer

\* Between calls the queue is the content.
LEMMA Idle ==
    ASSUME IInv, op = "none" PROVE AbsQ = Content /\ AbsRet = ret
<1>1. Content \in Seq(Byte) /\ Len(Content) \in Nat BY ContentBytes
<1>2. size = 0 BY DEF IInv, Calls
<1>3. SubSeq(Content, 0 + 1, Len(Content)) = Content BY <1>1, SubSeqFull
<1> QED BY <1>2, <1>3 DEF AbsQ, AbsRet, Drop

\* A call of write is the abstract write.
LEMMA WriteCallSim ==
    ASSUME IInv, NEW b \in Buffers, WriteCall(b)
    PROVE  AbsQ' = AbsQ \o b /\ AbsRet' = AbsRet
<1>1. AbsQ = Content /\ AbsRet = ret BY Idle DEF WriteCall
<1>2. Content' = Content BY DEF WriteCall, nodeVars, Content, Stored
<1> QED BY <1>1, <1>2 DEF WriteCall, AbsQ, AbsRet

\* An iteration of write moves bytes from its buffer into the chain.
LEMMA WriteNodeSim ==
    ASSUME IInv, IInv', WriteNode
    PROVE  AbsQ' = AbsQ /\ AbsRet' = AbsRet
<1>1. /\ rpos \in Nat /\ m_size \in Nat /\ End = rpos + m_size
      /\ buf \in Seq(Byte) /\ Len(buf) \in Nat
  BY Shape
<1>2. /\ useCapcity \in 0..Len(buf)
      /\ \A n \in 0..(End - 1) : Cell(chain', n) = Cell(chain, n)
      /\ \A j \in 0..(useCapcity - 1) : Cell(chain', End + j) = buf[j + 1]
  BY WriteNodeCells
<1>3. /\ Content = Bytes(chain, rpos, m_size) /\ Content \in Seq(Byte)
      /\ \A p \in rpos..(rpos + m_size - 1) : Cell(chain, p) \in Byte
  BY ContentBytes
<1> DEFINE s == SubSeq(buf, 1, useCapcity)
<1>4. buf' = SubSeq(buf, useCapcity + 1, Len(buf)) /\ op = "write" /\ op' = "write" /\ ret' = ret
  BY DEF WriteNode, Drop
<1>5. /\ s \in Seq(Byte) /\ Len(s) = useCapcity /\ buf' \in Seq(Byte) /\ s \o buf' = buf
      /\ \A j \in 0..(useCapcity - 1) : s[j + 1] = buf[j + 1]
  <2>1. \A i \in 1..Len(buf) : buf[i] \in Byte BY <1>1, ElementOfSeq
  <2>2. /\ s \in Seq(Byte) /\ Len(s) = useCapcity
        /\ \A j \in 0..(useCapcity - 1) : s[j + 1] = buf[j + 1]
    BY <1>1, <1>2, <2>1
  <2>3. SubSeq(buf, useCapcity + 1, Len(buf)) \in Seq(Byte) BY <1>1, <1>2, <2>1
  <2>4. /\ 1 \in 1..(Len(buf) + 1) /\ useCapcity \in (1 - 1)..Len(buf)
        /\ Len(buf) \in useCapcity..Len(buf)
    BY <1>1, <1>2
  <2>5. s \o SubSeq(buf, useCapcity + 1, Len(buf)) = SubSeq(buf, 1, Len(buf))
    BY <1>1, <2>4, ConcatAdjacentSubSeq
  <2>6. SubSeq(buf, 1, Len(buf)) = buf BY <1>1, SubSeqFull
  <2> QED BY <1>4, <2>2, <2>3, <2>5, <2>6
<1> HIDE DEF s
<1>6. Content' = Content \o s
  <2>1. Content' = Bytes(chain', rpos, m_size + Len(s))
    BY <1>5, ContentNext DEF WriteNode
  <2>2. Kept(chain, chain', rpos, m_size) BY <1>1, <1>2, <1>3 DEF Kept
  <2>3. Put(chain', rpos + m_size, s) BY <1>1, <1>2, <1>5 DEF Put
  <2>4. rpos \in Nat /\ m_size \in Nat /\ s \in Seq(Byte) BY <1>1, <1>5
  <2>5. Bytes(chain', rpos, m_size + Len(s)) = Bytes(chain, rpos, m_size) \o s
    <3>1. Longer(chain, chain', rpos, m_size, s) BY ONLY <2>2, <2>3, <2>4, Appended, Zenon
    <3> QED BY ONLY <3>1, Zenon DEF Longer
  <2> QED BY <1>3, <2>1, <2>5
<1>7. (Content \o s) \o buf' = Content \o buf
  <2>1. Content \in Seq(Byte) /\ s \in Seq(Byte) /\ buf' \in Seq(Byte) BY <1>3, <1>5
  <2>2. (Content \o s) \o buf' = Content \o (s \o buf') BY ONLY <2>1, ConcatAssociative
  <2> QED BY <1>5, <2>2
<1> QED BY <1>4, <1>6, <1>7 DEF AbsQ, AbsRet

\* So does the end of write.
LEMMA WriteRestSim ==
    ASSUME IInv, IInv', WriteRest
    PROVE  AbsQ' = AbsQ /\ AbsRet' = AbsRet
<1>1. /\ Base \in Nat \ {0} /\ w = Len(chain) /\ wpos \in 0..Base
      /\ rpos \in Nat /\ m_size \in Nat /\ End = rpos + m_size
      /\ buf \in Seq(Byte) /\ Len(buf) \in Nat
  BY Shape
<1>2. Len(buf) \in 0..useCapcity /\ Len(buf) <= Len(buf)
  BY <1>1 DEF WriteRest, useCapcity
<1> TypeOK BY DEF IInv, CountersExact
<1>3. /\ \A n \in 0..(End - 1) : Cell(CopyIn(Len(buf)), n) = Cell(chain, n)
      /\ \A j \in 0..(Len(buf) - 1) : Cell(CopyIn(Len(buf)), End + j) = buf[j + 1]
  BY <1>1, <1>2, CellCopyIn
<1>4. /\ Content = Bytes(chain, rpos, m_size) /\ Content \in Seq(Byte)
      /\ \A p \in rpos..(rpos + m_size - 1) : Cell(chain, p) \in Byte
  BY ContentBytes
<1>5. Content' = Content \o buf
  <2>1. Content' = Bytes(CopyIn(Len(buf)), rpos, m_size + Len(buf))
    BY ContentNext DEF WriteRest
  <2>2. Kept(chain, CopyIn(Len(buf)), rpos, m_size) BY <1>1, <1>3, <1>4 DEF Kept
  <2>3. Put(CopyIn(Len(buf)), rpos + m_size, buf) BY <1>1, <1>3 DEF Put
  <2>4. rpos \in Nat /\ m_size \in Nat /\ buf \in Seq(Byte) BY <1>1
  <2>5. Bytes(CopyIn(Len(buf)), rpos, m_size + Len(buf)) = Bytes(chain, rpos, m_size) \o buf
    <3>1. Longer(chain, CopyIn(Len(buf)), rpos, m_size, buf) BY ONLY <2>2, <2>3, <2>4, Appended, Zenon
    <3> QED BY ONLY <3>1, Zenon DEF Longer
  <2> QED BY <1>4, <2>1, <2>5
<1>6. AbsQ = Content \o buf /\ AbsRet = ret BY DEF AbsQ, AbsRet, WriteRest
<1>7. AbsQ' = Content' /\ AbsRet' = ret'
  <2>1. op' = "none" /\ size' = 0 BY DEF WriteRest, IInv, Calls
  <2>2. Content' \in Seq(Byte) BY <1>1, <1>4, <1>5
  <2>3. SubSeq(Content', 0 + 1, Len(Content')) = Content' BY <2>2, SubSeqFull
  <2> QED BY <2>1, <2>3 DEF AbsQ, AbsRet, Drop
<1> QED BY <1>5, <1>6, <1>7 DEF WriteRest

\* A call of read is the abstract read, or its refusal.
LEMMA ReadCallSim ==
    ASSUME IInv, NEW n \in 0..MaxOp, ReadCall(n)
    PROVE  /\ Len(AbsQ) \in Nat
           /\ IF n > Len(AbsQ)
              THEN AbsQ' = AbsQ /\ AbsRet' = [ok |-> FALSE, bytes |-> << >>]
              ELSE /\ AbsQ' = SubSeq(AbsQ, n + 1, Len(AbsQ))
                   /\ AbsRet' = [ok |-> TRUE, bytes |-> SubSeq(AbsQ, 1, n)]
<1>1. AbsQ = Content /\ AbsRet = ret BY Idle DEF ReadCall
<1>2. Content \in Seq(Byte) /\ Len(Content) = m_size /\ m_size \in Nat BY ContentBytes, Shape
<1>3. Content' = Content BY DEF ReadCall, nodeVars, Content, Stored
<1>4. size = 0 /\ out = << >> /\ op = "none" /\ n \in Nat
  BY LimitsAssumption DEF IInv, Calls, ReadCall
<1>5. CASE n > m_size
  <2>1. op' = "none" /\ size' = 0 /\ ret' = [ok |-> FALSE, bytes |-> << >>]
    BY <1>4, <1>5 DEF ReadCall
  <2>2. SubSeq(Content, 0 + 1, Len(Content)) = Content BY <1>2, SubSeqFull
  <2>3. AbsQ' = Content BY <1>3, <2>1, <2>2 DEF AbsQ, Drop
  <2>4. AbsRet' = ret' BY <2>1 DEF AbsRet
  <2> QED BY <1>1, <1>2, <1>5, <2>1, <2>3, <2>4
<1>6. CASE ~ (n > m_size)
  <2>1. op' = "read" /\ size' = n /\ out' = << >>
    BY <1>4, <1>6 DEF ReadCall
  <2>2. AbsQ' = SubSeq(Content, n + 1, Len(Content)) BY <1>3, <2>1 DEF AbsQ, Drop
  <2>3. << >> \o SubSeq(Content, 1, n) = SubSeq(Content, 1, n)
    <3>1. \A i \in 1..n : Content[i] \in Byte BY <1>2, <1>4, <1>6, ElementOfSeq
    <3>2. SubSeq(Content, 1, n) \in Seq(Byte) BY <1>4, <3>1, SubSeqProperties
    <3> QED BY <3>2, ConcatEmptySeq
  <2>4. AbsRet' = [ok |-> TRUE, bytes |-> SubSeq(Content, 1, n)]
    BY <1>3, <2>1, <2>3 DEF AbsRet
  <2> QED BY <1>1, <1>2, <1>6, <2>2, <2>4
<1> QED BY <1>5, <1>6

\* Emptying the first node moves bytes from the chain to the caller.
LEMMA ReadNodeSim ==
    ASSUME IInv, IInv', ReadNode
    PROVE  AbsQ' = AbsQ /\ AbsRet' = AbsRet
<1>1. /\ Base \in Nat \ {0} /\ w = Len(chain) /\ w \in Nat /\ (w - 1) * Base \in Nat
      /\ chain \in Seq(Node) /\ wpos \in 0..Base /\ rpos \in 0..Base
      /\ End = (w - 1) * Base + wpos /\ m_size \in Nat /\ End = rpos + m_size
      /\ size \in 0..m_size /\ out \in Seq(Byte)
  BY Shape
<1>2. /\ readLastSize \in 0..size /\ readLastSize = Base - rpos /\ readLastSize < size
      /\ op = "read" /\ op' = "read" /\ chain' = Tail(chain) /\ rpos' = 0
      /\ size' = size - readLastSize /\ m_size' = m_size - readLastSize
      /\ out' = CopyOut(readLastSize) /\ ret' = ret
  BY <1>1 DEF ReadNode, readLastSize
<1> DEFINE l == readLastSize
           s == size - l
<1>3. /\ l \in Nat /\ s \in Nat /\ rpos + l = Base /\ l <= m_size /\ rpos \in Nat
      /\ m_size - size \in Nat /\ (m_size - l) - s = m_size - size /\ Base + s = rpos + size
  BY <1>1, <1>2
<1> HIDE DEF l, s
<1>4. \A p \in rpos..(rpos + m_size - 1) : Cell(chain, p) \in Byte BY ContentBytes
<1>5. ASSUME NEW n \in Nat, n < m_size - l PROVE Cell(chain', n) = Cell(chain, n + Base)
  <2>1. n < (Len(chain) - 1) * Base BY <1>1, <1>3, <1>5
  <2>2. chain # << >> BY <1>1, <2>1
  <2> QED BY <1>1, <1>2, <2>1, <2>2, CellTail
<1>6. /\ Bytes(chain', 0, s) = Bytes(chain, Base, s)
      /\ Bytes(chain', s, m_size - size) = Bytes(chain, rpos + size, m_size - size)
  <2>1. ASSUME NEW k \in 1..s PROVE Cell(chain', 0 + k - 1) = Cell(chain, Base + k - 1)
    <3>1. 0 + k - 1 \in Nat /\ 0 + k - 1 < m_size - l /\ (0 + k - 1) + Base = Base + k - 1
      BY <1>1, <1>3
    <3> QED BY <1>5, <3>1
  <2>2. ASSUME NEW k \in 1..(m_size - size)
        PROVE  Cell(chain', s + k - 1) = Cell(chain, (rpos + size) + k - 1)
    <3>1. /\ s + k - 1 \in Nat /\ s + k - 1 < m_size - l
          /\ (s + k - 1) + Base = (rpos + size) + k - 1
      BY <1>1, <1>3
    <3> QED BY <1>5, <3>1
  <2> QED BY <2>1, <2>2 DEF Bytes
<1>7. /\ SubSeq(Content, 1, size) = Bytes(chain, rpos, size)
      /\ Drop(Content, size) = Bytes(chain, rpos + size, m_size - size)
  BY Halves
<1>8. /\ SubSeq(Content', 1, s) = Bytes(chain', 0, s)
      /\ Drop(Content', s) = Bytes(chain', s, m_size - size)
  <2>1. Content' = Bytes(chain', 0, m_size - l) BY <1>2, ContentNext DEF l
  <2>2. \A p \in 0..(0 + (m_size - l) - 1) : Cell(chain', p) \in Byte
    <3> SUFFICES ASSUME NEW p \in 0..(0 + (m_size - l) - 1) PROVE Cell(chain', p) \in Byte
      OBVIOUS
    <3>1. p \in Nat /\ p < m_size - l /\ p + Base \in rpos..(rpos + m_size - 1)
      BY <1>1, <1>3
    <3> QED BY <1>4, <1>5, <3>1
  <2>3. m_size - l \in Nat /\ s \in 0..(m_size - l) /\ 0 \in Nat /\ 0 + s = s BY <1>1, <1>3
  <2>4. /\ SubSeq(Bytes(chain', 0, m_size - l), 1, s) = Bytes(chain', 0, s)
        /\ Drop(Bytes(chain', 0, m_size - l), s) = Bytes(chain', 0 + s, (m_size - l) - s)
    BY ONLY <2>2, <2>3, BytesSplit
  <2> QED BY <1>3, <2>1, <2>3, <2>4
<1>9. AbsQ' = AbsQ
  BY <1>2, <1>6, <1>7, <1>8 DEF AbsQ, l, s
<1>10. out' \o Bytes(chain, Base, s) = out \o Bytes(chain, rpos, size)
  <2>1. out' = out \o Bytes(chain, rpos, l) /\ Bytes(chain, rpos, l) \in Seq(Byte)
    <3>1. l \in Nat /\ rpos + l <= Base /\ l <= m_size BY <1>1, <1>3
    <3>2. CopyOut(l) = out \o Bytes(chain, rpos, l) /\ Bytes(chain, rpos, l) \in Seq(Byte)
      BY <3>1, CopyOutBytes
    <3> QED BY <1>2, <3>2 DEF l
  <2>2. /\ Bytes(chain, Base, s) \in Seq(Byte)
        /\ Bytes(chain, rpos, l) \o Bytes(chain, Base, s) = Bytes(chain, rpos, size)
    <3>1. /\ \A p \in rpos..(rpos + size - 1) : Cell(chain, p) \in Byte
          /\ \A p \in Base..(Base + s - 1) : Cell(chain, p) \in Byte
      BY <1>1, <1>3, <1>4
    <3>2. size \in Nat /\ l \in 0..size /\ size - l = s /\ rpos + l = Base /\ Base \in Nat
      BY <1>1, <1>2, <1>3 DEF l, s
    <3>3. Bytes(chain, rpos, size) = Bytes(chain, rpos, l) \o Bytes(chain, rpos + l, size - l)
      <4>1. HasBytes(chain, rpos, size) BY ONLY <3>1 DEF HasBytes
      <4>2. rpos \in Nat BY <1>1
      <4> QED BY ONLY <3>2, <4>1, <4>2, BytesJoin, Zenon
    <3>4. Bytes(chain, Base, s) \in Seq(Byte) BY <1>3, <3>1, <3>2, BytesSeq
    <3> QED BY <3>2, <3>3, <3>4
  <2>3. (out \o Bytes(chain, rpos, l)) \o Bytes(chain, Base, s)
          = out \o (Bytes(chain, rpos, l) \o Bytes(chain, Base, s))
    <3>1. /\ out \in Seq(Byte) /\ Bytes(chain, rpos, l) \in Seq(Byte)
          /\ Bytes(chain, Base, s) \in Seq(Byte)
      BY <1>1, <2>1, <2>2
    <3> QED BY ONLY <3>1, ConcatAssociative
  <2> QED BY <2>1, <2>2, <2>3
<1>11. AbsRet' = AbsRet
  BY <1>2, <1>6, <1>7, <1>8, <1>10 DEF AbsRet, l, s
<1> QED BY <1>9, <1>11

\* So does the end of read, which returns what was promised by the call.
LEMMA ReadRestSim ==
    ASSUME IInv, IInv', ReadRest
    PROVE  AbsQ' = AbsQ /\ AbsRet' = AbsRet
<1>1. /\ rpos \in Nat /\ m_size \in Nat /\ size \in 0..m_size /\ rpos \in 0..Base
      /\ Base \in Nat
  BY Shape
<1>2. size \in Nat /\ rpos + size <= Base /\ size <= m_size /\ m_size - size \in Nat
  BY <1>1 DEF ReadRest, readLastSize
<1>3. /\ SubSeq(Content, 1, size) = Bytes(chain, rpos, size)
      /\ Drop(Content, size) = Bytes(chain, rpos + size, m_size - size)
  BY Halves
<1>4. CopyOut(size) = out \o Bytes(chain, rpos, size) BY <1>1, <1>2, CopyOutBytes
<1>5. AbsRet' = AbsRet BY <1>3, <1>4 DEF AbsRet, ReadRest
<1>6. Content' = Drop(Content, size)
  <2>1. Content' = Bytes(chain, rpos + size, m_size - size) BY ContentNext DEF ReadRest
  <2> QED BY <1>3, <2>1
<1>7. Drop(Content, size) \in Seq(Byte)
  <2>1. \A p \in rpos..(rpos + m_size - 1) : Cell(chain, p) \in Byte BY ContentBytes
  <2>2. \A p \in (rpos + size)..((rpos + size) + (m_size - size) - 1) :
            Cell(chain, p) \in Byte
    BY <1>1, <1>2, <2>1
  <2> QED BY <1>1, <1>2, <1>3, <2>2, BytesSeq
<1>8. SubSeq(Content', 0 + 1, Len(Content')) = Content' BY <1>6, <1>7, SubSeqFull
<1>9. AbsQ' = Content'
  <2>1. op' = "none" /\ size' = 0 BY DEF ReadRest
  <2> QED BY <1>8, <2>1 DEF AbsQ, Drop
<1>10. AbsQ = Drop(Content, size) BY DEF AbsQ, ReadRest
<1> QED BY <1>5, <1>6, <1>9, <1>10

\* write and read of any number of nodes are a queue's: write appends, read takes
\* the oldest bytes, all or nothing, and no byte is lost, repeated, reordered or
\* read before it was written.
THEOREM QueueTheorem == Spec => ImplementsQueue
<1>1. Init => Queue!Init
  <2> SUFFICES ASSUME Init PROVE Queue!Init OBVIOUS
  <2>1. IInv BY InitInv
  <2>2. Content = << >>
    <3>1. Content \in Seq(Byte) /\ Len(Content) = 0 BY <2>1, ContentBytes DEF Init
    <3> QED BY <3>1
  <2>3. AbsQ = << >> /\ AbsRet = [ok |-> TRUE, bytes |-> << >>]
    BY <2>1, <2>2, Idle DEF Init
  <2> QED BY <2>3 DEF Queue!Init, AbsQ, AbsRet, Init
<1>2. ASSUME IInv, IInv', [Next]_vars PROVE [Queue!Next]_(Queue!vars)
  <2>1. CASE UNCHANGED vars
    BY <2>1 DEF vars, Queue!vars, Content, Stored
  <2>2. ASSUME NEW b \in Buffers, WriteCall(b) PROVE Queue!Next
    <3>1. AbsQ' = AbsQ \o b /\ AbsRet' = AbsRet BY <1>2, <2>2, WriteCallSim
    <3>2. total + Len(b) <= MaxTotal /\ total' = total + Len(b) BY <2>2 DEF WriteCall
    <3>3. Queue!Write(b) BY <3>1, <3>2 DEF Queue!Write, AbsQ, AbsRet
    <3> QED BY <3>3 DEF Queue!Next, Queue!Buffers, Buffers
  <2>3. ASSUME NEW n \in 0..MaxOp, ReadCall(n) PROVE Queue!Next
    <3>1. /\ Len(AbsQ) \in Nat
          /\ IF n > Len(AbsQ)
             THEN AbsQ' = AbsQ /\ AbsRet' = [ok |-> FALSE, bytes |-> << >>]
             ELSE /\ AbsQ' = SubSeq(AbsQ, n + 1, Len(AbsQ))
                  /\ AbsRet' = [ok |-> TRUE, bytes |-> SubSeq(AbsQ, 1, n)]
      BY <1>2, <2>3, ReadCallSim
    <3>2. total' = total /\ n \in Nat BY <2>3, LimitsAssumption DEF ReadCall
    <3>3. CASE n > Len(AbsQ)
      <4>1. Queue!ReadFails(n) BY <3>1, <3>2, <3>3 DEF Queue!ReadFails, AbsQ, AbsRet
      <4> QED BY <4>1 DEF Queue!Next
    <3>4. CASE ~ (n > Len(AbsQ))
      <4>1. n <= Len(AbsQ) BY <3>1, <3>2, <3>4
      <4>2. Queue!Read(n) BY <3>1, <3>2, <3>4, <4>1 DEF Queue!Read, AbsQ, AbsRet
      <4> QED BY <4>2 DEF Queue!Next
    <3> QED BY <3>3, <3>4
  <2>4. ASSUME AbsQ' = AbsQ, AbsRet' = AbsRet, total' = total PROVE UNCHANGED Queue!vars
    BY <2>4 DEF Queue!vars, AbsQ, AbsRet
  <2>5. CASE WriteNode BY <1>2, <2>4, <2>5, WriteNodeSim DEF WriteNode
  <2>6. CASE WriteRest BY <1>2, <2>4, <2>6, WriteRestSim DEF WriteRest
  <2>7. CASE ReadNode BY <1>2, <2>4, <2>7, ReadNodeSim DEF ReadNode
  <2>8. CASE ReadRest BY <1>2, <2>4, <2>8, ReadRestSim DEF ReadRest
  <2>9. CASE Destroy
    <3>1. AbsQ' = AbsQ /\ AbsRet' = AbsRet
      BY <2>9 DEF Destroy, AbsQ, AbsRet, Content, Stored
    <3> QED BY <2>4, <2>9, <3>1 DEF Destroy
  <2> QED BY <1>2, <2>1, <2>2, <2>3, <2>5, <2>6, <2>7, <2>8, <2>9 DEF Next
<1> QED BY Inductive, <1>1, <1>2, PTL DEF Spec, ImplementsQueue, Queue!Spec

----------------------------------------------------------------------------
(* Config: the variables and the files.                                       *)

\* The pairs of a name and a place in a file that InitFromYaml visits.
Pairs == Seq(STRING) \X Nat

LEMMA FileShape ==
    ASSUME NEW file \in Files
    PROVE  /\ Len(file) \in Nat /\ Len(file) # 0 /\ DOMAIN file = 1..Len(file)
           /\ \A i \in 1..Len(file) : file[i] \in YamlNode
           /\ \A i \in 1..Len(file) : \A k \in DOMAIN file[i].kids : file[i].kids[k].at \in 1..(i - 1)
<1>1. file \in Seq(YamlNode) /\ file # << >> BY FilesAssumption
<1>2. \A i \in DOMAIN file : \A k \in DOMAIN file[i].kids : file[i].kids[k].at \in 1..(i - 1) BY FilesAssumption
<1> HIDE DEF YamlNode
<1>3. Len(file) \in Nat /\ Len(file) # 0 /\ DOMAIN file = 1..Len(file) BY <1>1
<1>4. \A i \in 1..Len(file) : file[i] \in YamlNode BY <1>1
<1> QED BY <1>2, <1>3, <1>4

\* What InitFromYaml visits from a node on depends on the nodes before it alone.
LEMMA VisitSame ==
    ASSUME NEW file \in Files, NEW i \in 1..Len(file), NEW g, NEW h, \A j \in 1..(i - 1) : g[j] = h[j]
    PROVE  Cfg!Visit(file, i, g) = Cfg!Visit(file, i, h)
<1> DEFINE kids == file[i].kids
<1>1. \A k \in DOMAIN kids : g[kids[k].at] = h[kids[k].at] BY FileShape
<1> HIDE DEF kids
<1>2. [k \in DOMAIN kids |-> g[kids[k].at]] = [k \in DOMAIN kids |-> h[kids[k].at]] BY <1>1
<1>3. [k \in DOMAIN kids |-> <<<<kids[k].key, kids[k].at>>>> \o Cfg!Below(kids[k].key, g[kids[k].at])]
      = [k \in DOMAIN kids |-> <<<<kids[k].key, kids[k].at>>>> \o Cfg!Below(kids[k].key, h[kids[k].at])]
  BY <1>1
<1> QED BY <1>2, <1>3 DEF Cfg!Visit, kids

LEMMA BelowType ==
    ASSUME NEW key \in Seq(STRING), NEW s \in Seq(Pairs)
    PROVE  Cfg!Below(key, s) \in Seq(Pairs)
<1>1. Len(s) \in Nat /\ DOMAIN s = 1..Len(s) /\ \A j \in 1..Len(s) : s[j] \in Pairs OBVIOUS
<1>2. ASSUME NEW j \in 1..Len(s) PROVE <<key \o s[j][1], s[j][2]>> \in Pairs
  <2>1. s[j][1] \in Seq(STRING) /\ s[j][2] \in Nat BY <1>1 DEF Pairs
  <2>2. key \o s[j][1] \in Seq(STRING) BY <2>1, ConcatProperties
  <2> QED BY <2>1, <2>2 DEF Pairs
<1> DEFINE t == [j \in 1..Len(s) |-> <<key \o s[j][1], s[j][2]>>]
<1>3. Cfg!Below(key, s) = t BY <1>1 DEF Cfg!Below
<1>4. \A j \in 1..Len(s) : t[j] \in Pairs BY <1>2
<1>5. t \in [1..Len(s) -> Pairs] BY <1>2
<1> HIDE DEF t, Pairs
<1> QED BY <1>1, <1>3, <1>5, IsASeq

LEMMA VisitType ==
    ASSUME NEW file \in Files, NEW i \in 1..Len(file), NEW g, \A j \in 1..(i - 1) : g[j] \in Seq(Pairs)
    PROVE  Cfg!Visit(file, i, g) \in Seq(Pairs)
<1> DEFINE kids == file[i].kids
<1>1. file[i] \in YamlNode /\ i \in Nat BY FileShape
<1>2. kids \in Seq([key : Seq(STRING), at : Nat]) BY <1>1 DEF YamlNode
<1>3. \A k \in DOMAIN kids : g[kids[k].at] \in Seq(Pairs) BY FileShape
<1> HIDE DEF kids
<1>4. /\ Len(kids) \in Nat /\ DOMAIN kids = 1..Len(kids)
      /\ \A k \in 1..Len(kids) : kids[k] \in [key : Seq(STRING), at : Nat]
  <2> DEFINE K == [key : Seq(STRING), at : Nat]
  <2>1. kids \in Seq(K) BY <1>2
  <2> HIDE DEF K
  <2>2. /\ Len(kids) \in Nat /\ DOMAIN kids = 1..Len(kids)
        /\ \A k \in 1..Len(kids) : kids[k] \in K
    BY <2>1
  <2> QED BY <2>2 DEF K
<1>5. \A k \in 1..Len(kids) : kids[k].key \in Seq(STRING) /\ kids[k].at \in Nat BY <1>4
<1>6. \A t \in Seq(Seq(Pairs)) : Cfg!FlattenSeq(t) \in Seq(Pairs)
  <2> TAKE t \in Seq(Seq(Pairs))
  <2>1. Cfg!FlattenSeq(t) = Seqs!FlattenSeq(t) BY DEF Cfg!FlattenSeq, Seqs!FlattenSeq
  <2> QED BY <2>1, FlattenElems
<1>7. [k \in DOMAIN kids |-> g[kids[k].at]] \in Seq(Seq(Pairs)) BY <1>3, <1>4, IsASeq
<1>8. ASSUME NEW k \in 1..Len(kids)
      PROVE  <<<<kids[k].key, kids[k].at>>>> \o Cfg!Below(kids[k].key, g[kids[k].at]) \in Seq(Pairs)
  <2>1. Cfg!Below(kids[k].key, g[kids[k].at]) \in Seq(Pairs) BY <1>3, <1>4, <1>5, BelowType
  <2>2. <<kids[k].key, kids[k].at>> \in Pairs BY <1>5 DEF Pairs
  <2>3. \A p \in Pairs : <<p>> \in Seq(Pairs)
    <3> HIDE DEF Pairs
    <3> QED OBVIOUS
  <2>4. <<<<kids[k].key, kids[k].at>>>> \in Seq(Pairs) BY <2>2, <2>3
  <2> QED BY <2>1, <2>4, ConcatProperties
<1> DEFINE e(k) == <<<<kids[k].key, kids[k].at>>>> \o Cfg!Below(kids[k].key, g[kids[k].at])
<1>9. [k \in DOMAIN kids |-> e(k)] \in Seq(Seq(Pairs))
  <2>1. \A k \in 1..Len(kids) : e(k) \in Seq(Pairs) BY <1>8
  <2> HIDE DEF e
  <2>2. [k \in 1..Len(kids) |-> e(k)] \in [1..Len(kids) -> Seq(Pairs)] BY <2>1
  <2> QED BY <1>4, <2>2, IsASeq
<1>10. <<<<<< >>, i>>>> \in Seq(Pairs)
  <2>1. <<<< >>, i>> \in Pairs
    <3>1. << >> \in Seq(STRING) OBVIOUS
    <3> QED BY <1>1, <3>1 DEF Pairs
  <2> HIDE DEF Pairs
  <2> QED BY <2>1
<1>11. << >> \in Seq(Pairs) OBVIOUS
<1>12. CASE file[i].tag = "map"
  <2>1. Cfg!Visit(file, i, g) = Cfg!FlattenSeq([k \in DOMAIN kids |-> e(k)]) BY <1>12 DEF Cfg!Visit, kids
  <2> QED BY <1>6, <1>9, <2>1
<1>13. CASE file[i].tag = "seq"
  <2>1. Cfg!Visit(file, i, g) = Cfg!FlattenSeq([k \in DOMAIN kids |-> g[kids[k].at]]) BY <1>13 DEF Cfg!Visit, kids
  <2> QED BY <1>6, <1>7, <2>1
<1>14. CASE file[i].tag = "scalar"
  <2>1. Cfg!Visit(file, i, g) = <<<<<< >>, i>>>> BY <1>14 DEF Cfg!Visit
  <2> QED BY <1>10, <2>1
<1>15. CASE file[i].tag = "null"
  <2>1. Cfg!Visit(file, i, g) = << >> BY <1>15 DEF Cfg!Visit
  <2> QED BY <1>11, <2>1
<1> QED BY <1>1, <1>12, <1>13, <1>14, <1>15 DEF YamlNode

\* g has the visits of the first n nodes of a file.
IsVisits(g, file, n) == g = [i \in 1..n |-> Cfg!Visit(file, i, g)]

LEMMA VisitsExist ==
    ASSUME NEW file \in Files
    PROVE  \E g : IsVisits(g, file, Len(file))
<1> DEFINE Q == {m \in Nat : m <= Len(file) => \E g : IsVisits(g, file, m)}
<1>1. 0 \in Q
  <2> DEFINE g == [i \in 1..0 |-> << >>]
  <2>1. IsVisits(g, file, 0) BY DEF IsVisits
  <2> QED BY <2>1
<1>2. ASSUME NEW m \in Nat, m \in Q PROVE m + 1 \in Q
  <2> SUFFICES ASSUME m + 1 <= Len(file) PROVE \E g : IsVisits(g, file, m + 1) OBVIOUS
  <2>0. m <= Len(file) /\ Len(file) \in Nat BY FileShape
  <2>1. PICK g : IsVisits(g, file, m) BY <1>2, <2>0
  <2>2. \A i \in 1..m : g[i] = Cfg!Visit(file, i, g) BY <2>1 DEF IsVisits
  <2> DEFINE h == [i \in 1..(m + 1) |-> Cfg!Visit(file, i, g)]
  <2>3. \A i \in 1..m : h[i] = g[i] BY <2>2
  <2>4. ASSUME NEW i \in 1..(m + 1) PROVE h[i] = Cfg!Visit(file, i, h)
    <3>1. h[i] = Cfg!Visit(file, i, g) OBVIOUS
    <3>2. i \in 1..Len(file) /\ \A j \in 1..(i - 1) : j \in 1..m BY <2>0
    <3>3. \A j \in 1..(i - 1) : g[j] = h[j] BY <2>3, <3>2
    <3> HIDE DEF h
    <3>4. Cfg!Visit(file, i, g) = Cfg!Visit(file, i, h) BY <3>2, <3>3, VisitSame
    <3> QED BY <3>1, <3>4
  <2>5. h = [i \in 1..(m + 1) |-> h[i]] OBVIOUS
  <2> HIDE DEF h
  <2>6. [i \in 1..(m + 1) |-> h[i]] = [i \in 1..(m + 1) |-> Cfg!Visit(file, i, h)] BY <2>4
  <2>7. IsVisits(h, file, m + 1) BY <2>5, <2>6 DEF IsVisits
  <2> QED BY <2>7
<1>3. Nat \subseteq Q
  <2> HIDE DEF Q
  <2> QED BY <1>1, <1>2, Induct
<1> QED BY <1>3, FileShape

\* The visits of a file are a sequence of names and places.
LEMMA VisitsType ==
    ASSUME NEW file \in Files
    PROVE  Cfg!Visits(file) \in Seq(Pairs)
<1> DEFINE g == CHOOSE g : IsVisits(g, file, Len(file))
           D == {i \in 1..Len(file) : g[i] \notin Seq(Pairs)}
<1>1. Len(file) \in Nat /\ Len(file) # 0 /\ DOMAIN file = 1..Len(file) BY FileShape
<1>2. Cfg!Visits(file) = g[Len(file)] BY <1>1 DEF Cfg!Visits, IsVisits
<1>3. IsVisits(g, file, Len(file)) BY VisitsExist
<1> HIDE DEF g
<1>4. \A i \in 1..Len(file) : g[i] = Cfg!Visit(file, i, g) BY <1>3 DEF IsVisits
<1>5. ASSUME D # {} PROVE FALSE
  <2>1. D \subseteq Nat OBVIOUS
  <2>2. PICK i \in D : \A j \in D : i <= j BY <1>5, <2>1, Smallest
  <2>3. i \in 1..Len(file) /\ i \in Nat /\ g[i] \notin Seq(Pairs) OBVIOUS
  <2>4. \A j \in 1..(i - 1) : j \in 1..Len(file) /\ ~(i <= j) BY <1>1, <2>3
  <2>5. \A j \in 1..(i - 1) : g[j] \in Seq(Pairs) BY <2>2, <2>4
  <2>6. Cfg!Visit(file, i, g) \in Seq(Pairs) BY <2>3, <2>5, VisitType
  <2> QED BY <1>4, <2>3, <2>6
<1>6. Len(file) \in 1..Len(file) BY <1>1
<1> QED BY <1>2, <1>5, <1>6

----------------------------------------------------------------------------
\* g has the items after each of the first n insertions.
IsItems(g, visits, n) ==
    g = [m \in 0..n |-> IF m = 0 THEN << >> ELSE Cfg!Insert(g[m - 1], visits[m][1], visits[m][2])]

LEMMA ItemsExist ==
    ASSUME NEW visits, NEW n \in Nat
    PROVE  \E g : IsItems(g, visits, n)
<1> DEFINE Q == {m \in Nat : \E g : IsItems(g, visits, m)}
<1>1. 0 \in Q
  <2> DEFINE g == [m \in 0..0 |-> << >>]
  <2>1. IsItems(g, visits, 0) BY DEF IsItems
  <2> QED BY <2>1
<1>2. ASSUME NEW m \in Nat, m \in Q PROVE m + 1 \in Q
  <2>1. PICK g : IsItems(g, visits, m) BY <1>2
  <2> DEFINE e(f, l) == IF l = 0 THEN << >> ELSE Cfg!Insert(f[l - 1], visits[l][1], visits[l][2])
             h == [l \in 0..(m + 1) |-> e(g, l)]
  <2>2. g = [l \in 0..m |-> e(g, l)] BY <2>1 DEF IsItems
  <2>3. \A l \in 0..m : h[l] = g[l]
    <3>1. \A l \in 0..m : l \in 0..(m + 1) OBVIOUS
    <3> HIDE DEF e
    <3> QED BY <2>2, <3>1
  <2>4. ASSUME NEW l \in 0..(m + 1) PROVE h[l] = e(h, l)
    <3>1. h[l] = e(g, l) OBVIOUS
    <3>2. l # 0 => l - 1 \in 0..m OBVIOUS
    <3>3. l # 0 => h[l - 1] = g[l - 1] BY <2>3, <3>2
    <3> HIDE DEF h
    <3> QED BY <3>1, <3>3
  <2>5. h = [l \in 0..(m + 1) |-> h[l]] OBVIOUS
  <2> HIDE DEF h
  <2>6. [l \in 0..(m + 1) |-> h[l]] = [l \in 0..(m + 1) |-> e(h, l)] BY <2>4
  <2>7. IsItems(h, visits, m + 1) BY <2>5, <2>6 DEF IsItems
  <2> QED BY <2>7
<1>3. Nat \subseteq Q
  <2> HIDE DEF Q
  <2> QED BY <1>1, <1>2, Induct
<1> QED BY <1>3

\* The items after n insertions: every name visited so far has the node that was
\* visited first under it.
FirstKept(items, visits, n) ==
    /\ DOMAIN items = {visits[m][1] : m \in 1..n}
    /\ \A m \in 1..n : (\A l \in 1..(m - 1) : visits[l][1] # visits[m][1]) => items[visits[m][1]] = visits[m][2]

LEMMA InsertKeeps ==
    ASSUME NEW items, NEW visits, NEW n \in Nat, FirstKept(items, visits, n)
    PROVE  FirstKept(Cfg!Insert(items, visits[n + 1][1], visits[n + 1][2]), visits, n + 1)
<1> DEFINE name == visits[n + 1][1]
           node == visits[n + 1][2]
           new == Cfg!Insert(items, name, node)
<1>1. \A m \in 1..(n + 1) : m \in 1..n \/ m = n + 1 OBVIOUS
<1>2. n + 1 \in 1..(n + 1) /\ (n + 1) - 1 = n /\ \A m \in 1..n : m \in 1..(n + 1) OBVIOUS
<1>3. CASE name \in DOMAIN items
  <2>1. new = items BY <1>3 DEF Cfg!Insert
  <2>2. PICK l \in 1..n : visits[l][1] = name BY <1>3 DEF FirstKept
  <2> HIDE DEF new, name
  <2>3. DOMAIN new = {visits[m][1] : m \in 1..(n + 1)} BY <1>1, <1>2, <2>1, <2>2 DEF FirstKept, name
  <2>4. ASSUME NEW m \in 1..(n + 1), \A j \in 1..(m - 1) : visits[j][1] # visits[m][1]
        PROVE  new[visits[m][1]] = visits[m][2]
    <3>1. m # n + 1 BY <1>2, <2>2, <2>4 DEF name
    <3>2. m \in 1..n BY <3>1
    <3> QED BY <2>1, <2>4, <3>2 DEF FirstKept
  <2> QED BY <2>3, <2>4 DEF FirstKept, new, name
<1>4. CASE name \notin DOMAIN items
  <2>1. new = Cfg!Put(items, name, node) BY <1>4 DEF Cfg!Insert
  <2>2. /\ DOMAIN new = DOMAIN items \cup {name} /\ new[name] = node
        /\ \A z \in DOMAIN items : z # name => new[z] = items[z]
    BY <2>1 DEF Cfg!Put
  <2> HIDE DEF new, name, node
  <2>3. DOMAIN new = {visits[m][1] : m \in 1..(n + 1)} BY <1>1, <1>2, <2>2 DEF FirstKept, name
  <2>4. ASSUME NEW m \in 1..(n + 1), \A j \in 1..(m - 1) : visits[j][1] # visits[m][1]
        PROVE  new[visits[m][1]] = visits[m][2]
    <3>1. CASE m = n + 1 BY <2>2, <3>1 DEF name, node
    <3>2. CASE m \in 1..n
      <4>1. visits[m][1] \in DOMAIN items BY <3>2 DEF FirstKept
      <4>2. new[visits[m][1]] = items[visits[m][1]] BY <1>4, <2>2, <4>1
      <4> QED BY <2>4, <3>2, <4>2 DEF FirstKept
    <3> QED BY <1>1, <3>1, <3>2
  <2> QED BY <2>3, <2>4 DEF FirstKept, new, name, node
<1> QED BY <1>3, <1>4

\* InitFromYaml keeps the first text of every name.
LEMMA ItemsFirst ==
    ASSUME NEW file \in Files
    PROVE  FirstKept(Cfg!InitFromYaml(file), Cfg!Visits(file), Len(Cfg!Visits(file)))
<1> DEFINE visits == Cfg!Visits(file)
           n == Len(visits)
           g == CHOOSE g : IsItems(g, visits, n)
<1>1. visits \in Seq(Pairs) BY VisitsType
<1>2. n \in Nat
  <2> HIDE DEF visits, Pairs
  <2> QED BY <1>1
<1>3. Cfg!InitFromYaml(file) = g[n] BY DEF Cfg!InitFromYaml, IsItems
<1> HIDE DEF n, visits
<1>4. IsItems(g, visits, n) BY <1>2, ItemsExist
<1> HIDE DEF g
<1> DEFINE Q == {m \in Nat : m <= n => FirstKept(g[m], visits, m)}
<1>5. 0 \in Q
  <2>1. 0 \in 0..n BY <1>2
  <2>2. g[0] = << >> BY <1>4, <2>1 DEF IsItems
  <2>3. FirstKept(<< >>, visits, 0) BY DEF FirstKept
  <2> QED BY <2>2, <2>3
<1>6. ASSUME NEW m \in Nat, m \in Q PROVE m + 1 \in Q
  <2> SUFFICES ASSUME m + 1 <= n PROVE FirstKept(g[m + 1], visits, m + 1) OBVIOUS
  <2>1. m <= n /\ m + 1 \in 0..n /\ m + 1 # 0 /\ (m + 1) - 1 = m BY <1>2
  <2>2. g[m + 1] = Cfg!Insert(g[m], visits[m + 1][1], visits[m + 1][2]) BY <1>4, <2>1 DEF IsItems
  <2>3. FirstKept(g[m], visits, m) BY <1>6, <2>1
  <2> QED BY <2>2, <2>3, InsertKeeps
<1>7. Nat \subseteq Q
  <2> HIDE DEF Q
  <2> QED BY <1>5, <1>6, Induct
<1>8. FirstKept(g[n], visits, n) BY <1>2, <1>7
<1> QED BY <1>3, <1>8 DEF n, visits

\* What a file says about a name is what is in the items.
LEMMA SaysIs ==
    ASSUME NEW file \in Files, NEW name, NEW type
    PROVE  Cfg!Says(file, name, type) = IF name \in DOMAIN Cfg!InitFromYaml(file)
                                        THEN Cfg!LexicalCast(type, file, Cfg!InitFromYaml(file)[name]) ELSE {}
<1> DEFINE visits == Cfg!Visits(file)
           n == Len(visits)
           items == Cfg!InitFromYaml(file)
           hits == {k \in DOMAIN visits : visits[k][1] = name}
<1>1. n \in Nat /\ DOMAIN visits = 1..n
  <2>1. visits \in Seq(Pairs) BY VisitsType
  <2> HIDE DEF visits, Pairs
  <2> QED BY <2>1
<1>2. FirstKept(items, visits, n) BY ItemsFirst
<1>3. Cfg!Says(file, name, type) = IF hits = {} THEN {} ELSE Cfg!LexicalCast(type, file, visits[Cfg!Min(hits)][2])
  BY DEF Cfg!Says
<1> HIDE DEF visits, n, items
<1>4. CASE hits = {}
  <2>1. name \notin DOMAIN items BY <1>1, <1>2, <1>4 DEF FirstKept
  <2> QED BY <1>3, <1>4, <2>1 DEF items
<1>5. CASE hits # {}
  <2>1. hits \subseteq Nat BY <1>1
  <2>2. Cfg!Min(hits) \in hits /\ \A y \in hits : Cfg!Min(hits) <= y BY <1>5, <2>1, Smallest DEF Cfg!Min
  <2>3. PICK m : m = Cfg!Min(hits) OBVIOUS
  <2>4. m \in 1..n /\ visits[m][1] = name BY <1>1, <2>2, <2>3
  <2>5. \A l \in 1..(m - 1) : visits[l][1] # name
    <3> TAKE l \in 1..(m - 1)
    <3>1. l \in 1..n /\ ~(m <= l) BY <1>1, <2>4
    <3>2. l \notin hits BY <2>2, <2>3, <3>1
    <3> QED BY <1>1, <3>1, <3>2
  <2>6. items[name] = visits[m][2] /\ name \in DOMAIN items BY <1>2, <2>4, <2>5 DEF FirstKept
  <2> QED BY <1>3, <1>5, <2>3, <2>6 DEF items
<1> QED BY <1>4, <1>5

\* A text converts to one value or none.
LEMMA CastOne ==
    ASSUME NEW type, NEW file, NEW i, Cfg!LexicalCast(type, file, i) # {}
    PROVE  \E v : Cfg!LexicalCast(type, file, i) = {v}
BY DEF Cfg!LexicalCast, Cfg!Scalar

----------------------------------------------------------------------------
(* What holds of one variable.                                                *)

\* The objects that Lookup made, n files having been loaded.
Fields == {"name", "type", "val", "m_cb", "calls", "refused", "born"}

VarOK(v, n) ==
    /\ DOMAIN v = Fields
    /\ v.m_cb \in {"none", "returns", "throws"}
    /\ v.born \in 0..n
    /\ v.refused \subseteq 1..n

\* The files that a variable had to follow, and that it did.
Saying(v, r, files) ==
    {k \in ((v.born + 1)..r) \ v.refused : Cfg!Says(files[k], v.name, v.type) # {}}

Follows(v, r, files) ==
    IF Saying(v, r, files) = {} THEN v.val = Cfg!DefaultValue(v.type)
    ELSE Cfg!Says(files[Cfg!Max(Saying(v, r, files))], v.name, v.type) = {v.val}

SameVar(v, y) == y.name = v.name /\ y.type = v.type /\ y.born = v.born

LEMMA MaxIs ==
    ASSUME NEW S, S \subseteq Nat, NEW n \in S, \A y \in S : y <= n
    PROVE  Cfg!Max(S) = n
<1>1. Cfg!Max(S) \in S /\ \A y \in S : Cfg!Max(S) >= y BY DEF Cfg!Max
<1>2. Cfg!Max(S) >= n /\ Cfg!Max(S) <= n /\ Cfg!Max(S) \in Nat /\ n \in Nat BY <1>1
<1> QED BY <1>2

LEMMA MaxExists ==
    ASSUME NEW S, NEW n \in Nat, S \subseteq 1..n, S # {}
    PROVE  Cfg!Max(S) \in S
<1>1. PICK x \in S : \A y \in S : y <= x BY Largest
<1>2. \A y \in S : x \in Nat /\ y \in Nat OBVIOUS
<1>3. \A y \in S : x >= y BY <1>1, <1>2
<1> QED BY <1>3 DEF Cfg!Max

\* A file that says nothing to a variable, and one whose value its callback
\* refused, leaves the variable as it was.
LEMMA FollowsSame ==
    ASSUME NEW v, NEW y, NEW r \in Nat, NEW q, NEW files, NEW more, SameVar(v, y), y.val = v.val,
           v.born \in Nat, Saying(y, q, more) = Saying(v, r, files), \A k \in 1..r : more[k] = files[k],
           Follows(v, r, files)
    PROVE  Follows(y, q, more)
<1> DEFINE S == Saying(v, r, files)
<1>1. S \subseteq 1..r BY DEF Saying
<1>2. CASE S = {} BY <1>2 DEF Follows, SameVar
<1>3. CASE S # {}
  <2>2. Cfg!Max(S) \in 1..r BY <1>1, <1>3, MaxExists
  <2>3. PICK m \in 1..r : m = Cfg!Max(S) BY <2>2
  <2>4. Cfg!Says(files[m], v.name, v.type) = {v.val} BY <1>3, <2>3 DEF Follows
  <2>5. Cfg!Says(more[m], y.name, y.type) = {y.val} BY <2>4 DEF SameVar
  <2> QED BY <1>3, <2>3, <2>5 DEF Follows
<1> QED BY <1>2, <1>3

LEMMA FollowsNew ==
    ASSUME NEW y, NEW q \in Nat, NEW more, y.born \in Nat, y.born < q, q \notin y.refused,
           Cfg!Says(more[q], y.name, y.type) = {y.val}
    PROVE  Follows(y, q, more)
<1> DEFINE S == Saying(y, q, more)
<1>1. S \subseteq (y.born + 1)..q BY DEF Saying
<1>2. q \in S BY DEF Saying
<1>3. S \subseteq Nat /\ \A z \in S : z <= q BY <1>1
<1>4. Cfg!Max(S) = q BY <1>2, <1>3, MaxIs
<1> QED BY <1>2, <1>4 DEF Follows

\* The files in which a variable may be changed are those until its successor.
Later(vs, x) == {y \in DOMAIN vs : y > x /\ vs[y].name = vs[x].name}
Until(vs, n, x) == IF Later(vs, x) = {} THEN n ELSE vs[Cfg!Min(Later(vs, x))].born

LEMMA MinIn ==
    ASSUME NEW S, S \subseteq Nat, S # {}
    PROVE  Cfg!Min(S) \in S /\ \A y \in S : Cfg!Min(S) <= y
BY Smallest DEF Cfg!Min

----------------------------------------------------------------------------
(* The registry.                                                              *)

IsList(s) == Len(s) \in Nat /\ s = [j \in 1..Len(s) |-> s[j]]

LEMMA ListAppend ==
    ASSUME NEW s, IsList(s), NEW e
    PROVE  /\ IsList(Append(s, e)) /\ Len(Append(s, e)) = Len(s) + 1
           /\ Append(s, e)[Len(s) + 1] = e
           /\ \A j \in 1..Len(s) : Append(s, e)[j] = s[j]
<1> DEFINE S == {s[j] : j \in 1..Len(s)} \cup {e}
<1>1. Len(s) \in Nat BY DEF IsList
<1>2. s \in [1..Len(s) -> S] BY DEF IsList
<1>3. s \in Seq(S) /\ e \in S BY <1>1, <1>2, IsASeq
<1> HIDE DEF S
<1>4. Append(s, e) \in Seq(S) BY <1>3, AppendProperties
<1>5. /\ Len(Append(s, e)) = Len(s) + 1 /\ Append(s, e)[Len(s) + 1] = e
      /\ \A j \in 1..Len(s) : Append(s, e)[j] = s[j]
  BY <1>3, AppendProperties
<1>6. IsList(Append(s, e))
  <2>1. PICK t \in Seq(S) : t = Append(s, e) BY <1>4
  <2>2. Len(t) \in Nat /\ t \in [1..Len(t) -> S] BY <2>1, LenProperties
  <2>3. t = [j \in 1..Len(t) |-> t[j]] BY <2>2
  <2> QED BY <2>1, <2>2, <2>3 DEF IsList
<1> QED BY <1>5, <1>6

\* The variables of a list, the registry and the files loaded.
Registry(vs, reg) ==
    /\ DOMAIN reg = {vs[x].name : x \in 1..Len(vs)}
    /\ \A name \in DOMAIN reg :
         /\ reg[name] \in 1..Len(vs)
         /\ vs[reg[name]].name = name
         /\ \A x \in 1..Len(vs) : vs[x].name = name => x <= reg[name]

ConfigOK(vs, reg, files) ==
    /\ IsList(vs)
    /\ files \in Seq(Files)
    /\ \A x \in 1..Len(vs) : VarOK(vs[x], Len(files))
    /\ Registry(vs, reg)
    /\ \A x \in 1..Len(vs) : Follows(vs[x], Until(vs, Len(files), x), files)

ConfigInv == ConfigOK(var, registered, loaded)

LEMMA ListDomain ==
    ASSUME NEW s, IsList(s)
    PROVE  DOMAIN s = 1..Len(s) /\ Len(s) \in Nat
BY DEF IsList

\* A variable that is registered has no successor, any other has one.
LEMMA RegisteredLast ==
    ASSUME NEW vs, NEW reg, IsList(vs), Registry(vs, reg), NEW x \in 1..Len(vs)
    PROVE  /\ vs[x].name \in DOMAIN reg
           /\ reg[vs[x].name] = x <=> Later(vs, x) = {}
<1>1. DOMAIN vs = 1..Len(vs) /\ Len(vs) \in Nat BY ListDomain
<1>2. vs[x].name \in DOMAIN reg BY DEF Registry
<1>3. PICK z \in 1..Len(vs) : z = reg[vs[x].name] BY <1>2 DEF Registry
<1>4. vs[z].name = vs[x].name /\ x <= z /\ \A y \in 1..Len(vs) : vs[y].name = vs[x].name => y <= z
  BY <1>2, <1>3 DEF Registry
<1>5. ASSUME z = x PROVE Later(vs, x) = {}
  <2>1. \A y \in 1..Len(vs) : ~(y > x /\ vs[y].name = vs[x].name) BY <1>1, <1>4, <1>5
  <2> QED BY <1>1, <2>1 DEF Later
<1>6. ASSUME z # x PROVE z \in Later(vs, x)
  <2>1. z > x BY <1>1, <1>4, <1>6
  <2> QED BY <1>1, <1>4, <2>1 DEF Later
<1> QED BY <1>2, <1>3, <1>5, <1>6

\* Lookup adds a variable that follows nothing yet; the one registered before it
\* stops with the files loaded so far.
LEMMA LookupInv ==
    ASSUME NEW vs, NEW reg, NEW files, ConfigOK(vs, reg, files), NEW v, VarOK(v, Len(files)),
           v.born = Len(files), v.val = Cfg!DefaultValue(v.type)
    PROVE  ConfigOK(Append(vs, v), Cfg!Put(reg, v.name, Len(vs) + 1), files)
<1> DEFINE n == Len(vs)
           ws == Append(vs, v)
           new == Cfg!Put(reg, v.name, n + 1)
           r == Len(files)
<1>1. IsList(vs) /\ files \in Seq(Files) /\ Registry(vs, reg) BY DEF ConfigOK
<1>2. n \in Nat /\ DOMAIN vs = 1..n BY <1>1, ListDomain
<1>3. IsList(ws) /\ Len(ws) = n + 1 /\ ws[n + 1] = v /\ \A x \in 1..n : ws[x] = vs[x] BY <1>1, ListAppend
<1>4. r \in Nat BY <1>1
<1> HIDE DEF n, ws, r
<1>5. DOMAIN ws = 1..(n + 1) BY <1>3, ListDomain
<1>6. \A x \in 1..(n + 1) : x \in 1..n \/ x = n + 1 BY <1>2
<1>7. n + 1 \in 1..(n + 1) /\ \A x \in 1..n : x \in 1..(n + 1) /\ x < n + 1 /\ ~(x > n + 1) /\ x <= n + 1 BY <1>2
<1>8. \A x \in 1..(n + 1) : VarOK(ws[x], r) BY <1>3, <1>6 DEF ConfigOK, n, r
<1>9. Registry(ws, new)
  <2>1. /\ DOMAIN new = DOMAIN reg \cup {v.name} /\ new[v.name] = n + 1
        /\ \A z \in DOMAIN reg : z # v.name => new[z] = reg[z]
    BY DEF Cfg!Put
  <2> HIDE DEF new
  <2>2. DOMAIN reg = {vs[x].name : x \in 1..n} BY <1>1 DEF Registry, n
  <2>3. DOMAIN new = {ws[x].name : x \in 1..(n + 1)} BY <1>3, <1>6, <1>7, <2>1, <2>2
  <2>4. ASSUME NEW name \in DOMAIN new
        PROVE  /\ new[name] \in 1..(n + 1) /\ ws[new[name]].name = name
               /\ \A x \in 1..(n + 1) : ws[x].name = name => x <= new[name]
    <3>1. CASE name = v.name BY <1>2, <1>3, <1>7, <2>1, <3>1
    <3>2. CASE name # v.name
      <4>1. name \in DOMAIN reg /\ new[name] = reg[name] BY <2>1, <3>2
      <4>2. /\ reg[name] \in 1..n /\ vs[reg[name]].name = name
            /\ \A x \in 1..n : vs[x].name = name => x <= reg[name]
        BY <1>1, <4>1 DEF Registry, n
      <4> QED BY <1>3, <1>6, <1>7, <3>2, <4>1, <4>2
    <3> QED BY <3>1, <3>2
  <2> QED BY <1>3, <2>3, <2>4 DEF Registry
<1>10. ASSUME NEW x \in 1..(n + 1) PROVE Follows(ws[x], Until(ws, r, x), files)
  <2>1. CASE x = n + 1
    <3>1. Later(ws, x) = {} BY <1>2, <1>5, <2>1 DEF Later
    <3>2. Until(ws, r, x) = r BY <3>1 DEF Until
    <3>3. (v.born + 1)..r = {} BY <1>4 DEF r
    <3>4. Saying(v, r, files) = {} BY <3>3 DEF Saying
    <3> QED BY <1>3, <2>1, <3>2, <3>4 DEF Follows
  <2>2. CASE x \in 1..n
    <3>1. Follows(vs[x], Until(vs, r, x), files) BY <2>2 DEF ConfigOK, n, r
    <3>2. Until(ws, r, x) = Until(vs, r, x)
      <4>1. Later(vs, x) \subseteq 1..n /\ Later(vs, x) \subseteq Later(ws, x) BY <1>2, <1>3, <1>5, <1>7, <2>2 DEF Later
      <4>2. Later(ws, x) \subseteq Later(vs, x) \cup {n + 1} BY <1>2, <1>3, <1>5, <1>6, <2>2 DEF Later
      <4>3. Later(ws, x) \subseteq Nat /\ Later(vs, x) \subseteq Nat BY <1>2, <1>5 DEF Later
      <4>4. CASE Later(vs, x) = {}
        <5>1. Until(vs, r, x) = r BY <4>4 DEF Until
        <5>2. CASE Later(ws, x) = {} BY <5>1, <5>2 DEF Until
        <5>3. CASE Later(ws, x) # {}
          <6>1. Cfg!Min(Later(ws, x)) \in Later(ws, x) BY <4>3, <5>3, MinIn
          <6>2. Cfg!Min(Later(ws, x)) = n + 1 BY <4>2, <4>4, <6>1
          <6>3. Until(ws, r, x) = ws[n + 1].born BY <5>3, <6>2 DEF Until
          <6> QED BY <1>3, <5>1, <6>3 DEF r
        <5> QED BY <5>2, <5>3
      <4>5. CASE Later(vs, x) # {}
        <5>1. Later(ws, x) # {} BY <4>1, <4>5
        <5>2. PICK a \in Later(vs, x) : a = Cfg!Min(Later(vs, x)) /\ \A y \in Later(vs, x) : a <= y
          BY <4>3, <4>5, MinIn
        <5>3. PICK b \in Later(ws, x) : b = Cfg!Min(Later(ws, x)) /\ \A y \in Later(ws, x) : b <= y
          BY <4>3, <5>1, MinIn
        <5>4. b <= a /\ a \in 1..n /\ b \in Nat BY <4>1, <4>3, <5>2, <5>3
        <5>5. b # n + 1 BY <1>2, <5>4
        <5>6. b \in Later(vs, x) BY <4>2, <5>5
        <5>7. a = b BY <4>3, <5>2, <5>4, <5>6
        <5>8. Until(vs, r, x) = vs[a].born BY <4>5, <5>2 DEF Until
        <5>9. Until(ws, r, x) = ws[a].born BY <5>1, <5>3, <5>7 DEF Until
        <5> QED BY <1>3, <5>4, <5>8, <5>9
      <4> QED BY <4>4, <4>5
    <3> QED BY <1>3, <2>2, <3>1, <3>2
  <2> QED BY <1>6, <2>1, <2>2
<1> QED BY <1>1, <1>3, <1>8, <1>9, <1>10 DEF ConfigOK, ws, n, r

\* What a file may do to a registered variable: it says nothing, the callback
\* refuses, or the variable has the file's value.
Outcome(v, y, says, n) ==
    /\ SameVar(v, y)
    /\ VarOK(y, n)
    /\ \/ says = {} /\ y.val = v.val /\ y.refused = v.refused
       \/ y.val = v.val /\ y.refused = v.refused \cup {n}
       \/ says = {y.val} /\ y.refused = v.refused

LEMMA LoadInv ==
    ASSUME NEW vs, NEW reg, NEW files, ConfigOK(vs, reg, files), NEW file \in Files,
           NEW ws, IsList(ws), Len(ws) = Len(vs),
           \A x \in 1..Len(vs) : reg[vs[x].name] = x =>
               Outcome(vs[x], ws[x], Cfg!Says(file, vs[x].name, vs[x].type), Len(files) + 1),
           \A x \in 1..Len(vs) : reg[vs[x].name] # x => ws[x] = vs[x]
    PROVE  ConfigOK(ws, reg, Append(files, file))
<1> DEFINE n == Len(vs)
           r == Len(files)
           more == Append(files, file)
<1>1. IsList(vs) /\ files \in Seq(Files) /\ Registry(vs, reg) BY DEF ConfigOK
<1>2. n \in Nat /\ DOMAIN vs = 1..n /\ DOMAIN ws = 1..n BY <1>1, ListDomain
<1>3. /\ r \in Nat /\ more \in Seq(Files) /\ Len(more) = r + 1 /\ more[r + 1] = file
      /\ \A k \in 1..r : more[k] = files[k]
  <2>1. r \in Nat BY <1>1
  <2> QED BY <1>1, <2>1, AppendProperties
<1> HIDE DEF n, r, more
<1>4. \A x \in 1..n : SameVar(vs[x], ws[x]) BY DEF Outcome, SameVar, n
<1>5. \A x \in 1..n : vs[x].born \in 0..r /\ VarOK(vs[x], r) BY DEF ConfigOK, VarOK, n, r
<1>6. \A x \in 1..n : VarOK(ws[x], r + 1)
  <2> TAKE x \in 1..n
  <2>1. CASE reg[vs[x].name] = x BY <2>1 DEF Outcome, n, r
  <2>2. CASE reg[vs[x].name] # x
    <3>1. ws[x] = vs[x] /\ VarOK(vs[x], r) BY <1>5, <2>2 DEF n
    <3>2. 0..r \subseteq 0..(r + 1) /\ 1..r \subseteq 1..(r + 1) BY <1>3
    <3> QED BY <3>1, <3>2 DEF VarOK
  <2> QED BY <2>1, <2>2
<1>7. Registry(ws, reg)
  <2>1. \A x \in 1..n : ws[x].name = vs[x].name BY <1>4 DEF SameVar
  <2>2. {ws[x].name : x \in 1..n} = {vs[x].name : x \in 1..n} BY <2>1
  <2> QED BY <1>1, <2>1, <2>2 DEF Registry, n
<1>8. \A x \in 1..n : Later(ws, x) = Later(vs, x) BY <1>2, <1>4 DEF Later, SameVar
<1>9. ASSUME NEW x \in 1..n PROVE Follows(ws[x], Until(ws, r + 1, x), more)
  <2>1. Follows(vs[x], Until(vs, r, x), files) BY DEF ConfigOK, n, r
  <2>2. vs[x].born \in Nat /\ vs[x].born <= r /\ SameVar(vs[x], ws[x]) BY <1>3, <1>4, <1>5
  <2>3. CASE reg[vs[x].name] # x
    <3>1. ws[x] = vs[x] BY <2>3 DEF n
    <3>2. Later(vs, x) # {} BY <1>1, <2>3, RegisteredLast DEF n
    <3>3. PICK a \in Later(vs, x) : a = Cfg!Min(Later(vs, x))
      <4>1. Later(vs, x) \subseteq Nat BY <1>2 DEF Later
      <4> QED BY <3>2, <4>1, MinIn
    <3>4. a \in 1..n BY <1>2 DEF Later
    <3>5. Until(vs, r, x) = vs[a].born /\ Until(ws, r + 1, x) = ws[a].born BY <1>8, <3>2, <3>3 DEF Until
    <3>6. PICK q \in 0..r : q = vs[a].born /\ q = ws[a].born BY <1>4, <1>5, <3>4 DEF SameVar
    <3>7. q \in Nat /\ \A k \in 1..q : more[k] = files[k] BY <1>3, <3>6
    <3>8. \A k \in (vs[x].born + 1)..q : k \in 1..q BY <2>2, <3>7
    <3>9. Saying(ws[x], q, more) = Saying(vs[x], q, files) BY <3>1, <3>7, <3>8 DEF Saying
    <3>10. Follows(vs[x], q, files) BY <2>1, <3>5, <3>6
    <3>11. Follows(ws[x], q, more) BY <2>2, <3>1, <3>7, <3>9, <3>10, FollowsSame
    <3> QED BY <3>5, <3>6, <3>11
  <2>4. CASE reg[vs[x].name] = x
    <3>1. Later(vs, x) = {} BY <1>1, <2>4, RegisteredLast DEF n
    <3>2. Until(vs, r, x) = r /\ Until(ws, r + 1, x) = r + 1 BY <1>8, <3>1 DEF Until
    <3> DEFINE says == Cfg!Says(file, vs[x].name, vs[x].type)
    <3>3. Outcome(vs[x], ws[x], says, r + 1) BY <2>4 DEF n, r
    <3> HIDE DEF says
    <3>4. \A k \in (vs[x].born + 1)..(r + 1) : k = r + 1 \/ k \in (vs[x].born + 1)..r BY <1>3, <2>2
    <3>5. \A k \in (vs[x].born + 1)..r : k \in 1..r /\ k \in (vs[x].born + 1)..(r + 1) /\ k # r + 1 BY <1>3, <2>2
    <3>6. r + 1 \notin vs[x].refused
      <4>1. r + 1 \notin 1..r BY <1>3
      <4> QED BY <1>5, <4>1 DEF VarOK
    <3>7. CASE says = {} /\ ws[x].val = vs[x].val /\ ws[x].refused = vs[x].refused
      <4>1. Cfg!Says(more[r + 1], ws[x].name, ws[x].type) = {} BY <1>3, <2>2, <3>7 DEF says, SameVar
      <4>2. Saying(ws[x], r + 1, more) = Saying(vs[x], r, files)
        <5>1. Saying(ws[x], r + 1, more) \subseteq Saying(vs[x], r, files)
          BY <1>3, <2>2, <3>4, <3>5, <3>7, <4>1 DEF Saying, SameVar
        <5>2. Saying(vs[x], r, files) \subseteq Saying(ws[x], r + 1, more)
          BY <1>3, <2>2, <3>5, <3>7 DEF Saying, SameVar
        <5> QED BY <5>1, <5>2
      <4>3. Follows(vs[x], r, files) /\ ws[x].val = vs[x].val BY <2>1, <3>2, <3>7
      <4>4. Follows(ws[x], r + 1, more) BY <1>3, <2>2, <4>2, <4>3, FollowsSame
      <4> QED BY <3>2, <4>4
    <3>8. CASE ws[x].val = vs[x].val /\ ws[x].refused = vs[x].refused \cup {r + 1}
      <4>1. Saying(ws[x], r + 1, more) = Saying(vs[x], r, files)
        <5>1. Saying(ws[x], r + 1, more) \subseteq Saying(vs[x], r, files)
          BY <1>3, <2>2, <3>4, <3>5, <3>8 DEF Saying, SameVar
        <5>2. Saying(vs[x], r, files) \subseteq Saying(ws[x], r + 1, more)
          BY <1>3, <2>2, <3>5, <3>8 DEF Saying, SameVar
        <5> QED BY <5>1, <5>2
      <4>2. Follows(vs[x], r, files) /\ ws[x].val = vs[x].val BY <2>1, <3>2, <3>8
      <4>3. Follows(ws[x], r + 1, more) BY <1>3, <2>2, <4>1, <4>2, FollowsSame
      <4> QED BY <3>2, <4>3
    <3>9. CASE says = {ws[x].val} /\ ws[x].refused = vs[x].refused
      <4>1. Cfg!Says(more[r + 1], ws[x].name, ws[x].type) = {ws[x].val} BY <1>3, <2>2, <3>9 DEF says, SameVar
      <4>2. ws[x].born \in Nat /\ ws[x].born < r + 1 /\ r + 1 \in Nat BY <1>3, <2>2 DEF SameVar
      <4>3. Follows(ws[x], r + 1, more) BY <3>6, <3>9, <4>1, <4>2, FollowsNew
      <4> QED BY <3>2, <4>3
    <3> QED BY <3>3, <3>7, <3>8, <3>9 DEF Outcome
  <2> QED BY <2>3, <2>4
<1> QED BY <1>3, <1>6, <1>7, <1>9 DEF ConfigOK, n, more

----------------------------------------------------------------------------
\* What fromString makes of a variable.
LEMMA FromStringOutcome ==
    ASSUME NEW v, VarOK(v, Len(loaded)), Len(loaded) \in Nat, NEW file, NEW i
    PROVE  Outcome(v, Cfg!fromString(v, file, i), Cfg!LexicalCast(v.type, file, i), Len(loaded) + 1)
<1> DEFINE new == Cfg!LexicalCast(v.type, file, i)
           y == Cfg!fromString(v, file, i)
           n == Len(loaded)
           val == CHOOSE u \in new : TRUE
<1>1. 0..n \subseteq 0..(n + 1) /\ 1..n \subseteq 1..(n + 1) /\ n + 1 \in 1..(n + 1) OBVIOUS
<1>2. \A z : DOMAIN z = Fields /\ z.m_cb = v.m_cb /\ z.born = v.born /\ z.refused \subseteq v.refused \cup {n + 1}
          => VarOK(z, n + 1)
  BY <1>1 DEF VarOK
<1>3. CASE new = {}
  <2>1. y = v BY <1>3 DEF Cfg!fromString
  <2>2. VarOK(v, n + 1) BY <1>2 DEF VarOK
  <2> QED BY <1>3, <2>1, <2>2 DEF Outcome, SameVar
<1>4. CASE new # {}
  <2>1. new = {val} BY <1>4, CastOne
  <2>2. y = CASE v.m_cb = "none" -> [v EXCEPT !.val = val]
              [] v.m_cb = "returns" -> [v EXCEPT !.val = val, !.calls = Append(@, <<v.val, val>>)]
              [] v.m_cb = "throws" -> [v EXCEPT !.refused = @ \cup {n + 1}]
    BY <1>4 DEF Cfg!fromString
  <2> HIDE DEF new, val, n, y
  <2>3. CASE v.m_cb = "none"
    <3>1. y = [v EXCEPT !.val = val] BY <2>2, <2>3
    <3>2. DOMAIN y = Fields /\ y.m_cb = v.m_cb /\ y.born = v.born /\ y.refused = v.refused /\ y.val = val
          /\ y.name = v.name /\ y.type = v.type
      BY <3>1 DEF VarOK, Fields
    <3> QED BY <1>2, <2>1, <3>2 DEF Outcome, SameVar, new, y, n
  <2>4. CASE v.m_cb = "returns"
    <3>1. y = [v EXCEPT !.val = val, !.calls = Append(@, <<v.val, val>>)] BY <2>2, <2>4
    <3>2. DOMAIN y = Fields /\ y.m_cb = v.m_cb /\ y.born = v.born /\ y.refused = v.refused /\ y.val = val
          /\ y.name = v.name /\ y.type = v.type
      BY <3>1 DEF VarOK, Fields
    <3> QED BY <1>2, <2>1, <3>2 DEF Outcome, SameVar, new, y, n
  <2>5. CASE v.m_cb = "throws"
    <3>1. y = [v EXCEPT !.refused = @ \cup {n + 1}] BY <2>2, <2>5
    <3>2. DOMAIN y = Fields /\ y.m_cb = v.m_cb /\ y.born = v.born /\ y.refused = v.refused \cup {n + 1} /\ y.val = v.val
          /\ y.name = v.name /\ y.type = v.type
      BY <3>1 DEF VarOK, Fields
    <3> QED BY <1>2, <3>2 DEF Outcome, SameVar, new, y, n
  <2> QED BY <2>3, <2>4, <2>5 DEF VarOK
<1> QED BY <1>3, <1>4

\* The steps of the configuration.
LEMMA ConfigLookup ==
    ASSUME ConfigInv, NEW name, NEW type, Cfg!Lookup(name, type)
    PROVE  ConfigInv'
<1> DEFINE v == Cfg!NewVar(name, type)
<1>1. var' = Append(var, v) /\ registered' = Cfg!Put(registered, name, Len(var) + 1) /\ loaded' = loaded
  BY DEF Cfg!Lookup
<1>2. Len(loaded) \in Nat BY DEF ConfigInv, ConfigOK
<1>3. v.name = name /\ v.type = type /\ v.val = Cfg!DefaultValue(type) /\ v.born = Len(loaded) BY DEF Cfg!NewVar
<1>4. VarOK(v, Len(loaded)) BY <1>2 DEF VarOK, Fields, Cfg!NewVar
<1>5. PICK u : u = v OBVIOUS
<1> HIDE DEF v
<1>6. ConfigOK(Append(var, u), Cfg!Put(registered, u.name, Len(var) + 1), loaded)
  BY <1>3, <1>4, <1>5, LookupInv DEF ConfigInv
<1> QED BY <1>1, <1>3, <1>5, <1>6 DEF ConfigInv

LEMMA ConfigListener ==
    ASSUME ConfigInv, NEW x \in DOMAIN var, NEW cb \in {"returns", "throws"}, Cfg!addListener(x, cb)
    PROVE  ConfigInv'
<1>1. IsList(var) /\ loaded \in Seq(Files) /\ Registry(var, registered) BY DEF ConfigInv, ConfigOK
<1>2. DOMAIN var = 1..Len(var) /\ Len(var) \in Nat BY <1>1, ListDomain
<1>3. var' = [var EXCEPT ![x].m_cb = cb] /\ registered' = registered /\ loaded' = loaded BY DEF Cfg!addListener
<1> DEFINE v == [var[x] EXCEPT !.m_cb = cb]
           n == Len(var)
<1>4. var' = [y \in 1..n |-> IF y = x THEN v ELSE var[y]] BY <1>2, <1>3
<1>5. \A y \in 1..n : VarOK(var[y], Len(loaded)) BY DEF ConfigInv, ConfigOK
<1>6. /\ VarOK(v, Len(loaded)) /\ SameVar(var[x], v) /\ v.val = var[x].val /\ v.refused = var[x].refused
  BY <1>2, <1>5 DEF VarOK, SameVar, Fields
<1> HIDE DEF v, n
<1>7. PICK ws : ws = var' OBVIOUS
<1>8. Len(ws) = n /\ IsList(ws) /\ DOMAIN ws = 1..n BY <1>2, <1>4, <1>7 DEF IsList, n
<1>9. \A y \in 1..n : /\ VarOK(ws[y], Len(loaded)) /\ SameVar(var[y], ws[y])
                       /\ ws[y].val = var[y].val /\ ws[y].refused = var[y].refused
  BY <1>4, <1>5, <1>6, <1>7 DEF SameVar
<1>10. Registry(ws, registered)
  <2>1. \A y \in 1..n : ws[y].name = var[y].name BY <1>9 DEF SameVar
  <2>2. {ws[y].name : y \in 1..n} = {var[y].name : y \in 1..n} BY <2>1
  <2> QED BY <1>1, <1>8, <2>1, <2>2 DEF Registry, n
<1>11. ASSUME NEW y \in 1..n PROVE Follows(ws[y], Until(ws, Len(loaded), y), loaded)
  <2>1. Later(ws, y) = Later(var, y) BY <1>2, <1>8, <1>9 DEF Later, SameVar, n
  <2>2. Later(var, y) # {} => Cfg!Min(Later(var, y)) \in 1..n
    <3>1. Later(var, y) \subseteq 1..n /\ Later(var, y) \subseteq Nat BY <1>2 DEF Later, n
    <3> QED BY <3>1, MinIn
  <2>3. Until(ws, Len(loaded), y) = Until(var, Len(loaded), y) BY <1>9, <2>1, <2>2 DEF Until, SameVar
  <2>4. Follows(var[y], Until(var, Len(loaded), y), loaded) BY DEF ConfigInv, ConfigOK, n
  <2>5. PICK q : q = Until(var, Len(loaded), y) OBVIOUS
  <2>6. Saying(ws[y], q, loaded) = Saying(var[y], q, loaded) BY <1>9 DEF Saying, SameVar
  <2>7. Follows(ws[y], q, loaded) BY <1>9, <2>4, <2>5, <2>6 DEF Follows, SameVar
  <2> QED BY <2>3, <2>5, <2>7
<1>12. ConfigOK(ws, registered, loaded) BY <1>1, <1>8, <1>9, <1>10, <1>11 DEF ConfigOK
<1> QED BY <1>3, <1>7, <1>12 DEF ConfigInv

LEMMA ConfigLoad ==
    ASSUME ConfigInv, NEW file \in Files, Cfg!LoadFromYaml(file)
    PROVE  ConfigInv'
<1>1. IsList(var) /\ loaded \in Seq(Files) /\ Registry(var, registered) BY DEF ConfigInv, ConfigOK
<1>2. DOMAIN var = 1..Len(var) /\ Len(var) \in Nat /\ Len(loaded) \in Nat BY <1>1, ListDomain
<1> DEFINE items == Cfg!InitFromYaml(file)
           n == Len(var)
           e(x) == IF registered[var[x].name] = x /\ var[x].name \in DOMAIN items
                   THEN Cfg!fromString(var[x], file, items[var[x].name]) ELSE var[x]
<1>3. /\ var' = [x \in 1..n |-> e(x)] /\ loaded' = Append(loaded, file) /\ registered' = registered
  BY <1>2 DEF Cfg!LoadFromYaml, Cfg!LookupData
<1>4. \A x \in 1..n : VarOK(var[x], Len(loaded)) BY DEF ConfigInv, ConfigOK
<1> HIDE DEF items, n
<1>5. PICK ws : ws = var' OBVIOUS
<1>6. Len(ws) = n /\ IsList(ws) /\ \A x \in 1..n : ws[x] = e(x)
  <2> HIDE DEF e
  <2> QED BY <1>2, <1>3, <1>5 DEF IsList, n
<1>7. ASSUME NEW x \in 1..n, registered[var[x].name] = x
      PROVE  Outcome(var[x], ws[x], Cfg!Says(file, var[x].name, var[x].type), Len(loaded) + 1)
  <2> DEFINE name == var[x].name
             says == Cfg!Says(file, name, var[x].type)
  <2>1. says = IF name \in DOMAIN items THEN Cfg!LexicalCast(var[x].type, file, items[name]) ELSE {}
    BY SaysIs DEF items
  <2>2. CASE name \in DOMAIN items
    <3>1. ws[x] = Cfg!fromString(var[x], file, items[name]) BY <1>6, <1>7, <2>2
    <3>2. says = Cfg!LexicalCast(var[x].type, file, items[name]) BY <2>1, <2>2
    <3> HIDE DEF says
    <3>3. Outcome(var[x], Cfg!fromString(var[x], file, items[name]),
                  Cfg!LexicalCast(var[x].type, file, items[name]), Len(loaded) + 1)
      BY <1>2, <1>4, FromStringOutcome
    <3> QED BY <3>1, <3>2, <3>3 DEF says
  <2>3. CASE name \notin DOMAIN items
    <3>1. ws[x] = var[x] /\ says = {} BY <1>6, <2>1, <2>3
    <3>2. 0..Len(loaded) \subseteq 0..(Len(loaded) + 1) /\ 1..Len(loaded) \subseteq 1..(Len(loaded) + 1) BY <1>2
    <3>3. VarOK(var[x], Len(loaded) + 1) BY <1>4, <3>2 DEF VarOK
    <3> HIDE DEF says
    <3>4. Outcome(var[x], ws[x], says, Len(loaded) + 1) BY <3>1, <3>3 DEF Outcome, SameVar
    <3> QED BY <3>4 DEF says
  <2> QED BY <2>2, <2>3
<1>8. \A x \in 1..n : registered[var[x].name] # x => ws[x] = var[x] BY <1>6
<1>9. ConfigOK(ws, registered, Append(loaded, file)) BY <1>6, <1>7, <1>8, LoadInv DEF ConfigInv, n
<1> QED BY <1>3, <1>5, <1>9 DEF ConfigInv

LEMMA ConfigInit == MCInit => ConfigInv
<1> SUFFICES ASSUME MCInit PROVE ConfigInv OBVIOUS
<1>1. var = << >> /\ registered = << >> /\ loaded = << >> BY DEF MCInit, Cfg!Init
<1>2. Len(var) = 0 /\ 1..Len(var) = {} /\ loaded \in Seq(Files) BY <1>1
<1>3. IsList(<< >>) BY DEF IsList
<1>4. Registry(<< >>, << >>) BY DEF Registry
<1> QED BY <1>1, <1>2, <1>3, <1>4 DEF ConfigInv, ConfigOK

LEMMA ConfigStep == ConfigInv /\ [MCNext]_<<part, arrayVars, codecVars, configVars>> => ConfigInv'
<1> SUFFICES ASSUME ConfigInv, [MCNext]_<<part, arrayVars, codecVars, configVars>> PROVE ConfigInv' OBVIOUS
<1>1. CASE Cfg!Next BY <1>1, ConfigLookup, ConfigListener, ConfigLoad DEF Cfg!Next
<1>2. CASE UNCHANGED configVars BY <1>2 DEF configVars, ConfigInv
<1> QED BY <1>1, <1>2 DEF MCNext

LEMMA ConfigIsInv == MCSpec => []ConfigInv
BY ConfigInit, ConfigStep, PTL DEF MCSpec

\* For any files, names and numbers of loads: a variable has the value of the
\* last file, from its Lookup to the next one of its name, that had a text for it
\* which converts and which its callback let through.
THEOREM LastFileTheorem == MCSpec => []LastFileWins
<1>1. ConfigInv => LastFileWins
  <2> SUFFICES ASSUME ConfigInv PROVE Cfg!TypeOK /\ Cfg!LastFileWins BY DEF LastFileWins
  <2>1. IsList(var) /\ loaded \in Seq(Files) /\ Registry(var, registered) BY DEF ConfigInv, ConfigOK
  <2>2. DOMAIN var = 1..Len(var) /\ Len(var) \in Nat /\ Len(loaded) \in Nat BY <2>1, ListDomain
  <2>3. \A x \in 1..Len(var) : var[x].born <= Len(loaded) BY <2>2 DEF ConfigInv, ConfigOK, VarOK
  <2>4. Cfg!TypeOK BY <2>1, <2>2, <2>3 DEF Cfg!TypeOK, Registry
  <2>5. \A x \in 1..Len(var) : Follows(var[x], Until(var, Len(loaded), x), loaded) BY DEF ConfigInv, ConfigOK
  <2>6. \A x \in 1..Len(var) : Until(var, Len(loaded), x) = Cfg!Retired(x) BY DEF Until, Later, Cfg!Retired
  <2>7. \A x \in 1..Len(var) : Follows(var[x], Cfg!Retired(x), loaded) BY <2>5, <2>6
  <2>8. Cfg!LastFileWins BY <2>2, <2>7 DEF Cfg!LastFileWins, Follows, Saying
  <2> QED BY <2>4, <2>8
<1> QED BY <1>1, ConfigIsInv, PTL

----------------------------------------------------------------------------
\* The calls of a variable's callbacks follow one another and end at its value;
\* none is made before a callback is set, or the first would not start where the
\* value is.
Chained(v) ==
    /\ IsList(v.calls)
    /\ \A k \in 1..(Len(v.calls) - 1) : v.calls[k][2] = v.calls[k + 1][1]
    /\ v.calls # << >> => v.calls[Len(v.calls)][2] = v.val
    /\ v.m_cb = "none" => v.calls = << >>

CallsInv == \A x \in DOMAIN var : Chained(var[x])

LEMMA FromStringChained ==
    ASSUME NEW v, NEW n, VarOK(v, n), Chained(v), NEW file, NEW i
    PROVE  Chained(Cfg!fromString(v, file, i))
<1> DEFINE new == Cfg!LexicalCast(v.type, file, i)
           y == Cfg!fromString(v, file, i)
           val == CHOOSE u \in new : TRUE
<1>1. CASE new = {}
  <2>1. y = v BY <1>1 DEF Cfg!fromString
  <2> QED BY <2>1
<1>2. CASE new # {}
  <2>1. y = CASE v.m_cb = "none" -> [v EXCEPT !.val = val]
              [] v.m_cb = "returns" -> [v EXCEPT !.val = val, !.calls = Append(@, <<v.val, val>>)]
              [] v.m_cb = "throws" -> [v EXCEPT !.refused = @ \cup {Len(loaded) + 1}]
    BY <1>2 DEF Cfg!fromString
  <2> HIDE DEF new, val, y
  <2>2. CASE v.m_cb = "none"
    <3>1. y = [v EXCEPT !.val = val] BY <2>1, <2>2
    <3>2. y.calls = << >> /\ y.calls = v.calls /\ y.m_cb = v.m_cb BY <2>2, <3>1 DEF VarOK, Fields, Chained
    <3> QED BY <3>2 DEF Chained, y
  <2>3. CASE v.m_cb = "returns"
    <3>1. y = [v EXCEPT !.val = val, !.calls = Append(@, <<v.val, val>>)] BY <2>1, <2>3
    <3>2. y.calls = Append(v.calls, <<v.val, val>>) /\ y.val = val /\ y.m_cb = "returns"
      BY <2>3, <3>1 DEF VarOK, Fields
    <3> DEFINE m == Len(v.calls)
    <3>3. PICK c : c = Append(v.calls, <<v.val, val>>) OBVIOUS
    <3>4. /\ m \in Nat /\ IsList(c) /\ Len(c) = m + 1 /\ c[m + 1] = <<v.val, val>>
          /\ \A j \in 1..m : c[j] = v.calls[j]
      <4>1. IsList(v.calls) BY DEF Chained
      <4>2. m \in Nat BY <4>1 DEF IsList
      <4> HIDE DEF m
      <4> QED BY <3>3, <4>1, <4>2, ListAppend DEF m
    <3>5. m # 0 => v.calls[m][2] = v.val
      <4>1. v.calls = << >> => m = 0 OBVIOUS
      <4> QED BY <4>1 DEF Chained
    <3> HIDE DEF m
    <3>6. ASSUME NEW k \in 1..m PROVE c[k][2] = c[k + 1][1]
      <4>1. CASE k = m
        <5>1. c[k][2] = v.val /\ c[k + 1][1] = v.val BY <3>4, <3>5, <4>1
        <5> QED BY <5>1
      <4>2. CASE k # m
        <5>1. k \in 1..(m - 1) /\ k + 1 \in 1..m BY <3>4, <4>2
        <5>2. v.calls[k][2] = v.calls[k + 1][1] BY <5>1 DEF Chained, m
        <5> QED BY <3>4, <5>1, <5>2
      <4> QED BY <4>1, <4>2
    <3>7. Len(c) - 1 = m /\ c[Len(c)][2] = val BY <3>4
    <3>8. "returns" # "none" OBVIOUS
    <3> QED BY <3>2, <3>3, <3>4, <3>6, <3>7, <3>8 DEF Chained, y
  <2>4. CASE v.m_cb = "throws"
    <3>1. y = [v EXCEPT !.refused = @ \cup {Len(loaded) + 1}] BY <2>1, <2>4
    <3>2. y.calls = v.calls /\ y.m_cb = v.m_cb /\ y.val = v.val BY <3>1 DEF VarOK, Fields
    <3> QED BY <3>2 DEF Chained, y
  <2> QED BY <2>2, <2>3, <2>4 DEF VarOK
<1> QED BY <1>1, <1>2

LEMMA CallsStep ==
    ConfigInv /\ CallsInv /\ [MCNext]_<<part, arrayVars, codecVars, configVars>> => CallsInv'
<1> SUFFICES ASSUME ConfigInv, CallsInv, [MCNext]_<<part, arrayVars, codecVars, configVars>> PROVE CallsInv'
  OBVIOUS
<1>1. IsList(var) /\ \A x \in 1..Len(var) : VarOK(var[x], Len(loaded)) BY DEF ConfigInv, ConfigOK
<1>2. DOMAIN var = 1..Len(var) /\ Len(var) \in Nat BY <1>1, ListDomain
<1>3. ASSUME NEW name, NEW type, Cfg!Lookup(name, type) PROVE CallsInv'
  <2> DEFINE v == Cfg!NewVar(name, type)
             n == Len(var)
  <2>1. var' = Append(var, v) BY <1>3 DEF Cfg!Lookup
  <2>2. v.calls = << >> BY DEF Cfg!NewVar
  <2> HIDE DEF v
  <2>3. Chained(v) BY <2>2 DEF Chained, IsList
  <2>4. PICK ws : ws = Append(var, v) OBVIOUS
  <2>5. IsList(ws) /\ Len(ws) = n + 1 /\ ws[n + 1] = v /\ \A x \in 1..n : ws[x] = var[x]
    BY <1>1, <2>4, ListAppend
  <2>6. DOMAIN ws = 1..(n + 1) BY <2>5, ListDomain
  <2>7. \A x \in 1..(n + 1) : x = n + 1 \/ x \in 1..n BY <1>2
  <2>8. \A x \in DOMAIN ws : Chained(ws[x]) BY <1>2, <2>3, <2>5, <2>6, <2>7 DEF CallsInv
  <2> QED BY <2>1, <2>4, <2>8 DEF CallsInv
<1>4. ASSUME NEW x \in DOMAIN var, NEW cb \in {"returns", "throws"}, Cfg!addListener(x, cb) PROVE CallsInv'
  <2> DEFINE v == [var[x] EXCEPT !.m_cb = cb]
  <2>1. var' = [y \in DOMAIN var |-> IF y = x THEN v ELSE var[y]] BY <1>1, <1>4 DEF Cfg!addListener, IsList
  <2>2. v.calls = var[x].calls /\ v.val = var[x].val /\ v.m_cb = cb BY <1>1, <1>2 DEF VarOK, Fields
  <2>3. cb # "none" OBVIOUS
  <2> HIDE DEF v
  <2>4. Chained(v) BY <2>2, <2>3 DEF Chained, CallsInv
  <2> QED BY <2>1, <2>4 DEF CallsInv
<1>5. ASSUME NEW file \in Files, Cfg!LoadFromYaml(file) PROVE CallsInv'
  <2> DEFINE items == Cfg!InitFromYaml(file)
             e(x) == IF registered[var[x].name] = x /\ var[x].name \in DOMAIN items
                     THEN Cfg!fromString(var[x], file, items[var[x].name]) ELSE var[x]
  <2>1. var' = [x \in DOMAIN var |-> e(x)] BY <1>5 DEF Cfg!LoadFromYaml, Cfg!LookupData
  <2> HIDE DEF items
  <2>2. ASSUME NEW x \in DOMAIN var PROVE Chained(e(x))
    <3>1. VarOK(var[x], Len(loaded)) /\ Chained(var[x]) BY <1>1, <1>2 DEF CallsInv
    <3>2. Chained(Cfg!fromString(var[x], file, items[var[x].name])) BY <3>1, FromStringChained
    <3> QED BY <3>1, <3>2
  <2> HIDE DEF e
  <2> QED BY <2>1, <2>2 DEF CallsInv
<1>6. CASE Cfg!Next BY <1>3, <1>4, <1>5, <1>6 DEF Cfg!Next
<1>7. CASE UNCHANGED configVars BY <1>7 DEF configVars, CallsInv
<1> QED BY <1>6, <1>7 DEF MCNext

\* For any files and callbacks, set at any time and throwing or not: each call of
\* a callback starts where the one before it ended, and the last one ends at the
\* value that the variable has.
THEOREM CallsTheorem == MCSpec => []CallsChained
<1>1. MCInit => CallsInv BY DEF MCInit, Cfg!Init, CallsInv
<1>2. CallsInv => CallsChained BY DEF CallsInv, Chained, CallsChained, Cfg!CallsChained, Cfg!Last
<1> QED BY <1>1, <1>2, CallsStep, ConfigIsInv, PTL DEF MCSpec

----------------------------------------------------------------------------
(* ByteArrayCodec: the typed values.                                          *)

----------------------------------------------------------------------------
(* Numbers of the widths the code uses.                                       *)

Bits == P + 1
ByteRange == 0..(2 ^ Bits - 1)

LEMMA Widths ==
    /\ Codec!ByteBits = Bits /\ Bits \in Nat \ {0} /\ P \in Nat \ {0}
    /\ Codec!IntBytes \in {2, 4} /\ Width = Codec!IntBytes * Bits /\ Width \in Nat \ {0}
<1>1. Bits \in Nat \ {0} /\ P \in Nat \ {0} /\ Width \in {2 * Bits, 4 * Bits} BY CodecAssumption DEF Bits
<1>2. Codec!ByteBits = Bits /\ Codec!IntBytes = Width \div Bits BY DEF Codec!ByteBits, Codec!IntBytes, Bits
<1> HIDE DEF Bits
<1>3. \A q \in {2, 4} : Width = q * Bits => Codec!IntBytes = q
  <2> TAKE q \in {2, 4}
  <2>1. (q * Bits + 0) \div Bits = q /\ q * Bits + 0 = q * Bits
    <3>1. q \in Int /\ 0 \in 0..(Bits - 1) BY <1>1
    <3> QED BY <1>1, <3>1, DivIs
  <2> QED BY <1>2, <2>1
<1>4. CASE Width = 2 * Bits
  <2>1. Codec!IntBytes = 2 BY <1>3, <1>4
  <2> QED BY <1>1, <1>2, <1>4, <2>1
<1>5. CASE Width = 4 * Bits
  <2>1. Codec!IntBytes = 4 BY <1>3, <1>5
  <2> QED BY <1>1, <1>2, <1>5, <2>1
<1> QED BY <1>1, <1>4, <1>5

LEMMA PowerPos == \A n \in Nat : 2 ^ n \in Nat \ {0}
BY PowerType

LEMMA UnsignedType ==
    ASSUME NEW val \in Int, NEW bits \in Nat
    PROVE  Codec!Unsigned(val, bits) \in 0..(2 ^ bits - 1)
<1>1. PICK m \in Nat \ {0} : m = 2 ^ bits BY PowerPos
<1>2. val % m \in 0..(m - 1) BY OneTurn
<1> QED BY <1>1, <1>2 DEF Codec!Unsigned

LEMMA UnsignedSame ==
    ASSUME NEW bits \in Nat, NEW val \in 0..(2 ^ bits - 1)
    PROVE  Codec!Unsigned(val, bits) = val
<1>1. PICK m \in Nat \ {0} : m = 2 ^ bits BY PowerPos
<1>2. val % m = val BY <1>1, DivModSmall
<1> QED BY <1>1, <1>2 DEF Codec!Unsigned

\* Two's complement gives every value of a signed type back.
LEMMA SignedBack ==
    ASSUME NEW bits \in Nat \ {0}, NEW val \in Int, -(2 ^ (bits - 1)) <= val, val < 2 ^ (bits - 1)
    PROVE  Codec!Signed(Codec!Unsigned(val, bits), bits) = val
<1>1. bits - 1 \in Nat /\ (bits - 1) + 1 = bits OBVIOUS
<1>2. PICK h \in Nat \ {0} : h = 2 ^ (bits - 1) BY <1>1, PowerPos
<1>3. 2 ^ ((bits - 1) + 1) = 2 * 2 ^ (bits - 1) BY <1>1, PowerNext
<1>4. PICK m \in Nat \ {0} : m = 2 ^ bits /\ m = 2 * h BY <1>1, <1>2, <1>3
<1>5. -h <= val /\ val < h BY <1>2
<1>6. CASE val >= 0
  <2>1. val \in 0..(m - 1) BY <1>4, <1>5, <1>6
  <2>2. Codec!Unsigned(val, bits) = val BY <1>4, <2>1, UnsignedSame
  <2>3. ~(val >= h) BY <1>5
  <2> QED BY <1>2, <2>2, <2>3 DEF Codec!Signed
<1>7. CASE val < 0
  <2>1. val + m \in 0..(m - 1) /\ val + m >= h BY <1>4, <1>5, <1>7
  <2>2. ((-1) * m + (val + m)) % m = val + m
    <3>1. -1 \in Int OBVIOUS
    <3> QED BY <2>1, <3>1, Remainder
  <2>3. (-1) * m + (val + m) = val OBVIOUS
  <2>4. Codec!Unsigned(val, bits) = val + m BY <1>4, <2>2, <2>3 DEF Codec!Unsigned
  <2>5. (val + m) - m = val OBVIOUS
  <2> QED BY <1>2, <1>4, <2>1, <2>4, <2>5 DEF Codec!Signed
<1> QED BY <1>6, <1>7

\* A number below half of the range is the same number in a signed type.
LEMMA SignedSame ==
    ASSUME NEW bits \in Nat \ {0}, NEW u \in Nat, u < 2 ^ (bits - 1)
    PROVE  Codec!Signed(u, bits) = u
<1>1. bits - 1 \in Nat OBVIOUS
<1>2. PICK h \in Nat \ {0} : h = 2 ^ (bits - 1) BY <1>1, PowerPos
<1>3. ~(u >= h) BY <1>2
<1> QED BY <1>2, <1>3 DEF Codec!Signed

\* One above half of the range is negative there.
LEMMA SignedNonNegative ==
    ASSUME NEW bits \in Nat \ {0}, NEW u \in 0..(2 ^ bits - 1), Codec!Signed(u, bits) >= 0
    PROVE  Codec!Signed(u, bits) = u /\ u < 2 ^ (bits - 1)
<1>1. bits - 1 \in Nat OBVIOUS
<1>2. PICK h \in Nat \ {0} : h = 2 ^ (bits - 1) BY <1>1, PowerPos
<1>3. PICK m \in Nat \ {0} : m = 2 ^ bits BY PowerPos
<1>4. ~(u >= h) BY <1>2, <1>3 DEF Codec!Signed
<1> QED BY <1>2, <1>3, <1>4 DEF Codec!Signed

----------------------------------------------------------------------------
\* g has the sums of the first terms, for each number of them up to n.
IsSum(g, t, n) == g = [k \in 0..n |-> IF k = 0 THEN 0 ELSE g[k - 1] + t[k]]

LEMMA SumExists ==
    ASSUME NEW t, NEW n \in Nat
    PROVE  \E g : IsSum(g, t, n)
<1> DEFINE Q == {m \in Nat : \E g : IsSum(g, t, m)}
<1>1. 0 \in Q
  <2> DEFINE g == [m \in 0..0 |-> 0]
  <2>1. IsSum(g, t, 0) BY DEF IsSum
  <2> QED BY <2>1
<1>2. ASSUME NEW m \in Nat, m \in Q PROVE m + 1 \in Q
  <2>1. PICK g : IsSum(g, t, m) BY <1>2
  <2> DEFINE e(f, l) == IF l = 0 THEN 0 ELSE f[l - 1] + t[l]
             h == [l \in 0..(m + 1) |-> e(g, l)]
  <2>2. g = [l \in 0..m |-> e(g, l)] BY <2>1 DEF IsSum
  <2>3. \A l \in 0..m : h[l] = g[l]
    <3>1. \A l \in 0..m : l \in 0..(m + 1) OBVIOUS
    <3> HIDE DEF e
    <3> QED BY <2>2, <3>1
  <2>4. ASSUME NEW l \in 0..(m + 1) PROVE h[l] = e(h, l)
    <3>1. h[l] = e(g, l) OBVIOUS
    <3>2. l # 0 => l - 1 \in 0..m OBVIOUS
    <3>3. l # 0 => h[l - 1] = g[l - 1] BY <2>3, <3>2
    <3> HIDE DEF h
    <3> QED BY <3>1, <3>3
  <2>5. h = [l \in 0..(m + 1) |-> h[l]] OBVIOUS
  <2> HIDE DEF h
  <2>6. [l \in 0..(m + 1) |-> h[l]] = [l \in 0..(m + 1) |-> e(h, l)] BY <2>4
  <2>7. IsSum(h, t, m + 1) BY <2>5, <2>6 DEF IsSum
  <2> QED BY <2>7
<1>3. Nat \subseteq Q
  <2> HIDE DEF Q
  <2> QED BY <1>1, <1>2, Induct
<1> QED BY <1>3

\* If the first k terms add up to x % power[k] and power[n] is above x, the sum
\* is x.
Expands(x, t, n, power) ==
    /\ power \in [0..n -> Nat \ {0}] /\ power[0] = 1 /\ x < power[n]
    /\ \A k \in 1..n : x % power[k] = (x % power[k - 1]) + t[k]

LEMMA SumIs ==
    ASSUME NEW g, NEW t, NEW n \in Nat, IsSum(g, t, n), NEW x \in Nat, NEW power, Expands(x, t, n, power)
    PROVE  g[n] = x
<1>0. /\ power \in [0..n -> Nat \ {0}] /\ power[0] = 1 /\ x < power[n]
      /\ \A k \in 1..n : x % power[k] = (x % power[k - 1]) + t[k]
  BY DEF Expands
<1> DEFINE Q == {k \in Nat : k <= n => g[k] = x % power[k]}
<1>1. 0 \in Q
  <2>1. 0 \in 0..n OBVIOUS
  <2>2. g[0] = 0 BY <2>1 DEF IsSum
  <2>3. x % 1 = 0 OBVIOUS
  <2> QED BY <1>0, <2>2, <2>3
<1>2. ASSUME NEW k \in Nat, k \in Q PROVE k + 1 \in Q
  <2> SUFFICES ASSUME k + 1 <= n PROVE g[k + 1] = x % power[k + 1] OBVIOUS
  <2>1. k <= n /\ k + 1 \in 0..n /\ k + 1 \in 1..n /\ k + 1 # 0 /\ (k + 1) - 1 = k OBVIOUS
  <2>2. g[k + 1] = g[k] + t[k + 1] BY <2>1 DEF IsSum
  <2>3. g[k] = x % power[k] BY <1>2, <2>1
  <2>4. x % power[k + 1] = (x % power[k]) + t[k + 1] BY <1>0, <2>1
  <2> QED BY <2>2, <2>3, <2>4
<1>3. Nat \subseteq Q
  <2> HIDE DEF Q
  <2> QED BY <1>1, <1>2, Induct
<1>4. g[n] = x % power[n] BY <1>3
<1>5. PICK m \in Nat \ {0} : m = power[n] BY <1>0, n \in 0..n
<1>6. x \in 0..(m - 1) BY <1>0, <1>5
<1>7. x % m = x BY <1>6, DivModSmall
<1> QED BY <1>4, <1>5, <1>7

----------------------------------------------------------------------------
(* Integers of fixed length.                                                  *)

LEMMA FixedType ==
    ASSUME NEW val \in Int, NEW n \in Nat
    PROVE  Codec!FixedBytes(val, n) \in Seq(ByteRange) /\ Len(Codec!FixedBytes(val, n)) = n
<1>1. Codec!ByteBits = Bits /\ Bits \in Nat BY Widths
<1> DEFINE e(i) == (Codec!Unsigned(val, n * Bits) \div 2 ^ (Bits * (i - 1))) % 2 ^ Bits
<1>2. Codec!FixedBytes(val, n) = [i \in 1..n |-> e(i)] BY <1>1 DEF Codec!FixedBytes
<1> HIDE DEF Bits
<1>3. ASSUME NEW i \in 1..n PROVE e(i) \in ByteRange
  <2>1. n * Bits \in Nat /\ Bits * (i - 1) \in Nat BY <1>1
  <2>2. PICK u \in Nat : u = Codec!Unsigned(val, n * Bits)
    <3>1. Codec!Unsigned(val, n * Bits) \in 0..(2 ^ (n * Bits) - 1) BY <2>1, UnsignedType
    <3>2. 2 ^ (n * Bits) \in Nat BY <2>1, PowerType
    <3> QED BY <3>1, <3>2
  <2>3. PICK m \in Nat \ {0} : m = 2 ^ (Bits * (i - 1)) BY <2>1, PowerPos
  <2>4. PICK c \in Nat \ {0} : c = 2 ^ Bits BY <1>1, PowerPos
  <2>5. u \div m \in Nat BY DivMod
  <2>6. (u \div m) % c \in 0..(c - 1) BY <2>5, DivMod
  <2> QED BY <2>2, <2>3, <2>4, <2>6 DEF ByteRange
<1> HIDE DEF e, ByteRange
<1>4. [i \in 1..n |-> e(i)] \in [1..n -> ByteRange] BY <1>3
<1>5. [i \in 1..n |-> e(i)] \in Seq(ByteRange) /\ Len([i \in 1..n |-> e(i)]) = n BY <1>4, IsASeq
<1> QED BY <1>2, <1>5

\* The number that bytes stand for, as a sum.
Terms(bytes, n) == [k \in 1..n |-> bytes[k] * 2 ^ (Bits * (k - 1))]

LEMMA FixedIsSum ==
    ASSUME NEW bytes, NEW n \in Nat, Len(bytes) = n
    PROVE  \E g : IsSum(g, Terms(bytes, n), n) /\ Codec!FixedValue(bytes) = g[n]
<1> DEFINE term(k) == bytes[k] * 2 ^ (Bits * (k - 1))
           IsValue(g) == g = [k \in 0..n |-> IF k = 0 THEN 0 ELSE g[k - 1] + term(k)]
           value == CHOOSE g : IsValue(g)
           t == Terms(bytes, n)
<1>1. Codec!ByteBits = Bits BY Widths
<1>2. Codec!FixedValue(bytes) = value[n] BY <1>1 DEF Codec!FixedValue
<1> HIDE DEF Bits
<1>3. \A k \in 1..n : t[k] = term(k) BY DEF Terms
<1>4. \A g : IsSum(g, t, n) <=> IsValue(g)
  <2> TAKE g
  <2> HIDE DEF t, term
  <2>1. \A k \in 0..n : (IF k = 0 THEN 0 ELSE g[k - 1] + t[k]) = (IF k = 0 THEN 0 ELSE g[k - 1] + term(k))
    <3>1. \A k \in 0..n : k # 0 => k \in 1..n OBVIOUS
    <3> QED BY <1>3, <3>1
  <2>2. [k \in 0..n |-> IF k = 0 THEN 0 ELSE g[k - 1] + t[k]] = [k \in 0..n |-> IF k = 0 THEN 0 ELSE g[k - 1] + term(k)]
    BY <2>1
  <2> QED BY <2>2 DEF IsSum
<1>5. IsSum(value, t, n)
  <2> HIDE DEF t
  <2>1. \E g : IsValue(g) BY <1>4, SumExists
  <2> HIDE DEF IsValue
  <2>2. IsValue(value) BY <2>1
  <2> QED BY <1>4, <2>2
<1> HIDE DEF value
<1> QED BY <1>2, <1>5

\* The value that the bytes of a value give is the value, as an unsigned number.
LEMMA FixedBack ==
    ASSUME NEW val \in Int, NEW n \in Nat
    PROVE  Codec!FixedValue(Codec!FixedBytes(val, n)) = Codec!Unsigned(val, n * Bits)
<1>1. Codec!ByteBits = Bits /\ Bits \in Nat BY Widths
<1> DEFINE bytes == Codec!FixedBytes(val, n)
           t == Terms(bytes, n)
           power == [k \in 0..n |-> 2 ^ (Bits * k)]
<1>2. Len(bytes) = n BY FixedType
<1>3. \A k \in 1..n : bytes[k] = (Codec!Unsigned(val, n * Bits) \div 2 ^ (Bits * (k - 1))) % 2 ^ Bits
  BY <1>1 DEF Codec!FixedBytes
<1> HIDE DEF bytes, Bits
<1>4. PICK value : IsSum(value, t, n) /\ Codec!FixedValue(bytes) = value[n] BY <1>2, FixedIsSum
<1>7. PICK u \in Nat : u = Codec!Unsigned(val, n * Bits) /\ u < 2 ^ (n * Bits)
  <2>1. n * Bits \in Nat BY <1>1
  <2>2. PICK m \in Nat \ {0} : m = 2 ^ (n * Bits) BY <2>1, PowerPos
  <2>3. Codec!Unsigned(val, n * Bits) \in 0..(m - 1) BY <2>1, <2>2, UnsignedType
  <2> QED BY <2>2, <2>3
<1>8. \A k \in 0..n : Bits * k \in Nat BY <1>1
<1>9. power \in [0..n -> Nat \ {0}] BY <1>8, PowerPos
<1>10. power[0] = 1
  <2>1. 0 \in 0..n /\ Bits * 0 = 0 BY <1>1
  <2> QED BY <2>1, PowerZero
<1>11. u < power[n]
  <2>1. n \in 0..n /\ Bits * n = n * Bits BY <1>1
  <2> QED BY <1>7, <2>1
<1>12. ASSUME NEW k \in 1..n PROVE u % power[k] = (u % power[k - 1]) + t[k]
  <2>1. k \in 0..n /\ k - 1 \in 0..n /\ Bits * (k - 1) \in Nat /\ Bits * k = Bits * (k - 1) + Bits BY <1>1
  <2>2. PICK a \in Nat \ {0} : a = 2 ^ (Bits * (k - 1)) BY <2>1, PowerPos
  <2>3. PICK b \in Nat \ {0} : b = 2 ^ Bits BY <1>1, PowerPos
  <2>4. power[k] = a * b /\ power[k - 1] = a
    <3>1. 2 ^ (Bits * (k - 1) + Bits) = 2 ^ (Bits * (k - 1)) * 2 ^ Bits BY <1>1, <2>1, PowerSum
    <3> QED BY <2>1, <2>2, <2>3, <3>1
  <2>5. u % (a * b) = ((u \div a) % b) * a + (u % a) BY RestIs, Zenon
  <2>6. t[k] = ((u \div a) % b) * a BY <1>3, <1>7, <2>2, <2>3 DEF Terms
  <2>7. (u \div a) \in Nat /\ u % a \in Nat BY DivMod
  <2>8. (u \div a) % b \in Nat BY <2>7, DivMod
  <2>9. ((u \div a) % b) * a \in Nat BY <2>8
  <2> HIDE DEF t, power
  <2> QED BY <2>4, <2>5, <2>6, <2>7, <2>9
<1> HIDE DEF t, power
<1>13. value[n] = u
  <2>1. Expands(u, t, n, power) BY <1>9, <1>10, <1>11, <1>12 DEF Expands
  <2> QED BY <1>4, <2>1, SumIs
<1> QED BY <1>4, <1>7, <1>13 DEF bytes

----------------------------------------------------------------------------
(* Integers of compressed length.                                             *)

LEMMA IterationsIs ==
    ASSUME NEW val \in Nat, val < 2 ^ (2 * Width)
    PROVE  /\ Codec!Iterations(val) \in 0..(2 * Width)
           /\ val < 2 ^ (P * Codec!Iterations(val))
           /\ Codec!Iterations(val) > 0 => 2 ^ (P * (Codec!Iterations(val) - 1)) <= val
<1>1. P \in Nat \ {0} /\ Width \in Nat BY Widths
<1> DEFINE m == 2 * Width
           S == {n \in 0..m : val < 2 ^ (P * n)}
<1>2. m \in Nat /\ m \in 0..m /\ P * m \in Nat /\ m <= P * m BY <1>1
<1>3. m \in S
  <2>1. 2 ^ m <= 2 ^ (P * m) BY <1>2, PowerMono
  <2>2. 2 ^ m \in Nat /\ 2 ^ (P * m) \in Nat BY <1>2, PowerType
  <2> QED BY <1>2, <2>1, <2>2
<1>4. S \subseteq Nat BY <1>2
<1>5. PICK n \in S : \A y \in S : n <= y BY <1>3, <1>4, Smallest
<1>6. ASSUME n > 0 PROVE 2 ^ (P * (n - 1)) <= val
  <2>1. n - 1 \in 0..m /\ ~(n <= n - 1) BY <1>2, <1>6
  <2>2. ~(val < 2 ^ (P * (n - 1))) BY <1>5, <2>1
  <2>3. P * (n - 1) \in Nat BY <1>1, <2>1
  <2>4. 2 ^ (P * (n - 1)) \in Nat BY <2>3, PowerType
  <2> QED BY <2>2, <2>4
<1>7. \E n_1 \in 0..m : val < 2 ^ (P * n_1) /\ (n_1 > 0 => 2 ^ (P * (n_1 - 1)) <= val) BY <1>6
<1> QED BY <1>7 DEF Codec!Iterations

LEMMA DigitType ==
    ASSUME NEW val \in Nat, NEW k \in Nat \ {0}
    PROVE  Codec!Digit(val, k) \in 0..(2 ^ P - 1)
<1>1. P \in Nat /\ P * (k - 1) \in Nat BY Widths
<1>2. PICK a \in Nat \ {0} : a = 2 ^ (P * (k - 1)) BY <1>1, PowerPos
<1>3. PICK b \in Nat \ {0} : b = 2 ^ P BY <1>1, PowerPos
<1>4. val \div a \in Nat BY DivMod
<1>5. (val \div a) % b \in 0..(b - 1) BY <1>4, DivMod
<1> QED BY <1>2, <1>3, <1>5 DEF Codec!Digit

\* The bytes of a compressed value: the last one is marked and no other, and each
\* carries its digit.
LEMMA CompressedIs ==
    ASSUME NEW val \in Nat, val < 2 ^ (2 * Width)
    PROVE  /\ Codec!CompressedBytes(val) \in Seq(ByteRange)
           /\ Len(Codec!CompressedBytes(val)) = Codec!Iterations(val)
           /\ \A k \in 1..Codec!Iterations(val) :
                 /\ Codec!Marked(Codec!CompressedBytes(val)[k]) <=> k = Codec!Iterations(val)
                 /\ Codec!CompressedBytes(val)[k] % 2 ^ P = Codec!Digit(val, k)
<1>1. PICK n \in Nat : n = Codec!Iterations(val)
  <2>1. Width \in Nat BY Widths
  <2>2. 2 * Width \in Nat BY <2>1
  <2> QED BY <2>2, IterationsIs
<1>2. P \in Nat /\ Bits = P + 1 BY Widths DEF Bits
<1>3. PICK b \in Nat \ {0} : b = 2 ^ P /\ 2 ^ Bits = 2 * b BY <1>2, PowerPos, PowerNext
<1> DEFINE e(k) == IF k = n THEN 2 ^ P + Codec!Digit(val, k) ELSE Codec!Digit(val, k)
           s == [k \in 1..n |-> e(k)]
<1>4. Codec!CompressedBytes(val) = s BY <1>1 DEF Codec!CompressedBytes
<1>5. \A k \in 1..n : Codec!Digit(val, k) \in 0..(b - 1)
  <2> TAKE k \in 1..n
  <2>1. k \in Nat \ {0} OBVIOUS
  <2> QED BY <1>3, <2>1, DigitType
<1>6. ASSUME NEW k \in 1..n
      PROVE  /\ e(k) \in 0..(2 * b - 1) /\ (e(k) >= b <=> k = n) /\ e(k) % b = Codec!Digit(val, k)
  <2>1. PICK d \in 0..(b - 1) : d = Codec!Digit(val, k) BY <1>5
  <2>2. CASE k = n
    <3>1. e(k) = 1 * b + d BY <1>3, <2>1, <2>2
    <3>2. (1 * b + d) % b = d BY Remainder
    <3> HIDE DEF e
    <3> QED BY <2>1, <2>2, <3>1, <3>2
  <2>3. CASE k # n
    <3>1. e(k) = d BY <2>1, <2>3
    <3>2. d % b = d BY DivModSmall
    <3> HIDE DEF e
    <3> QED BY <2>1, <2>3, <3>1, <3>2
  <2> QED BY <2>2, <2>3
<1> HIDE DEF e
<1>7. s \in Seq(ByteRange) /\ Len(s) = n
  <2>1. ByteRange = 0..(2 * b - 1) BY <1>3 DEF ByteRange
  <2>2. \A k \in 1..n : e(k) \in ByteRange BY <1>6, <2>1
  <2> HIDE DEF ByteRange
  <2>3. s \in [1..n -> ByteRange] BY <2>2
  <2> QED BY <2>3, IsASeq
<1>8. \A k \in 1..n : s[k] = e(k) OBVIOUS
<1> HIDE DEF s
<1>9. ASSUME NEW k \in 1..n
      PROVE  (Codec!Marked(s[k]) <=> k = n) /\ s[k] % 2 ^ P = Codec!Digit(val, k)
  <2>1. e(k) >= b <=> k = n BY <1>6
  <2>2. e(k) % b = Codec!Digit(val, k) BY <1>6
  <2> QED BY <1>3, <1>8, <2>1, <2>2 DEF Codec!Marked
<1> QED BY <1>1, <1>4, <1>7, <1>9

\* The bits of a digit in its place are those of the value there, and no others.
InPlace(val, a, p, j) ==
    Codec!Bit(((val \div 2 ^ a) % 2 ^ p) * 2 ^ a, j) = IF a <= j /\ j < a + p THEN Codec!Bit(val, j) ELSE 0

LEMMA BitOfDigit ==
    ASSUME NEW val \in Nat, NEW a \in Nat, NEW p \in Nat, NEW j \in Nat
    PROVE  InPlace(val, a, p, j)
<1> USE DEF InPlace
<1>1. PICK A \in Nat \ {0} : A = 2 ^ a BY PowerPos
<1>2. PICK B \in Nat \ {0} : B = 2 ^ p BY PowerPos
<1>3. PICK J \in Nat \ {0} : J = 2 ^ j BY PowerPos
<1>4. PICK q \in Nat : q = val \div A BY DivMod
<1>5. PICK d \in 0..(B - 1) : d = q % B BY DivMod
<1>6. PICK x \in Nat : x = d * A OBVIOUS
<1>7. Codec!Bit(((val \div 2 ^ a) % 2 ^ p) * 2 ^ a, j) = (x \div J) % 2
  BY <1>1, <1>2, <1>3, <1>4, <1>5, <1>6 DEF Codec!Bit
<1>8. Codec!Bit(val, j) = (val \div J) % 2 BY <1>3 DEF Codec!Bit
<1>9. CASE j < a
  <2>1. a - j - 1 \in Nat /\ a - j \in Nat /\ (a - j - 1) + 1 = a - j /\ j + (a - j) = a BY <1>9
  <2>2. PICK C \in Nat : C = 2 ^ (a - j - 1) BY <2>1, PowerPos
  <2>3. 2 ^ (a - j) = 2 * C
    <3>1. 2 ^ ((a - j - 1) + 1) = 2 * 2 ^ (a - j - 1) BY <2>1, PowerNext
    <3> QED BY <2>1, <2>2, <3>1
  <2>4. A = J * (2 * C)
    <3>1. 2 ^ (j + (a - j)) = 2 ^ j * 2 ^ (a - j) BY <2>1, PowerSum
    <3> QED BY <1>1, <1>3, <2>1, <2>3, <3>1
  <2>5. PICK y \in Nat : y = d * C OBVIOUS
  <2>6. x = (y * 2) * J + 0
    <3>1. d * (J * (2 * C)) = ((d * C) * 2) * J OBVIOUS
    <3> QED BY <1>6, <2>4, <2>5, <3>1
  <2>7. x \div J = y * 2
    <3>1. y * 2 \in Int /\ 0 \in 0..(J - 1) OBVIOUS
    <3> QED BY <2>6, <3>1, DivIs
  <2>8. (y * 2) % 2 = 0 OBVIOUS
  <2>9. ~(a <= j) BY <1>9
  <2> QED BY <1>7, <2>7, <2>8, <2>9
<1>10. CASE ~(j < a)
  <2>1. PICK m \in Nat : m = j - a BY <1>10
  <2>2. j = a + m /\ a <= j /\ (j < a + p <=> m < p) BY <2>1, <1>10
  <2>3. PICK M \in Nat \ {0} : M = 2 ^ m BY PowerPos
  <2>4. J = A * M BY <1>1, <1>3, <2>2, <2>3, PowerSum
  <2>5. x \div A = d
    <3>1. x = d * A + 0 BY <1>6
    <3>2. 0 \in 0..(A - 1) /\ d \in Int OBVIOUS
    <3> QED BY <3>1, <3>2, DivIs
  <2>6. x \div J = d \div M
    <3>1. (x \div A) \div M = x \div (A * M) BY DivTwice, Zenon
    <3> QED BY ONLY <2>4, <2>5, <3>1, Zenon
  <2>7. q \div M = val \div J
    <3>1. (val \div A) \div M = val \div (A * M) BY DivTwice, Zenon
    <3> QED BY ONLY <1>4, <2>4, <3>1, Zenon
  <2>8. CASE m >= p
    <3>1. B <= M BY <1>2, <2>3, <2>8, PowerMono
    <3>2. d \in 0..(M - 1) BY <3>1
    <3>3. d \div M = 0 BY <3>2, DivModSmall
    <3>4. 0 % 2 = 0 OBVIOUS
    <3> QED BY <1>7, <2>2, <2>6, <2>8, <3>3, <3>4
  <2>9. CASE ~(m >= p)
    <3>1. p - m - 1 \in Nat /\ p - m \in Nat /\ (p - m - 1) + 1 = p - m /\ m + (p - m) = p BY <2>9
    <3>2. PICK C \in Nat \ {0} : C = 2 ^ (p - m - 1) BY <3>1, PowerPos
    <3>3. 2 ^ (p - m) = 2 * C
      <4>1. 2 ^ ((p - m - 1) + 1) = 2 * 2 ^ (p - m - 1) BY <3>1, PowerNext
      <4> QED BY <3>1, <3>2, <4>1
    <3>4. B = M * (2 * C)
      <4>1. 2 ^ (m + (p - m)) = 2 ^ m * 2 ^ (p - m) BY <3>1, PowerSum
      <4> QED BY <1>2, <2>3, <3>1, <3>3, <4>1
    <3>5. PICK D \in Nat \ {0} : D = 2 * C OBVIOUS
    <3>6. (q % B) \div M = (q \div M) % D
      <4>1. B = M * D BY <3>4, <3>5
      <4>2. (q % (M * D)) \div M = (q \div M) % D
        BY DivOfRest, Zenon
      <4> QED BY ONLY <4>1, <4>2, Zenon
    <3>7. q \div M \in Nat BY DivMod
    <3>8. ((q \div M) % D) % 2 = (q \div M) % 2
      <4>1. 2 \in Nat \ {0} OBVIOUS
      <4>2. PICK y \in Nat : y = q \div M BY <3>7
      <4>3. (y % (2 * C)) % 2 = y % 2 BY <4>1, RestOfRest, Zenon
      <4> QED BY ONLY <3>5, <4>2, <4>3, Zenon
    <3>9. (d \div M) % 2 = (q \div M) % 2 BY <1>5, <3>6, <3>8
    <3> QED BY <1>7, <1>8, <2>2, <2>6, <2>7, <2>9, <3>9
  <2> QED BY <2>8, <2>9
<1> QED BY <1>9, <1>10

LEMMA DigitSmall ==
    ASSUME NEW val \in Nat, NEW a \in Nat \ {0}, NEW b \in Nat \ {0}
    PROVE  ((val \div a) % b) * a \in 0..val
<1>1. PICK q \in Nat, r \in Nat : q = val \div a /\ val = q * a + r BY DivMod
<1>2. PICK d \in Nat : d = q % b BY DivMod
<1>3. q = (q \div b) * b + d /\ q \div b \in Nat BY <1>2, DivMod
<1>4. PICK e \in Nat : e = (q \div b) * b BY <1>3
<1>5. d <= q BY <1>3, <1>4
<1>6. d * a <= q * a BY <1>5
<1>7. d * a \in Nat /\ q * a \in Nat OBVIOUS
<1> QED BY <1>1, <1>2, <1>6, <1>7

\* Below the largest int each byte is or'ed in at its place.
LEMMA ShiftedIs ==
    ASSUME NEW val \in Nat, val < 2 ^ (Width - 1), NEW bits \in Nat, Width <= bits,
           NEW k \in 1..Codec!Iterations(val)
    PROVE  Codec!Shifted(Codec!CompressedBytes(val)[k], k - 1, bits) = Codec!Digit(val, k) * 2 ^ (P * (k - 1))
<1>1. P \in Nat \ {0} /\ Width \in Nat \ {0} /\ Width - 1 \in Nat /\ 2 * Width \in Nat /\ Width - 1 <= Width
      /\ Width - 1 <= 2 * Width /\ Width - 1 <= bits
  BY Widths
<1>2. PICK H \in Nat \ {0} : H = 2 ^ (Width - 1) BY <1>1, PowerPos
<1>3. PICK M \in Nat \ {0} : M = 2 ^ Width BY <1>1, PowerPos
<1>4. PICK B \in Nat \ {0} : B = 2 ^ bits BY PowerPos
<1>5. H <= M /\ H <= B /\ H <= 2 ^ (2 * Width) BY <1>1, <1>2, <1>3, <1>4, PowerMono
<1>6. val < 2 ^ (2 * Width)
  <2>1. 2 ^ (2 * Width) \in Nat BY <1>1, PowerPos
  <2> QED BY <1>2, <1>5, <2>1
<1>7. PICK n \in Nat \ {0} : n = Codec!Iterations(val) /\ 2 ^ (P * (n - 1)) <= val
  <2>1. Codec!Iterations(val) \in 0..(2 * Width) BY <1>6, IterationsIs
  <2>2. Codec!Iterations(val) \in Nat /\ Codec!Iterations(val) > 0 BY <1>1, <2>1
  <2>3. 2 ^ (P * (Codec!Iterations(val) - 1)) <= val BY <1>6, <2>2, IterationsIs
  <2> QED BY <2>2, <2>3
<1>8. k \in 1..n /\ P * (n - 1) \in Nat /\ P * (k - 1) \in Nat /\ P * (k - 1) <= P * (n - 1) /\ (k - 1) * P = P * (k - 1)
  <2>1. k \in 1..n BY <1>7
  <2>2. n - 1 \in Nat /\ k - 1 \in Nat /\ k - 1 <= n - 1 BY <2>1
  <2> QED BY <1>1, <2>1, <2>2
<1>9. P * (n - 1) < Width - 1
  <2> SUFFICES ASSUME Width - 1 <= P * (n - 1) PROVE FALSE BY <1>1, <1>8
  <2>1. 2 ^ (Width - 1) <= 2 ^ (P * (n - 1)) BY <1>1, <1>8, PowerMono
  <2>2. 2 ^ (P * (n - 1)) \in Nat BY <1>8, PowerPos
  <2> QED BY <1>2, <1>7, <2>1, <2>2
<1>10. ((k - 1) * P) % Width = P * (k - 1)
  <2>1. P * (k - 1) \in 0..(Width - 1) BY <1>1, <1>8, <1>9
  <2> QED BY <1>1, <1>8, <2>1, DivModSmall
<1>11. Codec!CompressedBytes(val)[k] % 2 ^ P = Codec!Digit(val, k) BY <1>6, CompressedIs
<1>12. PICK u \in 0..val : u = Codec!Digit(val, k) * 2 ^ (P * (k - 1))
  <2>1. PICK a \in Nat \ {0} : a = 2 ^ (P * (k - 1)) BY <1>8, PowerPos
  <2>2. PICK b \in Nat \ {0} : b = 2 ^ P BY <1>1, PowerPos
  <2>3. ((val \div a) % b) * a \in 0..val BY DigitSmall
  <2> QED BY <2>1, <2>2, <2>3 DEF Codec!Digit
<1>13. Codec!Unsigned(u, Width) = u
  <2>1. u \in 0..(2 ^ Width - 1) BY <1>2, <1>3, <1>5
  <2> QED BY <1>1, <2>1, UnsignedSame
<1>14. Codec!Signed(u, Width) = u
  <2>1. u < 2 ^ (Width - 1) BY <1>2
  <2> QED BY <1>1, <2>1, SignedSame
<1>15. Codec!Unsigned(u, bits) = u
  <2>1. u \in 0..(2 ^ bits - 1) BY <1>2, <1>4, <1>5
  <2> QED BY <2>1, UnsignedSame
<1> QED BY <1>10, <1>11, <1>12, <1>13, <1>14, <1>15 DEF Codec!Shifted

\* Some digit has a bit at its place if and only if the value has it.
LEMMA HasBit ==
    ASSUME NEW val \in Nat, NEW n \in Nat, val < 2 ^ (P * n), NEW j \in Nat
    PROVE  (\E k \in 1..n : Codec!Bit(Codec!Digit(val, k) * 2 ^ (P * (k - 1)), j) = 1) <=> Codec!Bit(val, j) = 1
<1>1. P \in Nat \ {0} BY Widths
<1>2. ASSUME NEW k \in Nat \ {0}
      PROVE  Codec!Bit(Codec!Digit(val, k) * 2 ^ (P * (k - 1)), j)
                = IF P * (k - 1) <= j /\ j < P * (k - 1) + P THEN Codec!Bit(val, j) ELSE 0
  <2>1. PICK a \in Nat : a = P * (k - 1) BY <1>1
  <2>2. InPlace(val, a, P, j)
    <3>1. P \in Nat BY <1>1
    <3> QED BY <3>1, BitOfDigit, Zenon
  <2>3. Codec!Digit(val, k) * 2 ^ (P * (k - 1)) = ((val \div 2 ^ a) % 2 ^ P) * 2 ^ a
    BY ONLY <2>1, Zenon DEF Codec!Digit
  <2> QED BY ONLY <2>1, <2>2, <2>3 DEF InPlace
<1>3. ASSUME NEW k \in 1..n, Codec!Bit(Codec!Digit(val, k) * 2 ^ (P * (k - 1)), j) = 1 PROVE Codec!Bit(val, j) = 1
  <2>1. k \in Nat \ {0} OBVIOUS
  <2> QED BY <1>2, <1>3, <2>1
<1>4. ASSUME Codec!Bit(val, j) = 1
      PROVE  \E k \in 1..n : Codec!Bit(Codec!Digit(val, k) * 2 ^ (P * (k - 1)), j) = 1
  <2>1. PICK q \in Nat, r \in 0..(P - 1) : j = q * P + r BY <1>1, DivMod
  <2>2. q + 1 \in Nat \ {0} /\ (q + 1) - 1 = q OBVIOUS
  <2>3. PICK y \in Nat : y = q * P /\ y = P * q BY <1>1
  <2>4. P * ((q + 1) - 1) <= j /\ j < P * ((q + 1) - 1) + P BY <1>1, <2>1, <2>2, <2>3
  <2>5. Codec!Bit(Codec!Digit(val, q + 1) * 2 ^ (P * ((q + 1) - 1)), j) = 1 BY <1>2, <1>4, <2>2, <2>4
  <2>6. q + 1 <= n
    <3> SUFFICES ASSUME n <= q PROVE FALSE OBVIOUS
    <3>1. P * n \in Nat /\ P * n <= P * q BY <1>1
    <3>2. P * n <= j BY <1>1, <2>1, <2>3, <3>1
    <3>3. 2 ^ (P * n) <= 2 ^ j BY <3>1, <3>2, PowerMono
    <3>4. PICK J \in Nat \ {0} : J = 2 ^ j BY PowerPos
    <3>5. val \in 0..(J - 1)
      <4>1. 2 ^ (P * n) \in Nat BY <3>1, PowerPos
      <4> QED BY <3>3, <3>4, <4>1
    <3>6. val \div J = 0 BY <3>5, DivModSmall
    <3>7. 0 % 2 = 0 OBVIOUS
    <3> QED BY <1>4, <3>4, <3>6, <3>7 DEF Codec!Bit
  <2>7. q + 1 \in 1..n BY <2>6
  <2> QED BY <2>5, <2>7
<1> QED BY <1>3, <1>4

\* A positive value up to the largest int is what its bytes are read as.
LEMMA CompressedBack ==
    ASSUME NEW val \in Nat, val < 2 ^ (Width - 1), NEW bits \in Nat, Width <= bits
    PROVE  Codec!CompressedValue(Codec!CompressedBytes(val), bits) = val
<1>1. P \in Nat \ {0} /\ Width \in Nat \ {0} /\ Width - 1 \in Nat /\ 2 * Width \in Nat
      /\ Width - 1 <= 2 * Width /\ Width - 1 <= bits
  BY Widths
<1>2. val < 2 ^ (2 * Width) /\ val < 2 ^ bits
  <2>1. PICK a \in Nat : a = 2 ^ (Width - 1) BY <1>1, PowerPos
  <2>2. 2 ^ (2 * Width) \in Nat /\ 2 ^ bits \in Nat BY <1>1, PowerPos
  <2>3. a <= 2 ^ (2 * Width) /\ a <= 2 ^ bits BY <1>1, <2>1, PowerMono
  <2> QED BY <2>1, <2>2, <2>3
<1>3. PICK n \in Nat : n = Codec!Iterations(val) /\ val < 2 ^ (P * n)
  <2>1. Codec!Iterations(val) \in Nat BY <1>1, <1>2, IterationsIs
  <2> QED BY <1>2, <2>1, IterationsIs
<1> DEFINE bytes == Codec!CompressedBytes(val)
           term(j) == IF \E k \in DOMAIN bytes : Codec!Bit(Codec!Shifted(bytes[k], k - 1, bits), j - 1) = 1
                      THEN 2 ^ (j - 1) ELSE 0
           IsValue(g) == g = [j \in 0..bits |-> IF j = 0 THEN 0 ELSE g[j - 1] + term(j)]
           value == CHOOSE g : IsValue(g)
           t == [j \in 1..bits |-> term(j)]
           power == [j \in 0..bits |-> 2 ^ j]
<1>4. DOMAIN bytes = 1..n BY <1>3 DEF Codec!CompressedBytes
<1>5. Codec!CompressedValue(bytes, bits) = value[bits] BY DEF Codec!CompressedValue
<1>6. \A k \in 1..n : Codec!Shifted(bytes[k], k - 1, bits) = Codec!Digit(val, k) * 2 ^ (P * (k - 1))
  BY <1>3, ShiftedIs
<1> HIDE DEF bytes
<1>7. ASSUME NEW j \in 1..bits PROVE term(j) = Codec!Bit(val, j - 1) * 2 ^ (j - 1)
  <2>1. j - 1 \in Nat OBVIOUS
  <2>2. (\E k \in 1..n : Codec!Bit(Codec!Digit(val, k) * 2 ^ (P * (k - 1)), j - 1) = 1) <=> Codec!Bit(val, j - 1) = 1
    BY <1>3, <2>1, HasBit
  <2>3. (\E k \in DOMAIN bytes : Codec!Bit(Codec!Shifted(bytes[k], k - 1, bits), j - 1) = 1)
           <=> Codec!Bit(val, j - 1) = 1
    BY ONLY <1>4, <1>6, <2>2
  <2>4. PICK a \in Nat \ {0} : a = 2 ^ (j - 1) BY <2>1, PowerPos
  <2>5. Codec!Bit(val, j - 1) \in 0..1
    <3>1. val \div a \in Nat BY DivMod
    <3>2. (val \div a) % 2 \in 0..1 BY <3>1
    <3> QED BY <2>4, <3>2 DEF Codec!Bit
  <2>6. term(j) = IF Codec!Bit(val, j - 1) = 1 THEN a ELSE 0 BY <2>3, <2>4
  <2> HIDE DEF term
  <2> QED BY <2>4, <2>5, <2>6
<1>8. \A g : IsSum(g, t, bits) <=> IsValue(g)
  <2> TAKE g
  <2>1. \A j \in 0..bits : (IF j = 0 THEN 0 ELSE g[j - 1] + t[j]) = (IF j = 0 THEN 0 ELSE g[j - 1] + term(j))
    <3>1. \A j \in 0..bits : j # 0 => j \in 1..bits OBVIOUS
    <3> HIDE DEF term
    <3> QED BY <3>1
  <2> HIDE DEF t, term
  <2>2. [j \in 0..bits |-> IF j = 0 THEN 0 ELSE g[j - 1] + t[j]]
           = [j \in 0..bits |-> IF j = 0 THEN 0 ELSE g[j - 1] + term(j)]
    BY <2>1
  <2> QED BY <2>2 DEF IsSum
<1> HIDE DEF term
<1>9. IsSum(value, t, bits)
  <2>1. \E g : IsValue(g) BY <1>8, SumExists
  <2> HIDE DEF IsValue
  <2>2. IsValue(value) BY <2>1
  <2> QED BY <1>8, <2>2
<1> HIDE DEF value
<1>10. power \in [0..bits -> Nat \ {0}]
  <2>1. \A j \in 0..bits : j \in Nat OBVIOUS
  <2> QED BY <2>1, PowerPos
<1>11. power[0] = 1 /\ val < power[bits]
  <2>1. 0 \in 0..bits /\ bits \in 0..bits OBVIOUS
  <2> QED BY <1>2, <2>1, PowerZero
<1>12. ASSUME NEW j \in 1..bits PROVE val % power[j] = (val % power[j - 1]) + t[j]
  <2>1. j \in 0..bits /\ j - 1 \in 0..bits /\ j - 1 \in Nat /\ (j - 1) + 1 = j OBVIOUS
  <2>2. PICK a \in Nat \ {0} : a = 2 ^ (j - 1) BY <2>1, PowerPos
  <2>3. power[j] = a * 2 /\ power[j - 1] = a
    <3>1. 2 ^ ((j - 1) + 1) = 2 * 2 ^ (j - 1) BY <2>1, PowerNext
    <3> QED BY <2>1, <2>2, <3>1
  <2>4. val % (a * 2) = ((val \div a) % 2) * a + (val % a)
    <3>1. 2 \in Nat \ {0} OBVIOUS
    <3> QED BY <3>1, RestIs, Zenon
  <2>5. t[j] = ((val \div a) % 2) * a BY <1>7, <2>2 DEF Codec!Bit
  <2>6. val \div a \in Nat /\ val % a \in Nat BY ONLY DivMod, a \in Nat \ {0}, val \in Nat
  <2>7. (val \div a) % 2 \in Nat BY <2>6
  <2>8. ((val \div a) % 2) * a \in Nat BY <2>7
  <2> HIDE DEF t, power
  <2> QED BY <2>3, <2>4, <2>5, <2>6, <2>8
<1> HIDE DEF t, power
<1>13. value[bits] = val
  <2>1. Expands(val, t, bits, power) BY <1>10, <1>11, <1>12 DEF Expands
  <2> QED BY <1>9, <2>1, SumIs
<1> QED BY <1>5, <1>13 DEF bytes

----------------------------------------------------------------------------
(* What was written and not yet read.                                         *)

\* The bytes a value is written as.
Enc(it) ==
    CASE it.kind = "String" -> Codec!FixedBytes(Len(it.val), Codec!IntBytes) \o it.val
      [] it.kind \in {"Int", "Uint"} -> Codec!CompressedBytes(it.val)
      [] OTHER -> Codec!FixedBytes(it.val, it.n)

\* A value within the range of its type.
Good(it) ==
    \/ /\ it.kind = "FInt" /\ it.n \in Codec!FixedSizes /\ it.val \in Int
       /\ -(2 ^ (it.n * Bits - 1)) <= it.val /\ it.val < 2 ^ (it.n * Bits - 1)
    \/ /\ it.kind = "FUint" /\ it.n \in Codec!FixedSizes /\ it.val \in Nat /\ it.val < 2 ^ (it.n * Bits)
    \/ /\ it.kind = "Float" /\ it.n \in Codec!CompressedSizes /\ it.val \in Nat /\ it.val < 2 ^ (it.n * Bits)
    \/ /\ it.kind \in {"Int", "Uint"} /\ it.n \in Codec!CompressedSizes
       /\ it.val \in Nat /\ it.val < 2 ^ (2 * Width)
    \/ /\ it.kind = "String" /\ it.n = 0 /\ it.val \in Seq(ByteRange) /\ Len(it.val) <= MaxLen

Kinds == {"FInt", "FUint", "Float", "Int", "Uint", "String"}
Items == {it \in [kind : Kinds, n : Nat, val : Int \cup Seq(ByteRange)] : Good(it)}

LEMMA Sizes ==
    /\ Codec!FixedSizes \subseteq Nat \ {0} /\ Codec!CompressedSizes \subseteq Nat \ {0}
    /\ Codec!CompressedSizes \subseteq Codec!FixedSizes
    /\ \A n \in Codec!CompressedSizes : n * Bits \in {Width, 2 * Width}
<1>1. Codec!IntBytes \in {2, 4} /\ Width = Codec!IntBytes * Bits /\ Bits \in Nat BY Widths
<1>2. Codec!IntBytes \div 2 \in {1, 2} BY <1>1
<1>3. (2 * Codec!IntBytes) * Bits = 2 * (Codec!IntBytes * Bits) BY <1>1
<1> QED BY <1>1, <1>2, <1>3 DEF Codec!FixedSizes, Codec!CompressedSizes

LEMMA EncType ==
    ASSUME NEW it, Good(it)
    PROVE  Enc(it) \in Seq(ByteRange)
<1>1. CASE it.kind = "String"
  <2>1. Len(it.val) \in Int /\ it.val \in Seq(ByteRange) BY <1>1 DEF Good
  <2>2. Codec!IntBytes \in Nat BY Widths
  <2>3. Codec!FixedBytes(Len(it.val), Codec!IntBytes) \in Seq(ByteRange) BY <2>1, <2>2, FixedType
  <2>4. Codec!FixedBytes(Len(it.val), Codec!IntBytes) \o it.val \in Seq(ByteRange)
    <3> HIDE DEF ByteRange
    <3> QED BY <2>1, <2>3, ConcatProperties
  <2> QED BY <1>1, <2>4 DEF Enc
<1>2. CASE it.kind \in {"Int", "Uint"}
  <2>1. it.val \in Nat /\ it.val < 2 ^ (2 * Width) BY <1>2 DEF Good
  <2>2. Codec!CompressedBytes(it.val) \in Seq(ByteRange) BY <2>1, CompressedIs
  <2> QED BY <1>2, <2>2 DEF Enc
<1>3. CASE it.kind \in {"FInt", "FUint", "Float"}
  <2>1. it.val \in Int BY <1>3 DEF Good
  <2>3. it.n \in Codec!FixedSizes \/ it.n \in Codec!CompressedSizes BY <1>3 DEF Good
  <2>4. it.n \in Nat BY <2>3, Sizes
  <2>2. Codec!FixedBytes(it.val, it.n) \in Seq(ByteRange) BY <2>1, <2>4, FixedType
  <2> QED BY <1>3, <2>2 DEF Enc
<1> QED BY <1>1, <1>2, <1>3 DEF Good

\* The array d is cut at c into the bytes of the values s.
Frames(c, s, d) ==
    /\ c \in [0..Len(s) -> Nat] /\ c[0] = 0 /\ c[Len(s)] = Len(d)
    /\ \A i \in 1..Len(s) :
          /\ c[i] = c[i - 1] + Len(Enc(s[i])) /\ c[i] <= Len(d)
          /\ \A j \in 1..Len(Enc(s[i])) : d[c[i - 1] + j] = Enc(s[i])[j]

LEMMA FramesNone == \E c : Frames(c, << >>, << >>)
<1> DEFINE c == [i \in 0..0 |-> 0]
<1>1. Len(<< >>) = 0 OBVIOUS
<1>2. c \in [0..0 -> Nat] /\ c[0] = 0 OBVIOUS
<1> HIDE DEF c
<1>3. Frames(c, << >>, << >>) BY <1>1, <1>2 DEF Frames
<1> QED BY <1>3

LEMMA FramesWrite ==
    ASSUME NEW c, NEW s \in Seq(Items), NEW d \in Seq(ByteRange), Frames(c, s, d), NEW it \in Items
    PROVE  \E e : Frames(e, Append(s, it), d \o Enc(it))
<1> DEFINE n == Len(s)
           x == Enc(it)
           all == Append(s, it)
           f == d \o x
           e == [i \in 0..(n + 1) |-> IF i <= n THEN c[i] ELSE Len(f)]
<1>1. x \in Seq(ByteRange) BY EncType DEF Items
<1> HIDE DEF x, Items, ByteRange
<1>2. n \in Nat /\ Len(all) = n + 1 /\ all[n + 1] = it /\ \A i \in 1..n : all[i] = s[i] BY AppendProperties
<1>3. /\ Len(f) = Len(d) + Len(x) /\ Len(d) \in Nat /\ Len(x) \in Nat
      /\ \A j \in 1..Len(d) : f[j] = d[j]
      /\ \A j \in 1..Len(x) : f[Len(d) + j] = x[j]
  <2>1. Len(f) = Len(d) + Len(x) /\ \A j \in 1..(Len(d) + Len(x)) : f[j] = IF j <= Len(d) THEN d[j] ELSE x[j - Len(d)]
    BY <1>1, ConcatProperties
  <2>2. Len(d) \in Nat /\ Len(x) \in Nat BY <1>1, LenProperties
  <2> HIDE DEF f
  <2>3. ASSUME NEW j \in 1..Len(x) PROVE f[Len(d) + j] = x[j]
    <3>1. Len(d) + j \in 1..(Len(d) + Len(x)) /\ ~(Len(d) + j <= Len(d)) /\ (Len(d) + j) - Len(d) = j BY <2>2
    <3> QED BY <2>1, <3>1
  <2>4. ASSUME NEW j \in 1..Len(d) PROVE f[j] = d[j]
    <3>1. j \in 1..(Len(d) + Len(x)) /\ j <= Len(d) BY <2>2
    <3> QED BY <2>1, <3>1
  <2> QED BY <2>1, <2>2, <2>3, <2>4
<1>4. /\ c \in [0..n -> Nat] /\ c[0] = 0 /\ c[n] = Len(d)
      /\ \A i \in 1..n : /\ c[i] = c[i - 1] + Len(Enc(s[i])) /\ c[i] <= Len(d)
                         /\ \A j \in 1..Len(Enc(s[i])) : d[c[i - 1] + j] = Enc(s[i])[j]
  BY DEF Frames
<1> HIDE DEF n, all, f
<1>5. e \in [0..(n + 1) -> Nat] BY <1>2, <1>3, <1>4
<1>6. e[n + 1] = Len(f) /\ \A i \in 0..n : e[i] = c[i] BY <1>2
<1> HIDE DEF e
<1>7. ASSUME NEW i \in 1..(n + 1)
      PROVE  /\ e[i] = e[i - 1] + Len(Enc(all[i])) /\ e[i] <= Len(f)
             /\ \A j \in 1..Len(Enc(all[i])) : f[e[i - 1] + j] = Enc(all[i])[j]
  <2>1. CASE i = n + 1
    <3>1. i - 1 = n /\ n \in 0..n BY <1>2, <2>1
    <3>2. e[i - 1] = Len(d) BY <1>4, <1>6, <3>1
    <3>3. Enc(all[i]) = x BY <1>2, <2>1 DEF x
    <3> QED BY <1>3, <1>6, <2>1, <3>2, <3>3
  <2>2. CASE i # n + 1
    <3>1. i \in 1..n /\ i \in 0..n /\ i - 1 \in 0..n BY <1>2, <2>2
    <3>2. e[i] = c[i] /\ e[i - 1] = c[i - 1] /\ all[i] = s[i] BY <1>2, <1>6, <3>1
    <3>3. PICK l \in Nat : l = Len(Enc(s[i]))
      <4>1. s[i] \in Items BY <1>2, <3>1, ElementOfSeq DEF n
      <4>2. Enc(s[i]) \in Seq(ByteRange) BY <4>1, EncType DEF Items
      <4> QED BY <4>2, LenProperties
    <3>4. c[i] = c[i - 1] + l /\ c[i] <= Len(d) /\ c[i - 1] \in Nat BY <1>4, <3>1, <3>3
    <3>5. ASSUME NEW j \in 1..l PROVE f[c[i - 1] + j] = Enc(s[i])[j]
      <4>1. c[i - 1] + j \in 1..Len(d) BY <1>3, <3>4
      <4>2. f[c[i - 1] + j] = d[c[i - 1] + j] BY <1>3, <4>1
      <4> QED BY <1>4, <3>1, <3>3, <4>2
    <3>6. c[i] <= Len(f) BY <1>3, <3>4
    <3> QED BY <3>2, <3>3, <3>4, <3>5, <3>6
  <2> QED BY <2>1, <2>2
<1>8. e[0] = 0 BY <1>2, <1>4, <1>6
<1>9. Frames(e, all, f) BY <1>2, <1>5, <1>6, <1>7, <1>8 DEF Frames
<1> QED BY <1>9 DEF all, f, x

LEMMA FramesFirst ==
    ASSUME NEW c, NEW s \in Seq(Items), NEW d \in Seq(ByteRange), Frames(c, s, d), s # << >>
    PROVE  /\ Head(s) \in Items /\ Len(Enc(Head(s))) \in 0..Len(d)
           /\ \A j \in 1..Len(Enc(Head(s))) : d[j] = Enc(Head(s))[j]
<1> HIDE DEF Items, ByteRange
<1>1. Len(s) \in Nat \ {0} /\ Head(s) = s[1] /\ s[1] \in Items
  <2>1. Len(s) \in Nat \ {0} BY EmptySeq, LenProperties
  <2>2. 1 \in 1..Len(s) BY <2>1
  <2> QED BY <2>1, <2>2, ElementOfSeq, HeadTailProperties
<1>2. Enc(s[1]) \in Seq(ByteRange) BY <1>1, EncType DEF Items
<1>3. Len(Enc(s[1])) \in Nat /\ Len(d) \in Nat BY <1>2, LenProperties
<1>4. 1 \in 1..Len(s) /\ 1 - 1 = 0 BY <1>1
<1>5. /\ c[1] = c[1 - 1] + Len(Enc(s[1])) /\ c[1] <= Len(d) /\ c[0] = 0
      /\ \A j \in 1..Len(Enc(s[1])) : d[c[1 - 1] + j] = Enc(s[1])[j]
  BY <1>4 DEF Frames
<1>6. c[1] = Len(Enc(s[1])) BY <1>3, <1>4, <1>5
<1>7. ASSUME NEW j \in 1..Len(Enc(s[1])) PROVE d[j] = Enc(s[1])[j]
  <2>1. c[1 - 1] + j = j BY <1>3, <1>4, <1>5
  <2> QED BY <1>5, <2>1
<1> QED BY <1>1, <1>3, <1>5, <1>6, <1>7

LEMMA FramesRead ==
    ASSUME NEW c, NEW s \in Seq(Items), NEW d \in Seq(ByteRange), Frames(c, s, d), s # << >>
    PROVE  \E e : Frames(e, Tail(s), SubSeq(d, Len(Enc(Head(s))) + 1, Len(d)))
<1> DEFINE n == Len(s)
           m == Len(Enc(Head(s)))
           rest == Tail(s)
           f == SubSeq(d, m + 1, Len(d))
           e == [i \in 0..(n - 1) |-> c[i + 1] - m]
<1>1. m \in 0..Len(d) BY FramesFirst
<1> HIDE DEF m, Items, ByteRange
<1>2. n \in Nat \ {0} /\ Len(rest) = n - 1 /\ Head(s) = s[1] /\ \A i \in 1..(n - 1) : rest[i] = s[i + 1]
  <2>1. n \in Nat \ {0} BY EmptySeq, LenProperties
  <2> QED BY <2>1, HeadTailProperties
<1>3. Len(d) \in Nat BY LenProperties
<1>4. Len(f) = Len(d) - m /\ \A j \in 1..(Len(d) - m) : f[j] = d[m + j]
  <2>1. m + 1 \in 1..(Len(d) + 1) /\ Len(d) \in m..Len(d) BY <1>1, <1>3
  <2>2. /\ Len(f) = IF m + 1 <= Len(d) THEN Len(d) - (m + 1) + 1 ELSE 0
        /\ \A j \in 1..(Len(d) - (m + 1) + 1) : f[j] = d[(m + 1) + j - 1]
    BY <2>1, SubSeqProperties
  <2>3. Len(d) - (m + 1) + 1 = Len(d) - m /\ \A j \in Nat : (m + 1) + j - 1 = m + j BY <1>1, <1>3
  <2>4. Len(f) = Len(d) - m BY <1>1, <1>3, <2>2
  <2>5. ASSUME NEW j \in 1..(Len(d) - m) PROVE f[j] = d[m + j]
    <3>1. (m + 1) + j - 1 = m + j /\ j \in 1..(Len(d) - (m + 1) + 1) BY <1>1, <1>3
    <3> HIDE DEF f
    <3> QED BY <2>2, <3>1
  <2> QED BY <2>4, <2>5
<1>5. /\ c \in [0..n -> Nat] /\ c[0] = 0 /\ c[n] = Len(d)
      /\ \A i \in 1..n : /\ c[i] = c[i - 1] + Len(Enc(s[i])) /\ c[i] <= Len(d)
                         /\ \A j \in 1..Len(Enc(s[i])) : d[c[i - 1] + j] = Enc(s[i])[j]
  BY DEF Frames
<1> HIDE DEF n, rest, f
<1>6. \A i \in 1..n : s[i] \in Items /\ Len(Enc(s[i])) \in Nat
  <2> TAKE i \in 1..n
  <2>1. s[i] \in Items BY <1>2, ElementOfSeq DEF n
  <2>2. Enc(s[i]) \in Seq(ByteRange) BY <2>1, EncType DEF Items
  <2> QED BY <2>1, <2>2, LenProperties
<1>7. c[1] = m
  <2>1. 1 \in 1..n /\ 1 - 1 = 0 BY <1>2
  <2> QED BY <1>1, <1>2, <1>3, <1>5, <2>1 DEF m
<1>8. \A i \in 1..n : m <= c[i]
  <2> DEFINE Q == {k \in Nat : k + 1 <= n => m <= c[k + 1]}
  <2>1. 0 \in Q BY <1>1, <1>7
  <2>2. ASSUME NEW k \in Nat, k \in Q PROVE k + 1 \in Q
    <3> SUFFICES ASSUME (k + 1) + 1 <= n PROVE m <= c[(k + 1) + 1] OBVIOUS
    <3>1. k + 1 <= n /\ (k + 1) + 1 \in 1..n /\ ((k + 1) + 1) - 1 = k + 1 /\ k + 1 \in 0..n BY <1>2
    <3>2. PICK l \in Nat : l = Len(Enc(s[(k + 1) + 1])) BY <1>6, <3>1
    <3>3. c[(k + 1) + 1] = c[k + 1] + l /\ c[k + 1] \in Nat BY <1>5, <3>1, <3>2
    <3>4. m <= c[k + 1] BY <2>2, <3>1
    <3> QED BY <1>1, <1>3, <3>3, <3>4
  <2>3. Nat \subseteq Q
    <3> HIDE DEF Q
    <3> QED BY <2>1, <2>2, Induct
  <2> TAKE i \in 1..n
  <2>5. i - 1 \in Nat /\ (i - 1) + 1 = i /\ i <= n BY <1>2
  <2>4. i - 1 \in Q BY <2>3, <2>5
  <2> QED BY <2>4, <2>5
<1>9. e \in [0..(n - 1) -> Nat]
  <2>1. ASSUME NEW i \in 0..(n - 1) PROVE c[i + 1] - m \in Nat
    <3>1. i + 1 \in 1..n /\ i + 1 \in 0..n BY <1>2
    <3>2. m <= c[i + 1] /\ c[i + 1] \in Nat BY <1>5, <1>8, <3>1
    <3> QED BY <1>1, <1>3, <3>2
  <2> QED BY <2>1
<1>10. \A i \in 0..(n - 1) : e[i] = c[i + 1] - m OBVIOUS
<1> HIDE DEF e
<1>11. e[0] = 0 /\ e[n - 1] = Len(f)
  <2>1. 0 \in 0..(n - 1) /\ n - 1 \in 0..(n - 1) /\ (n - 1) + 1 = n /\ 0 + 1 = 1 BY <1>2
  <2>2. e[0] = c[1] - m BY <1>10, <2>1
  <2>3. e[n - 1] = c[n] - m BY <1>10, <2>1
  <2> QED BY <1>1, <1>3, <1>4, <1>5, <1>7, <2>2, <2>3
<1>12. ASSUME NEW i \in 1..(n - 1)
       PROVE  /\ e[i] = e[i - 1] + Len(Enc(rest[i])) /\ e[i] <= Len(f)
              /\ \A j \in 1..Len(Enc(rest[i])) : f[e[i - 1] + j] = Enc(rest[i])[j]
  <2>1. i \in 0..(n - 1) /\ i - 1 \in 0..(n - 1) /\ (i - 1) + 1 = i /\ i + 1 \in 1..n /\ (i + 1) - 1 = i
        /\ i \in 1..n /\ i \in 0..n /\ i + 1 \in 0..n
    BY <1>2
  <2>2. rest[i] = s[i + 1] BY <1>2
  <2>3. PICK l \in Nat : l = Len(Enc(s[i + 1])) BY <1>6, <2>1
  <2>4. e[i] = c[i + 1] - m /\ e[i - 1] = c[i] - m /\ c[i] \in Nat /\ c[i + 1] \in Nat BY <1>5, <1>10, <2>1
  <2>5. c[i + 1] = c[i] + l /\ c[i + 1] <= Len(d) /\ \A j \in 1..l : d[c[i] + j] = Enc(s[i + 1])[j]
    BY <1>5, <2>1, <2>3
  <2>6. e[i] = e[i - 1] + l /\ e[i] <= Len(f)
    <3>1. PICK x \in Nat, y \in Nat : x = c[i] /\ y = Len(d) BY <1>3, <2>4
    <3>2. e[i - 1] = x - m /\ e[i] = (x + l) - m /\ x + l <= y /\ m \in Nat BY ONLY <1>1, <1>3, <2>4, <2>5, <3>1
    <3>3. Len(f) = y - m BY ONLY <1>4, <3>1
    <3>4. (x + l) - m = (x - m) + l /\ (x + l) - m <= y - m BY ONLY <3>1, <3>2, l \in Nat
    <3> QED BY ONLY <3>2, <3>3, <3>4, Zenon
  <2>7. ASSUME NEW j \in 1..l PROVE f[e[i - 1] + j] = Enc(s[i + 1])[j]
    <3>1. m <= c[i] BY <1>8, <2>1
    <3>0. PICK x \in Nat, y \in Nat : x = c[i] /\ y = Len(d) BY <1>3, <2>4
    <3>4. e[i - 1] = x - m /\ x + l <= y /\ m <= x /\ m \in Nat BY <1>1, <1>3, <2>4, <2>5, <3>0, <3>1
    <3>5. (x - m) + j \in 1..(y - m) /\ m + ((x - m) + j) = x + j BY <3>4
    <3>2. e[i - 1] + j \in 1..(Len(d) - m) /\ m + (e[i - 1] + j) = c[i] + j BY <3>0, <3>4, <3>5
    <3>3. f[e[i - 1] + j] = d[c[i] + j] BY <1>4, <3>2
    <3> QED BY <2>5, <3>3
  <2> QED BY <2>2, <2>3, <2>6, <2>7
<1>13. Frames(e, rest, f) BY <1>2, <1>9, <1>11, <1>12 DEF Frames
<1> QED BY <1>13 DEF rest, f, m

----------------------------------------------------------------------------
(* The writers.                                                               *)

\* One more value is written.
Written(it) ==
    /\ status = "ok" /\ count < MaxItems /\ count' = count + 1
    /\ pending' = Append(pending, it) /\ data' = data \o Enc(it)
    /\ synced' = (synced /\ Enc(it) # << >>)
    /\ last' = last /\ status' = status

\* The writer's loop does not end.
LostWriting == status' = "writing" /\ UNCHANGED <<data, pending, last, count, synced>>

LEMMA WrittenIs ==
    ASSUME NEW kind \in Kinds, NEW n \in Nat, NEW val \in Int \cup Seq(ByteRange),
           Good([kind |-> kind, n |-> n, val |-> val]),
           Codec!WriteItem(kind, n, val, Enc([kind |-> kind, n |-> n, val |-> val]))
    PROVE  \E it \in Items : Written(it)
<1> DEFINE it == [kind |-> kind, n |-> n, val |-> val]
<1>1. it \in [kind : Kinds, n : Nat, val : Int \cup Seq(ByteRange)] OBVIOUS
<1>2. it \in Items BY <1>1 DEF Items
<1>3. Codec!WriteItem(kind, n, val, Enc(it)) OBVIOUS
<1>4. /\ status = "ok" /\ count < MaxItems /\ count' = count + 1
      /\ pending' = Append(pending, it) /\ data' = data \o Enc(it)
      /\ synced' = (synced /\ Enc(it) # << >>)
      /\ last' = last /\ status' = status
  BY <1>3 DEF Codec!WriteItem
<1> HIDE DEF it
<1>5. Written(it) BY <1>4, Zenon DEF Written
<1> QED BY <1>2, <1>5

LEMMA FixedWritten ==
    ASSUME NEW kind \in {"FInt", "FUint", "Float"}, NEW n \in Nat, NEW val \in Int,
           Good([kind |-> kind, n |-> n, val |-> val]), Codec!WriteItem(kind, n, val, Codec!FixedBytes(val, n))
    PROVE  \E it \in Items : Written(it)
<1>1. Enc([kind |-> kind, n |-> n, val |-> val]) = Codec!FixedBytes(val, n) BY DEF Enc
<1>2. kind \in Kinds /\ val \in Int \cup Seq(ByteRange) BY DEF Kinds
<1> QED BY <1>1, <1>2, WrittenIs

LEMMA CompressedWritten ==
    ASSUME NEW kind \in {"Int", "Uint"}, NEW n \in Codec!CompressedSizes, NEW arg \in Int, NEW val,
           val \in Int, val >= 0 => arg = val /\ val < 2 ^ (2 * Width), Codec!WriteCompressed(kind, n, val, arg)
    PROVE  (\E it \in Items : Written(it)) \/ LostWriting
<1>1. CASE val < 0 /\ status' = "writing" /\ UNCHANGED <<data, pending, last, count, synced>>
  BY <1>1 DEF LostWriting
<1>2. CASE val >= 0 /\ Codec!WriteItem(kind, n, arg, Codec!CompressedBytes(val))
  <2>1. arg = val /\ val \in Nat /\ val < 2 ^ (2 * Width) BY <1>2
  <2>2. Enc([kind |-> kind, n |-> n, val |-> val]) = Codec!CompressedBytes(val) BY DEF Enc
  <2>3. kind \in Kinds /\ val \in Int \cup Seq(ByteRange) BY <2>1 DEF Kinds
  <2>4. n \in Nat BY Sizes
  <2>5. Good([kind |-> kind, n |-> n, val |-> val]) BY <2>1 DEF Good
  <2>6. Codec!WriteItem(kind, n, val, Codec!CompressedBytes(val)) BY <1>2, <2>1
  <2> QED BY <2>2, <2>3, <2>4, <2>5, <2>6, WrittenIs
<1> QED BY <1>1, <1>2 DEF Codec!WriteCompressed

LEMMA WriteEffect ==
    ASSUME Codec!Write
    PROVE  (\E it \in Items : Written(it)) \/ LostWriting
<1>0. Codec!ByteBits = Bits /\ Values \subseteq Int BY Widths, CodecAssumption
<1>1. ASSUME NEW n \in Codec!FixedSizes, NEW v \in Codec!SignedValues(n), Codec!writeFInt(n, v)
      PROVE  \E it \in Items : Written(it)
  <2>1. v \in Int /\ -(2 ^ (n * Bits - 1)) <= v /\ v < 2 ^ (n * Bits - 1) BY <1>0 DEF Codec!SignedValues
  <2>2. n \in Nat BY Sizes
  <2>3. Good([kind |-> "FInt", n |-> n, val |-> v]) BY <2>1 DEF Good
  <2> QED BY <1>1, <2>1, <2>2, <2>3, FixedWritten DEF Codec!writeFInt
<1>2. ASSUME NEW n \in Codec!FixedSizes, NEW v \in Codec!UnsignedValues(n), Codec!writeFUint(n, v)
      PROVE  \E it \in Items : Written(it)
  <2>1. v \in Nat /\ v \in Int /\ v < 2 ^ (n * Bits) BY <1>0 DEF Codec!UnsignedValues
  <2>2. n \in Nat BY Sizes
  <2>3. Good([kind |-> "FUint", n |-> n, val |-> v]) BY <2>1 DEF Good
  <2> QED BY <1>2, <2>1, <2>2, <2>3, FixedWritten DEF Codec!writeFUint
<1>3. ASSUME NEW n \in Codec!CompressedSizes, NEW v \in Codec!UnsignedValues(n), Codec!writeFloat(n, v)
      PROVE  \E it \in Items : Written(it)
  <2>1. v \in Nat /\ v \in Int /\ v < 2 ^ (n * Bits) BY <1>0 DEF Codec!UnsignedValues
  <2>2. n \in Nat BY Sizes
  <2>3. Good([kind |-> "Float", n |-> n, val |-> v]) BY <2>1 DEF Good
  <2> QED BY <1>3, <2>1, <2>2, <2>3, FixedWritten DEF Codec!writeFloat
<1>4. ASSUME NEW n \in Codec!CompressedSizes
      PROVE  /\ n * Bits \in Nat \ {0} /\ n * Bits - 1 \in Nat
             /\ 2 ^ (n * Bits) <= 2 ^ (2 * Width) /\ 2 ^ (n * Bits - 1) <= 2 ^ (2 * Width)
             /\ 2 ^ (n * Bits) \in Nat /\ 2 ^ (n * Bits - 1) \in Nat /\ 2 ^ (2 * Width) \in Nat
  <2>1. n * Bits \in {Width, 2 * Width} /\ Width \in Nat \ {0} BY Sizes, Widths
  <2>2. n * Bits \in Nat \ {0} /\ n * Bits - 1 \in Nat /\ 2 * Width \in Nat
        /\ n * Bits <= 2 * Width /\ n * Bits - 1 <= 2 * Width
    BY <2>1
  <2> QED BY <2>2, PowerMono, PowerPos
<1>5. ASSUME NEW n \in Codec!CompressedSizes, NEW v \in Codec!SignedValues(n), Codec!writeInt(n, v)
      PROVE  (\E it \in Items : Written(it)) \/ LostWriting
  <2>1. v \in Int /\ v < 2 ^ (n * Bits - 1) BY <1>0 DEF Codec!SignedValues
  <2>2. v < 2 ^ (2 * Width) BY <1>4, <2>1
  <2> QED BY <1>5, <2>1, <2>2, CompressedWritten DEF Codec!writeInt
<1>6. ASSUME NEW n \in Codec!CompressedSizes, NEW v \in Codec!UnsignedValues(n), Codec!writeUint(n, v)
      PROVE  (\E it \in Items : Written(it)) \/ LostWriting
  <2>1. v \in Nat /\ v \in Int /\ v < 2 ^ (n * Bits) BY <1>0 DEF Codec!UnsignedValues
  <2>2. v < 2 ^ (2 * Width) /\ v \in 0..(2 ^ (n * Bits) - 1) BY <1>4, <2>1
  <2>3. PICK x : x = Codec!Signed(v, n * Bits) OBVIOUS
  <2>4. x \in Int BY <1>4, <2>1, <2>3 DEF Codec!Signed
  <2>5. x >= 0 => v = x /\ x < 2 ^ (2 * Width) BY <1>4, <2>2, <2>3, SignedNonNegative
  <2>6. Codec!WriteCompressed("Uint", n, x, v) BY <1>0, <1>6, <2>3 DEF Codec!writeUint
  <2> QED BY <2>1, <2>4, <2>5, <2>6, CompressedWritten
<1>7. ASSUME NEW str \in Codec!Strings, Codec!writeString(str)
      PROVE  \E it \in Items : Written(it)
  <2>1. PICK n \in 0..MaxLen : str \in [1..n -> Chars] BY DEF Codec!Strings
  <2>2. MaxLen \in Nat /\ Chars \subseteq ByteRange BY CodecAssumption DEF ByteRange, Bits
  <2> HIDE DEF ByteRange
  <2>3. str \in [1..n -> ByteRange] /\ n \in Nat /\ n <= MaxLen BY <2>1, <2>2
  <2>4. str \in Seq(ByteRange) /\ Len(str) = n BY <2>3, IsASeq
  <2>5. Good([kind |-> "String", n |-> 0, val |-> str]) BY <2>3, <2>4 DEF Good
  <2>6. Enc([kind |-> "String", n |-> 0, val |-> str]) = Codec!FixedBytes(Len(str), Codec!IntBytes) \o str BY DEF Enc
  <2>7. "String" \in Kinds /\ str \in Int \cup Seq(ByteRange) /\ 0 \in Nat BY <2>4 DEF Kinds
  <2> QED BY <1>7, <2>5, <2>6, <2>7, WrittenIs DEF Codec!writeString
<1> QED BY <1>1, <1>2, <1>3, <1>5, <1>6, <1>7 DEF Codec!Write

----------------------------------------------------------------------------
(* The readers.                                                               *)

\* The bytes of a value are the first of the array.
AtHead(it) ==
    /\ Good(it) /\ data \in Seq(ByteRange) /\ Len(Enc(it)) \in 1..Len(data)
    /\ \A j \in 1..Len(Enc(it)) : data[j] = Enc(it)[j]

\* The reader takes these bytes and, if it can, gives the value back.
ReadBack(it) ==
    \E got :
        /\ Codec!ReadItem(got) /\ data' = Codec!Rest(Len(Enc(it)))
        /\ (it.kind \in {"Int", "Uint"} => it.val < 2 ^ (Width - 1)) => got = {it.val}

LEMMA Prefix ==
    ASSUME NEW S, NEW d \in Seq(S), NEW x \in Seq(S), Len(x) <= Len(d), \A j \in 1..Len(x) : d[j] = x[j]
    PROVE  SubSeq(d, 1, Len(x)) = x
<1>1. Len(x) \in Nat /\ Len(d) \in Nat BY LenProperties
<1>2. 1 \in 1..(Len(d) + 1) /\ Len(x) \in 0..Len(d) BY <1>1
<1> DEFINE f == SubSeq(d, 1, Len(x))
<1>3. /\ f \in Seq(S) /\ Len(f) = Len(x) /\ \A j \in 1..Len(x) : f[j] = d[j]
  <2>1. /\ f \in Seq(S) /\ Len(f) = IF 1 <= Len(x) THEN Len(x) - 1 + 1 ELSE 0
        /\ \A j \in 1..(Len(x) - 1 + 1) : f[j] = d[1 + j - 1]
    BY <1>1, <1>2, SubSeqProperties
  <2>2. \A j \in Nat : 1 + j - 1 = j OBVIOUS
  <2>3. Len(x) - 1 + 1 = Len(x) BY <1>1
  <2> HIDE DEF f
  <2> QED BY <1>1, <2>1, <2>2, <2>3
<1> HIDE DEF f
<1>4. f = x BY <1>3, SeqEqual
<1> QED BY <1>4 DEF f

LEMMA FixedRead ==
    ASSUME NEW it, AtHead(it), it.kind \in {"FInt", "FUint", "Float"},
           NEW signed \in BOOLEAN, signed <=> it.kind = "FInt", Codec!ReadBytes(it.n, signed)
    PROVE  ReadBack(it)
<1>1. Enc(it) = Codec!FixedBytes(it.val, it.n) BY DEF Enc
<1>2. it.val \in Int BY DEF AtHead, Good
<1>3. PICK n \in Nat \ {0} : n = it.n
  <2>1. it.n \in Codec!FixedSizes \/ it.n \in Codec!CompressedSizes BY DEF AtHead, Good
  <2> QED BY <2>1, Sizes
<1>4. PICK val \in Int : val = it.val BY <1>2
<1>5. Enc(it) \in Seq(ByteRange) /\ Len(Enc(it)) = n BY <1>1, <1>3, <1>4, FixedType
<1>6. Len(data) \in Nat /\ n <= Len(data) BY <1>5, LenProperties DEF AtHead
<1>7. SubSeq(data, 1, n) = Codec!FixedBytes(val, n)
  <2>1. SubSeq(data, 1, Len(Enc(it))) = Enc(it)
    <3>1. Len(Enc(it)) <= Len(data) /\ data \in Seq(ByteRange) BY <1>5, <1>6 DEF AtHead
    <3>2. \A j \in 1..Len(Enc(it)) : data[j] = Enc(it)[j] BY DEF AtHead
    <3> QED BY <1>5, <3>1, <3>2, Prefix
  <2> QED BY <1>1, <1>3, <1>4, <1>5, <2>1
<1>8. Codec!FixedValue(SubSeq(data, 1, n)) = Codec!Unsigned(val, n * Bits) BY <1>7, FixedBack
<1>9. Codec!ByteBits = Bits /\ Bits \in Nat \ {0} BY Widths
<1> HIDE DEF Bits
<1>10. n * Bits \in Nat \ {0} BY <1>9
<1>11. Codec!AsType(Codec!Unsigned(val, n * Bits), n, signed) = val
  <2>1. CASE it.kind = "FInt"
    <3>1. -(2 ^ (n * Bits - 1)) <= val /\ val < 2 ^ (n * Bits - 1) BY <1>3, <1>4, <2>1 DEF AtHead, Good
    <3>2. Codec!Signed(Codec!Unsigned(val, n * Bits), n * Bits) = val BY <1>10, <3>1, SignedBack
    <3> QED BY <1>9, <2>1, <3>2 DEF Codec!AsType
  <2>2. CASE it.kind # "FInt"
    <3>1. val \in Nat /\ val < 2 ^ (n * Bits) BY <1>3, <1>4, <2>2 DEF AtHead, Good
    <3>2. 2 ^ (n * Bits) \in Nat BY <1>10, PowerPos
    <3>3. val \in 0..(2 ^ (n * Bits) - 1) BY <3>1, <3>2
    <3>4. Codec!Unsigned(val, n * Bits) = val BY <1>10, <3>3, UnsignedSame
    <3> QED BY <2>2, <3>4 DEF Codec!AsType
  <2> QED BY <2>1, <2>2
<1>12. Codec!ReadItem({val}) /\ data' = Codec!Rest(n)
  <2>1. ~(n > Len(data)) BY <1>6
  <2>2. /\ Codec!ReadItem({Codec!AsType(Codec!FixedValue(SubSeq(data, 1, n)), n, signed)})
        /\ data' = Codec!Rest(n)
    BY <1>3, <2>1 DEF Codec!ReadBytes
  <2> QED BY <1>8, <1>11, <2>2
<1>13. data' = Codec!Rest(Len(Enc(it))) /\ {val} = {it.val} BY <1>4, <1>5, <1>12
<1> QED BY <1>12, <1>13 DEF ReadBack

LEMMA CompressedRead ==
    ASSUME NEW it, AtHead(it), it.kind \in {"Int", "Uint"},
           NEW signed \in BOOLEAN, Codec!ReadCompressed(it.n, signed)
    PROVE  ReadBack(it)
<1>1. Enc(it) = Codec!CompressedBytes(it.val) BY DEF Enc
<1>2. PICK val \in Nat : val = it.val /\ val < 2 ^ (2 * Width) BY DEF AtHead, Good
<1>3. PICK n \in Codec!CompressedSizes : n = it.n BY DEF AtHead, Good
<1>4. PICK N : N = Codec!Iterations(val) OBVIOUS
<1>5. /\ Enc(it) \in Seq(ByteRange) /\ Len(Enc(it)) = N
      /\ \A k \in 1..N : Codec!Marked(Enc(it)[k]) <=> k = N
  BY <1>1, <1>2, <1>4, CompressedIs
<1>6. N \in Nat /\ Len(data) \in Nat /\ N \in 1..Len(data) /\ \A j \in 1..N : data[j] = Enc(it)[j]
  BY <1>5, LenProperties DEF AtHead
<1> DEFINE marks == {k \in 1..Len(data) : Codec!Marked(data[k])}
<1>7. N \in marks /\ \A y \in marks : N <= y
  <2>1. N \in 1..N BY <1>6
  <2>2. Codec!Marked(data[N]) BY <1>5, <1>6, <2>1
  <2>3. ASSUME NEW y \in marks, ~(N <= y) PROVE FALSE
    <3>1. y \in 1..N /\ y # N BY <1>6, <2>3
    <3>2. data[y] = Enc(it)[y] BY <1>6, <3>1
    <3>3. ~Codec!Marked(Enc(it)[y]) BY <1>5, <3>1
    <3> QED BY <3>2, <3>3
  <2> QED BY <1>6, <2>2, <2>3
<1>8. Codec!Min(marks) = N
  <2>1. marks \subseteq Nat BY <1>6
  <2> HIDE DEF marks
  <2>2. \A x \in marks : (\A y \in marks : x <= y) => x = N BY <1>6, <1>7, <2>1
  <2>3. \E x \in marks : \A y \in marks : x <= y BY <1>7
  <2> QED BY <2>2, <2>3 DEF Codec!Min
<1>9. /\ Codec!ReadItem({Codec!AsType(Codec!CompressedValue(SubSeq(data, 1, N), n * Codec!ByteBits), n, signed)})
      /\ data' = Codec!Rest(N)
  <2>1. marks # {} BY <1>7
  <2>2. Codec!ReadCompressed(n, signed) BY <1>3
  <2> QED BY <1>8, <2>1, <2>2 DEF Codec!ReadCompressed
<1>10. SubSeq(data, 1, N) = Codec!CompressedBytes(val)
  <2>1. SubSeq(data, 1, Len(Enc(it))) = Enc(it)
    <3>1. Len(Enc(it)) <= Len(data) /\ data \in Seq(ByteRange) BY <1>5, <1>6 DEF AtHead
    <3>2. \A j \in 1..Len(Enc(it)) : data[j] = Enc(it)[j] BY DEF AtHead
    <3> QED BY <1>5, <3>1, <3>2, Prefix
  <2> QED BY <1>1, <1>2, <1>5, <2>1
<1>11. Codec!ByteBits = Bits /\ Width \in Nat \ {0} /\ n * Bits \in {Width, 2 * Width} BY Widths, Sizes
<1> HIDE DEF Bits, marks
<1>12. PICK bits \in Nat \ {0} : bits = n * Bits /\ Width <= bits BY <1>11
<1>13. ASSUME val < 2 ^ (Width - 1)
       PROVE  Codec!AsType(Codec!CompressedValue(SubSeq(data, 1, N), n * Codec!ByteBits), n, signed) = val
  <2>1. Codec!CompressedValue(Codec!CompressedBytes(val), bits) = val BY <1>12, <1>13, CompressedBack
  <2>2. Codec!Signed(val, bits) = val
    <3>1. Width - 1 \in Nat /\ bits - 1 \in Nat /\ Width - 1 <= bits - 1 BY <1>11, <1>12
    <3>2. 2 ^ (Width - 1) <= 2 ^ (bits - 1) /\ 2 ^ (Width - 1) \in Nat /\ 2 ^ (bits - 1) \in Nat
      BY <3>1, PowerMono, PowerPos
    <3>3. val < 2 ^ (bits - 1) BY <1>13, <3>2
    <3> QED BY <3>3, SignedSame
  <2> QED BY <1>10, <1>11, <1>12, <2>1, <2>2 DEF Codec!AsType
<1>14. PICK got : /\ got = {Codec!AsType(Codec!CompressedValue(SubSeq(data, 1, N), n * Codec!ByteBits), n, signed)}
                  /\ Codec!ReadItem(got)
  BY <1>9
<1>15. it.val < 2 ^ (Width - 1) => got = {it.val} BY <1>2, <1>13, <1>14
<1>16. data' = Codec!Rest(Len(Enc(it))) BY <1>5, <1>9
<1> QED BY <1>14, <1>15, <1>16 DEF ReadBack

LEMMA StringRead ==
    ASSUME NEW it, AtHead(it), it.kind = "String", Codec!readString
    PROVE  ReadBack(it)
<1>1. PICK B \in Nat \ {0} : B = Codec!IntBytes /\ B * Bits = Width BY Widths
<1>2. PICK str \in Seq(ByteRange) : str = it.val /\ Len(str) <= MaxLen BY DEF AtHead, Good
<1>3. PICK n \in Nat : n = Len(str) BY <1>2, LenProperties
<1> DEFINE h == Codec!FixedBytes(n, B)
           rest == Codec!Rest(B)
<1>4. h \in Seq(ByteRange) /\ Len(h) = B BY FixedType
<1>5. Enc(it) = h \o str BY <1>1, <1>2, <1>3 DEF Enc
<1>6. data \in Seq(ByteRange) BY DEF AtHead
<1> HIDE DEF h, ByteRange, Bits
<1>7. PICK l \in Nat : l = Len(data) BY <1>6, LenProperties
<1>8. /\ Len(Enc(it)) = B + n
      /\ \A j \in 1..B : Enc(it)[j] = h[j]
      /\ \A j \in 1..n : Enc(it)[B + j] = str[j]
  <2>1. /\ Len(h \o str) = B + n
        /\ \A j \in 1..(B + n) : (h \o str)[j] = IF j <= B THEN h[j] ELSE str[j - B]
    BY <1>3, <1>4, ConcatProperties
  <2>2. ASSUME NEW j \in 1..B PROVE (h \o str)[j] = h[j]
    <3>1. j \in 1..(B + n) /\ j <= B OBVIOUS
    <3> QED BY <2>1, <3>1
  <2>3. ASSUME NEW j \in 1..n PROVE (h \o str)[B + j] = str[j]
    <3>1. B + j \in 1..(B + n) /\ ~(B + j <= B) /\ (B + j) - B = j OBVIOUS
    <3> QED BY <2>1, <3>1
  <2> QED BY <1>5, <2>1, <2>2, <2>3
<1>9. B + n <= l /\ \A j \in 1..(B + n) : data[j] = Enc(it)[j] BY <1>7, <1>8 DEF AtHead
<1>10. SubSeq(data, 1, B) = h
  <2>1. \A j \in 1..B : data[j] = h[j]
    <3> TAKE j \in 1..B
    <3>1. j \in 1..(B + n) OBVIOUS
    <3> QED BY <1>8, <1>9, <3>1
  <2>2. B <= l BY <1>9
  <2>3. SubSeq(data, 1, Len(h)) = h BY <1>4, <1>6, <1>7, <2>1, <2>2, Prefix
  <2> QED BY <1>4, <2>3
<1>11. Codec!FixedValue(h) = n
  <2>1. n \in 0..(2 ^ Width - 1)
    <3>1. Width \in Nat BY Widths
    <3>2. PICK m \in Nat : m = 2 ^ Width BY <3>1, PowerPos
    <3>3. MaxLen \in Nat /\ MaxLen < m BY <3>2, CodecAssumption
    <3>4. n <= MaxLen BY <1>2, <1>3
    <3> QED BY <3>2, <3>3, <3>4
  <2>2. Width \in Nat BY Widths
  <2>3. Codec!Unsigned(n, B * Bits) = n BY <1>1, <2>1, <2>2, UnsignedSame
  <2>4. n \in Int OBVIOUS
  <2>5. Codec!FixedValue(h) = Codec!Unsigned(n, B * Bits) BY <2>4, FixedBack DEF h
  <2> QED BY <2>3, <2>5
<1>12. /\ rest \in Seq(ByteRange) /\ Len(rest) = l - B /\ \A j \in 1..n : rest[j] = str[j]
  <2>1. B + 1 \in 1..(l + 1) /\ l \in B..l BY <1>9
  <2>2. /\ SubSeq(data, B + 1, l) \in Seq(ByteRange)
        /\ Len(SubSeq(data, B + 1, l)) = IF B + 1 <= l THEN l - (B + 1) + 1 ELSE 0
        /\ \A j \in 1..(l - (B + 1) + 1) : SubSeq(data, B + 1, l)[j] = data[(B + 1) + j - 1]
    BY <1>6, <1>7, <2>1, SubSeqProperties
  <2>3. rest = SubSeq(data, B + 1, l) BY <1>7 DEF Codec!Rest
  <2>4. Len(rest) = l - B BY <1>9, <2>2, <2>3
  <2>5. ASSUME NEW j \in 1..n PROVE rest[j] = str[j]
    <3>1. j \in 1..(l - (B + 1) + 1) /\ (B + 1) + j - 1 = B + j /\ B + j \in 1..(B + n) BY <1>9
    <3>2. rest[j] = data[B + j] BY <2>2, <2>3, <3>1
    <3> QED BY <1>8, <1>9, <3>1, <3>2
  <2> QED BY <2>2, <2>3, <2>4, <2>5
<1> HIDE DEF rest
<1>13. SubSeq(rest, 1, n) = str
  <2>1. n <= l - B BY <1>9
  <2> QED BY <1>2, <1>3, <1>12, <2>1, Prefix
<1>14. Codec!ReadItem({str}) /\ data' = Codec!Rest(B + n)
  <2>1. ~(l < B) /\ ~(n > l - B) BY <1>9
  <2> QED BY <1>1, <1>7, <1>10, <1>11, <1>12, <1>13, <2>1 DEF Codec!readString, rest
<1>15. data' = Codec!Rest(Len(Enc(it))) /\ {str} = {it.val} BY <1>2, <1>8, <1>14
<1> QED BY <1>14, <1>15 DEF ReadBack

\* Whatever is read, the value at the head of the array is read by the reader
\* of its type.
LEMMA ReadRight ==
    ASSUME pending # << >>, AtHead(Head(pending)), Codec!Read
    PROVE  ReadBack(Head(pending))
<1> DEFINE it == Head(pending)
<1>0. AtHead(it) OBVIOUS
<1>1. ASSUME NEW n, Codec!readFInt(n) PROVE ReadBack(it)
  <2>1. it.kind = "FInt" /\ it.n = n /\ Codec!ReadBytes(n, TRUE) BY <1>1 DEF Codec!readFInt, Codec!Expect
  <2> HIDE DEF it
  <2> QED BY <1>0, <2>1, FixedRead
<1>2. ASSUME NEW n, Codec!readFUint(n) PROVE ReadBack(it)
  <2>1. it.kind = "FUint" /\ it.n = n /\ Codec!ReadBytes(n, FALSE) BY <1>2 DEF Codec!readFUint, Codec!Expect
  <2> HIDE DEF it
  <2> QED BY <1>0, <2>1, FixedRead
<1>3. ASSUME NEW n, Codec!readFloat(n) PROVE ReadBack(it)
  <2>1. it.kind = "Float" /\ it.n = n BY <1>3 DEF Codec!readFloat, Codec!Expect
  <2>2. Codec!ReadBytes(n, FALSE)
    <3>1. Enc(it) = Codec!FixedBytes(it.val, n) BY <2>1 DEF Enc
    <3>2. it.val \in Int /\ n \in Codec!CompressedSizes BY <1>0, <2>1 DEF AtHead, Good
    <3>3. n \in Nat BY <3>2, Sizes
    <3>4. Len(Enc(it)) = n BY <3>1, <3>2, <3>3, FixedType
    <3>5. Len(data) \in Nat BY <1>0, LenProperties DEF AtHead
    <3>6. ~(n > Len(data)) BY <1>0, <3>3, <3>4, <3>5 DEF AtHead
    <3> QED BY <1>3, <3>6 DEF Codec!readFloat
  <2> HIDE DEF it
  <2> QED BY <1>0, <2>1, <2>2, FixedRead
<1>4. ASSUME NEW n, Codec!readInt(n) PROVE ReadBack(it)
  <2>1. it.kind = "Int" /\ it.n = n /\ Codec!ReadCompressed(n, TRUE) BY <1>4 DEF Codec!readInt, Codec!Expect
  <2> HIDE DEF it
  <2> QED BY <1>0, <2>1, CompressedRead
<1>5. ASSUME NEW n, Codec!readUint(n) PROVE ReadBack(it)
  <2>1. it.kind = "Uint" /\ it.n = n /\ Codec!ReadCompressed(n, FALSE) BY <1>5 DEF Codec!readUint, Codec!Expect
  <2> HIDE DEF it
  <2> QED BY <1>0, <2>1, CompressedRead
<1>6. ASSUME Codec!readString PROVE ReadBack(it)
  <2>1. it.kind = "String" BY <1>6 DEF Codec!readString, Codec!Expect
  <2> HIDE DEF it
  <2> QED BY <1>0, <1>6, <2>1, StringRead
<1> HIDE DEF it
<1>7. ReadBack(it) BY <1>1, <1>2, <1>3, <1>4, <1>5, <1>6 DEF Codec!Read
<1> QED BY <1>7 DEF it

\* Any bytes give a number.
LEMMA FixedNat ==
    ASSUME NEW bytes \in Seq(ByteRange)
    PROVE  Codec!FixedValue(bytes) \in Nat
<1>1. Codec!ByteBits = Bits /\ Bits \in Nat BY Widths
<1>2. PICK n \in Nat : n = Len(bytes) BY LenProperties
<1> DEFINE t == Terms(bytes, n)
<1>3. PICK value : IsSum(value, t, n) /\ Codec!FixedValue(bytes) = value[n] BY <1>2, FixedIsSum
<1> HIDE DEF Bits
<1>4. ASSUME NEW k \in 1..n PROVE t[k] \in Nat
  <2>1. bytes[k] \in Nat
    <3>1. bytes[k] \in ByteRange BY <1>2, ElementOfSeq
    <3>2. 2 ^ Bits \in Nat BY <1>1, PowerPos
    <3> QED BY <3>1, <3>2 DEF ByteRange
  <2>2. Bits * (k - 1) \in Nat BY <1>1
  <2>3. 2 ^ (Bits * (k - 1)) \in Nat BY <2>2, PowerPos
  <2> QED BY <2>1, <2>3 DEF Terms
<1> HIDE DEF t
<1> DEFINE Q == {k \in Nat : k <= n => value[k] \in Nat}
<1>7. 0 \in Q
  <2>1. 0 \in 0..n OBVIOUS
  <2>2. value[0] = 0 BY <1>3, <2>1 DEF IsSum
  <2> QED BY <2>2
<1>8. ASSUME NEW k \in Nat, k \in Q PROVE k + 1 \in Q
  <2> SUFFICES ASSUME k + 1 <= n PROVE value[k + 1] \in Nat OBVIOUS
  <2>1. k <= n /\ k + 1 \in 0..n /\ k + 1 \in 1..n /\ k + 1 # 0 /\ (k + 1) - 1 = k OBVIOUS
  <2>2. value[k + 1] = value[k] + t[k + 1] BY <1>3, <2>1 DEF IsSum
  <2>3. value[k] \in Nat BY <1>8, <2>1
  <2>4. t[k + 1] \in Nat BY <1>4, <2>1
  <2> QED BY <2>2, <2>3, <2>4
<1>9. Nat \subseteq Q
  <2> HIDE DEF Q
  <2> QED BY <1>7, <1>8, Induct
<1> QED BY <1>3, <1>9

\* A reader takes some bytes from the front of the array, or never ends.
Taken == (\E got : Codec!ReadItem(got)) /\ \E m \in 0..Len(data) : data' = Codec!Rest(m)
LostReading == data' = << >> /\ status' = "reading" /\ UNCHANGED <<pending, last, count, synced>>

LEMMA ReadEffect ==
    ASSUME data \in Seq(ByteRange), Codec!Read
    PROVE  status = "ok" /\ (Taken \/ LostReading)
<1>1. Len(data) \in Nat BY LenProperties
<1>2. ASSUME UNCHANGED data PROVE data' = Codec!Rest(0) /\ 0 \in 0..Len(data)
  <2>1. 1 <= Len(data) + 1 /\ 0 + 1 = 1 /\ Len(data) <= Len(data) BY <1>1
  <2>2. \A j \in 1..Len(data) : data[j] = data[j] OBVIOUS
  <2>3. SubSeq(data, 1, Len(data)) = data BY <2>1, <2>2, Prefix
  <2> QED BY <1>1, <1>2, <2>1, <2>3 DEF Codec!Rest
<1>3. ASSUME NEW n \in Nat, NEW signed, Codec!ReadBytes(n, signed) PROVE Taken
  <2>1. CASE n > Len(data) BY <1>2, <1>3, <2>1 DEF Codec!ReadBytes, Taken
  <2>2. CASE ~(n > Len(data))
    <3>1. n \in 0..Len(data) BY <1>1, <2>2
    <3> QED BY <1>3, <2>2, <3>1 DEF Codec!ReadBytes, Taken
  <2> QED BY <2>1, <2>2
<1>4. ASSUME NEW n, NEW signed, Codec!ReadCompressed(n, signed) PROVE Taken \/ LostReading
  <2> DEFINE marks == {k \in 1..Len(data) : Codec!Marked(data[k])}
  <2>1. CASE marks = {} BY <1>4, <2>1 DEF Codec!ReadCompressed, LostReading
  <2>2. CASE marks # {}
    <3>1. PICK m \in marks : \A y \in marks : m <= y
      <4>1. marks \subseteq Nat OBVIOUS
      <4> HIDE DEF marks
      <4> QED BY <2>2, <4>1, Smallest
    <3>2. Codec!Min(marks) \in marks
      <4> HIDE DEF marks
      <4>1. \E x \in marks : \A y \in marks : x <= y BY <3>1
      <4> QED BY <4>1 DEF Codec!Min
    <3>3. Codec!Min(marks) \in 0..Len(data) BY <1>1, <3>2
    <3> QED BY <1>4, <2>2, <3>3 DEF Codec!ReadCompressed, Taken
  <2> QED BY <2>1, <2>2
<1>5. ASSUME Codec!readString PROVE Taken
  <2>1. PICK B \in Nat : B = Codec!IntBytes BY Widths
  <2>2. CASE Len(data) < B
    <3>1. (\E got : Codec!ReadItem(got)) /\ UNCHANGED data BY <1>5, <2>1, <2>2 DEF Codec!readString
    <3> QED BY <1>2, <3>1 DEF Taken
  <2>3. CASE ~(Len(data) < B)
    <3>1. PICK n \in Nat : n = Codec!FixedValue(SubSeq(data, 1, B))
      <4>1. \A i \in 1..B : i \in 1..Len(data) BY <1>1, <2>3
      <4>2. SubSeq(data, 1, B) \in Seq(ByteRange)
        <5> HIDE DEF ByteRange
        <5> QED BY <4>1, SubSeqProperties
      <4> QED BY <4>2, FixedNat
    <3>2. PICK l \in Nat : l = Len(Codec!Rest(B)) /\ l = Len(data) - B
      <4>1. B + 1 \in 1..(Len(data) + 1) /\ Len(data) \in B..Len(data) BY <1>1, <2>3
      <4>2. Len(SubSeq(data, B + 1, Len(data))) = IF B + 1 <= Len(data) THEN Len(data) - (B + 1) + 1 ELSE 0
        <5> HIDE DEF ByteRange
        <5> QED BY <1>1, <4>1, SubSeqProperties
      <4> QED BY <1>1, <2>3, <4>2 DEF Codec!Rest
    <3>3. CASE n > l
      <4>1. B \in 0..Len(data) BY <1>1, <2>3
      <4>2. (\E got : Codec!ReadItem(got)) /\ data' = Codec!Rest(B) BY <1>5, <2>1, <2>3, <3>1, <3>2, <3>3 DEF Codec!readString
      <4> QED BY <4>1, <4>2 DEF Taken
    <3>4. CASE ~(n > l)
      <4>1. B + n \in 0..Len(data) BY <1>1, <3>2, <3>4
      <4>2. (\E got : Codec!ReadItem(got)) /\ data' = Codec!Rest(B + n)
        BY <1>5, <2>1, <2>3, <3>1, <3>2, <3>4 DEF Codec!readString
      <4> QED BY <4>1, <4>2 DEF Taken
    <3> QED BY <3>3, <3>4
  <2> QED BY <2>2, <2>3
<1>6. \A n \in Codec!FixedSizes \cup Codec!CompressedSizes : n \in Nat BY Sizes
<1>7. ASSUME NEW n \in Codec!CompressedSizes, Codec!readFloat(n) PROVE Taken
  <2>1. CASE n > Len(data)
    <3>1. Codec!ReadItem({0}) /\ UNCHANGED data BY <1>7, <2>1 DEF Codec!readFloat
    <3> QED BY <1>2, <3>1 DEF Taken
  <2>2. CASE ~(n > Len(data))
    <3>1. Codec!ReadBytes(n, FALSE) BY <1>7, <2>2 DEF Codec!readFloat
    <3> QED BY <1>3, <1>6, <3>1
  <2> QED BY <2>1, <2>2
<1>8. Taken \/ LostReading
  <2>1. ASSUME NEW n \in Codec!FixedSizes, Codec!readFInt(n) PROVE Taken BY <1>3, <1>6, <2>1 DEF Codec!readFInt
  <2>2. ASSUME NEW n \in Codec!FixedSizes, Codec!readFUint(n) PROVE Taken BY <1>3, <1>6, <2>2 DEF Codec!readFUint
  <2>3. ASSUME NEW n \in Codec!CompressedSizes, Codec!readInt(n) PROVE Taken \/ LostReading
    BY <1>4, <2>3 DEF Codec!readInt
  <2>4. ASSUME NEW n \in Codec!CompressedSizes, Codec!readUint(n) PROVE Taken \/ LostReading
    BY <1>4, <2>4 DEF Codec!readUint
  <2> QED BY <1>5, <1>7, <2>1, <2>2, <2>3, <2>4 DEF Codec!Read
<1>9. status = "ok"
  BY DEF Codec!Read, Codec!readFInt, Codec!readFUint, Codec!readFloat, Codec!readInt, Codec!readUint,
         Codec!readString, Codec!Expect
<1> QED BY <1>8, <1>9

----------------------------------------------------------------------------
(* The invariant: until a value wrote nothing or was read in vain, the array  *)
(* is the bytes of the values written and not yet read.                       *)

Solid == \A i \in 1..Len(pending) : Enc(pending[i]) # << >>
LastRight == (Codec!Compressed(last) => last.val < 2 ^ (Width - 1)) => last.got = {last.val}

InStep ==
    /\ Solid /\ LastRight
    /\ \E c : Frames(c, pending, data)
    /\ status = "reading" => pending = << >>

CodecInv == Codec!TypeOK /\ pending \in Seq(Items) /\ (synced => InStep)

LEMMA CodecType ==
    Codec!TypeOK <=> /\ data \in Seq(ByteRange) /\ count \in 0..MaxItems /\ Len(pending) <= count
                     /\ synced \in BOOLEAN /\ status \in {"ok", "writing", "reading"}
BY Widths DEF Codec!TypeOK, ByteRange

LEMMA CodecInit ==
    ASSUME Codec!Init
    PROVE  CodecInv
<1>1. data = << >> /\ pending = << >> /\ count = 0 /\ synced = TRUE /\ status = "ok" /\ last.got = {last.val}
  BY DEF Codec!Init
<1>2. MaxItems \in Nat BY CodecAssumption
<1>3. << >> \in Seq(ByteRange) /\ << >> \in Seq(Items) /\ Len(<< >>) = 0
  <2> HIDE DEF ByteRange, Items
  <2> QED OBVIOUS
<1>4. Codec!TypeOK BY <1>1, <1>2, <1>3, CodecType
<1>5. Solid BY <1>1, <1>3 DEF Solid
<1>6. LastRight BY <1>1 DEF LastRight
<1>7. \E c : Frames(c, pending, data) BY <1>1, FramesNone
<1>8. InStep BY <1>1, <1>5, <1>6, <1>7 DEF InStep
<1> QED BY <1>1, <1>3, <1>4, <1>8 DEF CodecInv

LEMMA CodecWritten ==
    ASSUME CodecInv, NEW it \in Items, Written(it)
    PROVE  CodecInv'
<1>1. /\ data \in Seq(ByteRange) /\ count \in 0..MaxItems /\ Len(pending) <= count
      /\ synced \in BOOLEAN /\ pending \in Seq(Items) /\ (synced => InStep)
  BY CodecType DEF CodecInv
<1>2. /\ status = "ok" /\ count < MaxItems /\ count' = count + 1
      /\ pending' = Append(pending, it) /\ data' = data \o Enc(it)
      /\ synced' = (synced /\ Enc(it) # << >>)
      /\ last' = last /\ status' = status
  BY DEF Written
<1>3. Enc(it) \in Seq(ByteRange) BY EncType DEF Items
<1> HIDE DEF Items, ByteRange
<1>4. data' \in Seq(ByteRange) BY <1>1, <1>2, <1>3, ConcatProperties
<1>5. /\ pending' \in Seq(Items) /\ Len(pending) \in Nat /\ Len(pending') = Len(pending) + 1
      /\ pending'[Len(pending) + 1] = it /\ \A i \in 1..Len(pending) : pending'[i] = pending[i]
  BY <1>1, <1>2, AppendProperties, LenProperties
<1>6. MaxItems \in Nat BY CodecAssumption
<1>7. count' \in 0..MaxItems /\ Len(pending') <= count' BY <1>1, <1>2, <1>5, <1>6
<1>8. synced' \in BOOLEAN BY <1>2, Zenon
<1>9. Codec!TypeOK'
  <2>1. (data \in Seq(ByteRange) /\ count \in 0..MaxItems /\ Len(pending) <= count
          /\ synced \in BOOLEAN /\ status \in {"ok", "writing", "reading"})'
    BY <1>2, <1>4, <1>7, <1>8
  <2> QED BY <2>1, CodecType, PTL
<1>10. ASSUME synced' PROVE InStep'
  <2>1. synced /\ Enc(it) # << >> BY <1>2, <1>10
  <2>2. InStep BY <1>1, <2>1
  <2>3. Solid'
    <3>1. Solid BY <2>2 DEF InStep
    <3>2. ASSUME NEW i \in 1..(Len(pending) + 1) PROVE Enc(pending'[i]) # << >>
      <4>1. CASE i = Len(pending) + 1 BY <1>5, <2>1, <4>1
      <4>2. CASE i # Len(pending) + 1
        <5>1. i \in 1..Len(pending) BY <1>5, <4>2
        <5> QED BY <1>5, <3>1, <5>1 DEF Solid
      <4> QED BY <4>1, <4>2
    <3> QED BY <1>5, <3>2 DEF Solid
  <2>4. LastRight' BY <1>2, <2>2 DEF InStep, LastRight, Codec!Compressed
  <2>5. \E c : Frames(c, pending', data')
    <3>1. PICK c : Frames(c, pending, data) BY <2>2 DEF InStep
    <3> QED BY <1>1, <1>2, <3>1, FramesWrite
  <2> QED BY <1>2, <2>3, <2>4, <2>5 DEF InStep
<1> QED BY <1>5, <1>9, <1>10 DEF CodecInv

\* What ReadItem does when there is a value to read.
LEMMA ReadItemIs ==
    ASSUME NEW got, Codec!ReadItem(got), pending # << >>
    PROVE  /\ pending' = Tail(pending) /\ synced' = synced /\ count' = count /\ status' = status
           /\ last' = [kind |-> Head(pending).kind, n |-> Head(pending).n, val |-> Head(pending).val, got |-> got]
BY DEF Codec!ReadItem

\* While the array is in step, the bytes of the next value are the first ones.
LEMMA HeadReady ==
    ASSUME CodecInv, InStep, pending # << >>
    PROVE  AtHead(Head(pending))
<1> DEFINE it == Head(pending)
<1>1. data \in Seq(ByteRange) /\ pending \in Seq(Items) BY CodecType DEF CodecInv
<1> HIDE DEF ByteRange, Items
<1>2. PICK c : Frames(c, pending, data) BY DEF InStep
<1>3. /\ it \in Items /\ Len(Enc(it)) \in 0..Len(data) /\ \A j \in 1..Len(Enc(it)) : data[j] = Enc(it)[j]
  BY <1>1, <1>2, FramesFirst
<1>4. Good(it) BY <1>3 DEF Items
<1>5. Enc(it) # << >>
  <2>1. Len(pending) \in Nat \ {0} BY <1>1, EmptySeq, LenProperties
  <2>2. 1 \in 1..Len(pending) /\ it = pending[1] BY <1>1, <2>1, HeadTailProperties
  <2> QED BY <2>2 DEF InStep, Solid
<1>6. Enc(it) \in Seq(ByteRange) BY <1>4, EncType
<1>7. Len(Enc(it)) # 0 BY <1>5, <1>6, EmptySeq
<1>8. Len(data) \in Nat BY <1>1, LenProperties
<1>9. Len(Enc(it)) \in 1..Len(data) BY <1>3, <1>7, <1>8
<1> QED BY <1>1, <1>3, <1>4, <1>9 DEF AtHead

LEMMA CodecTaken ==
    ASSUME CodecInv, Codec!Read, status = "ok", Taken
    PROVE  CodecInv'
<1>1. /\ data \in Seq(ByteRange) /\ count \in 0..MaxItems /\ Len(pending) <= count
      /\ synced \in BOOLEAN /\ pending \in Seq(Items) /\ (synced => InStep)
  BY CodecType DEF CodecInv
<1>2. PICK g : Codec!ReadItem(g) BY DEF Taken
<1>3. PICK m \in 0..Len(data) : data' = Codec!Rest(m) BY DEF Taken
<1>4. Len(data) \in Nat BY <1>1, LenProperties
<1>5. data' \in Seq(ByteRange)
  <2>1. \A i \in (m + 1)..Len(data) : i \in 1..Len(data) BY <1>4
  <2> HIDE DEF ByteRange
  <2>2. SubSeq(data, m + 1, Len(data)) \in Seq(ByteRange) BY <1>1, <1>4, <2>1, SubSeqProperties
  <2> QED BY <1>3, <2>2 DEF Codec!Rest
<1>6. count' = count /\ status' = status BY <1>2 DEF Codec!ReadItem
<1> HIDE DEF ByteRange, Items
<1>7. CASE pending = << >>
  <2>1. synced' = FALSE /\ pending' = pending BY <1>2, <1>7 DEF Codec!ReadItem
  <2>2. (data \in Seq(ByteRange) /\ count \in 0..MaxItems /\ Len(pending) <= count
          /\ synced \in BOOLEAN /\ status \in {"ok", "writing", "reading"})'
    BY <1>1, <1>5, <1>6, <2>1
  <2>3. Codec!TypeOK' BY <2>2, CodecType, PTL
  <2> QED BY <1>1, <2>1, <2>3 DEF CodecInv
<1>8. CASE pending # << >>
  <2> DEFINE it == Head(pending)
  <2>1. pending' = Tail(pending) /\ synced' = synced BY <1>2, <1>8, ReadItemIs
  <2>2. /\ Len(pending) \in Nat \ {0} /\ pending' \in Seq(Items) /\ Len(pending') = Len(pending) - 1
        /\ it = pending[1] /\ \A i \in 1..(Len(pending) - 1) : pending'[i] = pending[i + 1]
    <3>1. Len(pending) \in Nat \ {0} BY <1>1, <1>8, EmptySeq, LenProperties
    <3> QED BY <1>1, <1>8, <2>1, <3>1, HeadTailProperties
  <2>3. Codec!TypeOK'
    <3>1. Len(pending') <= count' BY <1>1, <1>6, <2>2
    <3>2. (data \in Seq(ByteRange) /\ count \in 0..MaxItems /\ Len(pending) <= count
            /\ synced \in BOOLEAN /\ status \in {"ok", "writing", "reading"})'
      BY <1>1, <1>5, <1>6, <2>1, <3>1
    <3> QED BY <3>2, CodecType, PTL
  <2>4. ASSUME synced' PROVE InStep'
    <3>1. InStep BY <1>1, <2>1, <2>4
    <3>2. PICK c : Frames(c, pending, data) BY <3>1 DEF InStep
    <3>4. AtHead(it) BY <1>8, <3>1, HeadReady
    <3>5. PICK got : /\ Codec!ReadItem(got) /\ data' = Codec!Rest(Len(Enc(it)))
                     /\ (it.kind \in {"Int", "Uint"} => it.val < 2 ^ (Width - 1)) => got = {it.val}
      <4>1. ReadBack(it) BY <1>8, <3>4, ReadRight
      <4> QED BY <4>1 DEF ReadBack
    <3>6. last' = [kind |-> it.kind, n |-> it.n, val |-> it.val, got |-> got] BY <1>8, <3>5, ReadItemIs
    <3>7. LastRight'
      <4>1. last'.kind = it.kind /\ last'.val = it.val /\ last'.got = got BY <3>6
      <4> HIDE DEF it
      <4> QED BY <3>5, <4>1 DEF LastRight, Codec!Compressed
    <3>8. Solid'
      <4>1. ASSUME NEW i \in 1..(Len(pending) - 1) PROVE Enc(pending'[i]) # << >>
        <5>1. i + 1 \in 1..Len(pending) BY <2>2
        <5> QED BY <2>2, <3>1, <5>1 DEF InStep, Solid
      <4> QED BY <2>2, <4>1 DEF Solid
    <3>9. \E e : Frames(e, pending', data')
      <4>1. \E e : Frames(e, Tail(pending), SubSeq(data, Len(Enc(it)) + 1, Len(data)))
        BY <1>1, <1>8, <3>2, FramesRead
      <4> QED BY <2>1, <3>5, <4>1 DEF Codec!Rest
    <3>10. status' = "ok" BY <1>6
    <3> QED BY <3>7, <3>8, <3>9, <3>10 DEF InStep
  <2> QED BY <2>2, <2>3, <2>4 DEF CodecInv
<1> QED BY <1>7, <1>8

LEMMA CodecLost ==
    ASSUME CodecInv, LostWriting \/ (Codec!Read /\ LostReading)
    PROVE  CodecInv'
<1>1. /\ data \in Seq(ByteRange) /\ count \in 0..MaxItems /\ Len(pending) <= count
      /\ synced \in BOOLEAN /\ pending \in Seq(Items) /\ (synced => InStep)
  BY CodecType DEF CodecInv
<1> HIDE DEF ByteRange, Items
<1>2. pending' = pending /\ last' = last /\ count' = count /\ synced' = synced /\ status' \in {"writing", "reading"}
      /\ (data' = data \/ data' = << >>)
  BY DEF LostWriting, LostReading
<1>3. Codec!TypeOK'
  <2>1. << >> \in Seq(ByteRange) OBVIOUS
  <2>2. (data \in Seq(ByteRange) /\ count \in 0..MaxItems /\ Len(pending) <= count
          /\ synced \in BOOLEAN /\ status \in {"ok", "writing", "reading"})'
    BY <1>1, <1>2, <2>1
  <2> QED BY <2>2, CodecType, PTL
<1>4. ASSUME synced' PROVE InStep'
  <2>1. InStep BY <1>1, <1>2, <1>4
  <2>2. Solid' /\ LastRight' BY <1>2, <2>1 DEF InStep, Solid, LastRight, Codec!Compressed
  <2>3. CASE LostWriting
    <3>1. data' = data /\ status' = "writing" BY <2>3 DEF LostWriting
    <3> QED BY <1>2, <2>1, <2>2, <3>1 DEF InStep
  <2>4. CASE Codec!Read /\ LostReading
    <3>1. data' = << >> BY <2>4 DEF LostReading
    <3>2. CASE pending = << >>
      <4>1. \E c : Frames(c, pending', data') BY <1>2, <3>1, <3>2, FramesNone
      <4> QED BY <1>2, <2>2, <3>2, <4>1 DEF InStep
    <3>3. CASE pending # << >>
      <4> DEFINE it == Head(pending)
      <4>3. AtHead(it) BY <2>1, <3>3, HeadReady
      <4>4. PICK got : Codec!ReadItem(got)
        <5>1. ReadBack(it) BY <2>4, <3>3, <4>3, ReadRight
        <5> QED BY <5>1 DEF ReadBack
      <4>5. pending' = Tail(pending) BY <3>3, <4>4, ReadItemIs
      <4>6. Len(Tail(pending)) = Len(pending) - 1 /\ Len(pending) \in Nat
        BY <1>1, <3>3, HeadTailProperties, LenProperties
      <4>7. FALSE BY <1>2, <4>5, <4>6
      <4> QED BY <4>7
    <3> QED BY <3>2, <3>3
  <2> QED BY <2>3, <2>4
<1> QED BY <1>1, <1>2, <1>3, <1>4 DEF CodecInv

LEMMA CodecStep ==
    ASSUME CodecInv, [MCNext]_<<part, arrayVars, codecVars, configVars>>
    PROVE  CodecInv'
<1>1. CASE Codec!Write
  <2>1. CASE LostWriting BY <2>1, CodecLost
  <2>2. CASE \E it \in Items : Written(it) BY <2>2, CodecWritten
  <2> QED BY <1>1, <2>1, <2>2, WriteEffect
<1>2. CASE Codec!Read
  <2>1. data \in Seq(ByteRange) BY CodecType DEF CodecInv
  <2>2. status = "ok" /\ (Taken \/ LostReading) BY <1>2, <2>1, ReadEffect
  <2>3. CASE Taken BY <1>2, <2>2, <2>3, CodecTaken
  <2>4. CASE LostReading BY <1>2, <2>4, CodecLost
  <2> QED BY <2>2, <2>3, <2>4
<1>3. CASE UNCHANGED codecVars
  <2>1. /\ data' = data /\ pending' = pending /\ last' = last /\ count' = count
        /\ synced' = synced /\ status' = status
    BY <1>3 DEF codecVars
  <2>2. Codec!TypeOK' = Codec!TypeOK BY <2>1 DEF Codec!TypeOK
  <2>3. InStep' = InStep BY <2>1 DEF InStep, Solid, LastRight, Codec!Compressed
  <2> QED BY <2>1, <2>2, <2>3 DEF CodecInv
<1> QED BY <1>1, <1>2, <1>3 DEF MCNext, Codec!Next

LEMMA CodecIsInv == MCSpec => []CodecInv
<1>1. MCInit => CodecInv BY CodecInit DEF MCInit
<1> QED BY <1>1, CodecStep, PTL DEF MCSpec

\* For any widths, values and strings, and in any order of writing and reading:
\* each reader takes the bytes its writer wrote and no others, and none runs on
\* over the end of the array.
THEOREM FramedTheorem == MCSpec => []Framed
<1>1. CodecInv => Framed
  <2> SUFFICES ASSUME CodecInv, synced
               PROVE  (pending = << >> <=> data = << >>) /\ (status = "reading" => pending = << >>)
    BY DEF Framed, Codec!Framed
  <2>1. data \in Seq(ByteRange) /\ pending \in Seq(Items) /\ InStep BY CodecType DEF CodecInv
  <2> HIDE DEF ByteRange, Items
  <2>2. PICK c : Frames(c, pending, data) BY <2>1 DEF InStep
  <2>3. ASSUME pending = << >> PROVE data = << >>
    <3>1. Len(pending) = 0 BY <2>3
    <3>2. Len(data) = 0 BY <2>2, <3>1 DEF Frames
    <3> QED BY <2>1, <3>2, EmptySeq
  <2>4. ASSUME pending # << >>, data = << >> PROVE FALSE
    <3>1. Len(data) = 0 BY <2>4
    <3>2. Len(Enc(Head(pending))) \in 1..Len(data) BY <2>1, <2>4, HeadReady DEF AtHead
    <3> QED BY <3>1, <3>2
  <2> QED BY <2>1, <2>3, <2>4 DEF InStep
<1> QED BY <1>1, CodecIsInv, PTL

\* For any widths, values and strings: what was written is what is read, for the
\* integers of fixed length, the floating point numbers, the strings and the
\* compressed integers from 1 to the largest int.
THEOREM RoundTripTheorem == MCSpec => []RoundTrip
<1>1. CodecInv => RoundTrip BY DEF CodecInv, InStep, LastRight, RoundTrip, Codec!RoundTrip
<1> QED BY <1>1, CodecIsInv, PTL
============================================================================
