---------------------------- MODULE CommonLemmas ----------------------------
(* Lemmas about numbers and sequences that the proofs of several components   *)
(* rest on: induction, the flattening of sequences, quotients and remainders, *)
(* powers of two.                                                             *)
EXTENDS Integers, Sequences, SequenceTheorems, FiniteSetTheorems, WellFoundedInduction, TLAPS

Seqs == INSTANCE SequencesExt

\* A set of numbers has a smallest element.
LEMMA Smallest ==
    ASSUME NEW S, S \subseteq Nat, S # {}
    PROVE  \E x \in S : \A y \in S : x <= y
<1> DEFINE R == OpToRel(<, Nat)
<1>1. IsWellFoundedOn(R, Nat) BY NatLessThanWellFounded
<1>2. \A a, b \in Nat : a < b => <<a, b>> \in R BY DEF OpToRel
<1> HIDE DEF R
<1>3. PICK x \in S : \A y \in S : ~ (<<y, x>> \in R) BY ONLY <1>1, S \subseteq Nat, S # {}, WFMin
<1>4. ASSUME NEW y \in S PROVE x <= y
  <2>1. x \in Nat /\ y \in Nat BY S \subseteq Nat
  <2>2. ~(<<y, x>> \in R) BY <1>3
  <2>3. y < x => <<y, x>> \in R BY <1>2, <2>1
  <2> QED BY <2>1, <2>2, <2>3
<1> QED BY <1>4

\* Induction over the numbers, for a set of them.
LEMMA Induct ==
    ASSUME NEW Q, 0 \in Q, \A n \in Nat : n \in Q => n + 1 \in Q
    PROVE  Nat \subseteq Q
<1> SUFFICES ASSUME NEW n \in Nat, n \notin Q PROVE FALSE OBVIOUS
<1>1. PICK x \in Nat \ Q : \A y \in Nat \ Q : x <= y BY Smallest
<1>2. x # 0 BY <1>1
<1>3. x - 1 \in Nat /\ ~(x <= x - 1) /\ (x - 1) + 1 = x BY <1>1, <1>2
<1>4. x - 1 \in Q BY <1>1, <1>3
<1> QED BY <1>1, <1>3, <1>4

\* g gives the first m sequences put together, for every m up to n.
IsFlat(g, seqs, n) ==
    g = [m \in 1..n |-> IF m = 1 THEN seqs[m] ELSE g[m - 1] \o seqs[m]]

LEMMA FlatFirst ==
    ASSUME NEW g, NEW seqs, NEW n \in Nat, IsFlat(g, seqs, n), n # 0
    PROVE  g[1] = seqs[1]
<1>1. 1 \in 1..n OBVIOUS
<1> QED BY <1>1 DEF IsFlat

LEMMA FlatNext ==
    ASSUME NEW g, NEW seqs, NEW n \in Nat, IsFlat(g, seqs, n)
    PROVE  \A m \in 2..n : g[m] = g[m - 1] \o seqs[m]
<1> SUFFICES ASSUME NEW m \in 2..n PROVE g[m] = g[m - 1] \o seqs[m] OBVIOUS
<1>1. m \in 1..n /\ m # 1 OBVIOUS
<1> QED BY <1>1 DEF IsFlat

LEMMA FlatExists ==
    ASSUME NEW seqs, NEW n \in Nat
    PROVE  \E g : IsFlat(g, seqs, n)
<1> DEFINE Q == {m \in Nat : \E g : IsFlat(g, seqs, m)}
<1>1. 0 \in Q
  <2> DEFINE g == [m \in 1..0 |-> << >>]
  <2>1. IsFlat(g, seqs, 0) BY DEF IsFlat
  <2> QED BY <2>1
<1>2. ASSUME NEW m \in Nat, m \in Q PROVE m + 1 \in Q
  <2>1. PICK g : IsFlat(g, seqs, m) BY <1>2
  <2> DEFINE last == IF m = 0 THEN seqs[1] ELSE g[m] \o seqs[m + 1]
             h == [l \in 1..(m + 1) |-> IF l = m + 1 THEN last ELSE g[l]]
             e(l) == IF l = 1 THEN seqs[l] ELSE h[l - 1] \o seqs[l]
  <2> HIDE DEF last
  <2>2. ASSUME NEW l \in 1..(m + 1) PROVE h[l] = e(l)
    <3>1. CASE l # m + 1 /\ l = 1
      <4>1. l \in 1..m BY <3>1
      <4>2. h[l] = g[l] BY <3>1
      <4>3. g[l] = seqs[l]
        <5>1. m # 0 BY <4>1
        <5> QED BY <2>1, <3>1, <5>1, FlatFirst
      <4> HIDE DEF h
      <4> QED BY <3>1, <4>2, <4>3
    <3>2. CASE l # m + 1 /\ l # 1
      <4>1. l \in 1..m /\ l - 1 \in 1..(m + 1) /\ l - 1 # m + 1 BY <3>2
      <4>2. h[l] = g[l] /\ h[l - 1] = g[l - 1] BY <3>2, <4>1
      <4>3. g[l] = g[l - 1] \o seqs[l]
        <5>1. l \in 2..m BY <3>2, <4>1
        <5> QED BY <2>1, <5>1, FlatNext
      <4> HIDE DEF h
      <4> QED BY <3>2, <4>2, <4>3
    <3>3. CASE l = m + 1
      <4>1. h[l] = last BY <3>3
      <4>2. CASE m = 0
        <5>1. l = 1 /\ last = seqs[1] BY <3>3, <4>2 DEF last
        <5> HIDE DEF h
        <5> QED BY <4>1, <5>1
      <4>3. CASE m # 0
        <5>1. l # 1 /\ l - 1 = m /\ m \in 1..(m + 1) /\ m # m + 1 BY <3>3, <4>3
        <5>2. h[m] = g[m] /\ last = g[m] \o seqs[m + 1] BY <4>3, <5>1 DEF last
        <5> HIDE DEF h
        <5> QED BY <3>3, <4>1, <5>1, <5>2
      <4> QED BY <4>2, <4>3
    <3> QED BY <3>1, <3>2, <3>3
  <2>3. h = [l \in 1..(m + 1) |-> e(l)] BY <2>2
  <2>4. IsFlat(h, seqs, m + 1) BY <2>3 DEF IsFlat
  <2> QED BY <2>4
<1> HIDE DEF Q
<1>3. Nat \subseteq Q BY <1>1, <1>2, Induct
<1> QED BY <1>3 DEF Q

\* The first sequences alone decide how they are put together.
LEMMA FlatUnique ==
    ASSUME NEW g, NEW h, NEW p, NEW q, NEW n \in Nat, NEW l \in Nat, n <= l, n # 0,
           IsFlat(g, p, n), IsFlat(h, q, l), \A m \in 1..n : p[m] = q[m]
    PROVE  g[n] = h[n]
<1> DEFINE D == {m \in 1..n : g[m] # h[m]}
<1> SUFFICES ASSUME D # {} PROVE FALSE OBVIOUS
<1>1. D \subseteq Nat OBVIOUS
<1>2. PICK x \in D : \A y \in D : x <= y BY <1>1, Smallest
<1>3. x \in 1..n /\ x \in 1..l /\ g[x] # h[x] OBVIOUS
<1>4. x # 1
  <2>1. g[1] = p[1] BY FlatFirst
  <2>2. h[1] = q[1]
    <3>1. l # 0 OBVIOUS
    <3> QED BY <3>1, FlatFirst
  <2>3. 1 \in 1..n OBVIOUS
  <2> QED BY <1>3, <2>1, <2>2, <2>3
<1>5. x - 1 \in 1..n /\ ~(x <= x - 1) BY <1>3, <1>4
<1>6. g[x - 1] = h[x - 1] BY <1>2, <1>5
<1>7. g[x] = g[x - 1] \o p[x]
  <2>1. \A m \in 2..n : g[m] = g[m - 1] \o p[m] BY FlatNext
  <2>2. x \in 2..n BY <1>3, <1>4
  <2> QED BY <2>1, <2>2
<1>8. h[x] = h[x - 1] \o q[x]
  <2>1. \A m \in 2..l : h[m] = h[m - 1] \o q[m] BY FlatNext
  <2>2. x \in 2..l BY <1>3, <1>4
  <2> QED BY <2>1, <2>2
<1> QED BY <1>3, <1>6, <1>7, <1>8

\* FlattenSeq puts the sequences one after the other.
LEMMA FlattenIs ==
    ASSUME NEW S, NEW seqs \in Seq(Seq(S)), Len(seqs) # 0
    PROVE  \E g : IsFlat(g, seqs, Len(seqs)) /\ Seqs!FlattenSeq(seqs) = g[Len(seqs)]
<1> DEFINE h == CHOOSE g : IsFlat(g, seqs, Len(seqs))
<1>1. Len(seqs) \in Nat OBVIOUS
<1>2. \E g : IsFlat(g, seqs, Len(seqs)) BY <1>1, FlatExists
<1>3. Seqs!FlattenSeq(seqs) = h[Len(seqs)] BY DEF Seqs!FlattenSeq, IsFlat
<1> QED BY <1>2, <1>3

LEMMA FlattenNone == Seqs!FlattenSeq(<< >>) = << >>
BY DEF Seqs!FlattenSeq

LEMMA FlattenAppend ==
    ASSUME NEW S, NEW seqs \in Seq(Seq(S)), NEW x \in Seq(S)
    PROVE  Seqs!FlattenSeq(Append(seqs, x)) = Seqs!FlattenSeq(seqs) \o x
<1> DEFINE n == Len(seqs)
           all == Append(seqs, x)
<1>1. /\ all \in Seq(Seq(S)) /\ Len(all) = n + 1 /\ n \in Nat /\ all[n + 1] = x
      /\ \A m \in 1..n : seqs[m] = all[m]
  <2>1. n \in Nat OBVIOUS
  <2> QED BY <2>1, AppendProperties
<1> HIDE DEF n, all
<1>2. n + 1 \in Nat /\ n + 1 # 0 /\ n + 1 \in 1..(n + 1) /\ (n + 1) - 1 = n /\ n <= n + 1 BY <1>1
<1>3. PICK h : IsFlat(h, all, n + 1) /\ Seqs!FlattenSeq(all) = h[n + 1]
  <2>1. Len(all) # 0 BY <1>1, <1>2
  <2> QED BY <1>1, <2>1, FlattenIs
<1>4. CASE n = 0
  <2>1. seqs = << >> BY <1>4 DEF n
  <2>2. h[1] = all[1] /\ all[1] = x /\ n + 1 = 1
    <3>1. h[1] = all[1] BY <1>2, <1>3, FlatFirst
    <3>2. n + 1 = 1 BY <1>4
    <3> QED BY <1>1, <3>1, <3>2
  <2>3. << >> \o x = x BY ConcatEmptySeq
  <2> QED BY <1>3, <2>1, <2>2, <2>3, FlattenNone DEF all
<1>5. CASE n # 0
  <2>1. PICK g : IsFlat(g, seqs, n) /\ Seqs!FlattenSeq(seqs) = g[n] BY <1>5, FlattenIs DEF n
  <2>2. g[n] = h[n] BY <1>1, <1>2, <1>3, <1>5, <2>1, FlatUnique
  <2>3. n + 1 # 1 BY <1>1, <1>5
  <2>4. h[n + 1] = h[n] \o all[n + 1]
    <3>1. \A m \in 2..(n + 1) : h[m] = h[m - 1] \o all[m] BY <1>2, <1>3, FlatNext
    <3>2. n + 1 \in 2..(n + 1) BY <1>1, <2>3
    <3> QED BY <1>2, <3>1, <3>2
  <2> QED BY <1>1, <1>3, <2>1, <2>2, <2>4 DEF all
<1> QED BY <1>4, <1>5

\* What was put together has the elements of the parts, and no others.
Elems(s) == {s[m] : m \in DOMAIN s}

LEMMA ConcatElems ==
    ASSUME NEW S, NEW u \in Seq(S), NEW v \in Seq(S)
    PROVE  Elems(u \o v) = Elems(u) \cup Elems(v)
<1>1. /\ u \o v \in Seq(S) /\ Len(u \o v) = Len(u) + Len(v)
      /\ \A j \in 1..(Len(u) + Len(v)) : (u \o v)[j] = IF j <= Len(u) THEN u[j] ELSE v[j - Len(u)]
  BY ConcatProperties
<1>2. Len(u) \in Nat /\ Len(v) \in Nat /\ DOMAIN u = 1..Len(u) /\ DOMAIN v = 1..Len(v) OBVIOUS
<1>3. DOMAIN (u \o v) = 1..(Len(u) + Len(v)) BY <1>1
<1>4. ASSUME NEW j \in 1..(Len(u) + Len(v)) PROVE (u \o v)[j] \in Elems(u) \cup Elems(v)
  <2>1. CASE j <= Len(u)
    <3>1. j \in DOMAIN u /\ (u \o v)[j] = u[j] BY <1>1, <1>2, <2>1
    <3> QED BY <3>1 DEF Elems
  <2>2. CASE ~(j <= Len(u))
    <3>1. j - Len(u) \in DOMAIN v /\ (u \o v)[j] = v[j - Len(u)] BY <1>1, <1>2, <2>2
    <3> QED BY <3>1 DEF Elems
  <2> QED BY <2>1, <2>2
<1>5. ASSUME NEW j \in DOMAIN u PROVE u[j] \in Elems(u \o v)
  <2>1. j \in 1..(Len(u) + Len(v)) /\ (u \o v)[j] = u[j] BY <1>1, <1>2
  <2> QED BY <1>3, <2>1 DEF Elems
<1>6. ASSUME NEW j \in DOMAIN v PROVE v[j] \in Elems(u \o v)
  <2>1. /\ j + Len(u) \in 1..(Len(u) + Len(v)) /\ ~(j + Len(u) <= Len(u))
        /\ (j + Len(u)) - Len(u) = j
    BY <1>2
  <2>2. (u \o v)[j + Len(u)] = v[j] BY <1>1, <2>1
  <2> QED BY <1>3, <2>1, <2>2 DEF Elems
<1>7. Elems(u \o v) \subseteq Elems(u) \cup Elems(v) BY <1>3, <1>4 DEF Elems
<1>8. Elems(u) \subseteq Elems(u \o v) BY <1>5 DEF Elems
<1>9. Elems(v) \subseteq Elems(u \o v) BY <1>6 DEF Elems
<1> QED BY <1>7, <1>8, <1>9

LEMMA FlattenElems ==
    ASSUME NEW S, NEW seqs \in Seq(Seq(S))
    PROVE  /\ Seqs!FlattenSeq(seqs) \in Seq(S)
           /\ \A y : y \in Elems(Seqs!FlattenSeq(seqs)) <=> \E j \in DOMAIN seqs : y \in Elems(seqs[j])
<1> DEFINE Whole(t) == /\ Seqs!FlattenSeq(t) \in Seq(S)
                       /\ \A y : y \in Elems(Seqs!FlattenSeq(t)) <=> \E j \in DOMAIN t : y \in Elems(t[j])
           Q == {n \in Nat : \A t \in Seq(Seq(S)) : Len(t) = n => Whole(t)}
<1>1. 0 \in Q
  <2> SUFFICES ASSUME NEW t \in Seq(Seq(S)), Len(t) = 0 PROVE Whole(t) OBVIOUS
  <2>1. t = << >> OBVIOUS
  <2>2. Elems(<< >>) = {} /\ DOMAIN t = {} BY <2>1 DEF Elems
  <2>3. << >> \in Seq(S) OBVIOUS
  <2> QED BY <2>1, <2>2, <2>3, FlattenNone
<1>2. ASSUME NEW n \in Nat, n \in Q PROVE n + 1 \in Q
  <2> SUFFICES ASSUME NEW t \in Seq(Seq(S)), Len(t) = n + 1 PROVE Whole(t) OBVIOUS
  <2> DEFINE u == [j \in 1..n |-> t[j]]
             x == t[n + 1]
  <2>1. n + 1 \in 1..(n + 1) /\ \A j \in 1..n : j \in 1..(n + 1) OBVIOUS
  <2>2. \A j \in 1..(n + 1) : t[j] \in Seq(S) OBVIOUS
  <2>3. x \in Seq(S) BY <2>1, <2>2
  <2>4. u \in Seq(Seq(S)) /\ Len(u) = n BY <2>1, <2>2
  <2>5. \A j \in 1..n : u[j] = t[j] OBVIOUS
  <2> HIDE DEF u, x
  <2>6. t = Append(u, x)
    <3>1. /\ Append(u, x) \in Seq(Seq(S)) /\ Len(Append(u, x)) = n + 1
          /\ \A j \in 1..n : Append(u, x)[j] = u[j]
          /\ Append(u, x)[n + 1] = x
      BY <2>3, <2>4, AppendProperties
    <3>2. \A j \in 1..(n + 1) : j = n + 1 \/ j \in 1..n OBVIOUS
    <3>3. \A j \in 1..(n + 1) : t[j] = Append(u, x)[j] BY <2>5, <3>1, <3>2 DEF x
    <3> QED BY <3>1, <3>3, SeqEqual
  <2>7. Seqs!FlattenSeq(t) = Seqs!FlattenSeq(u) \o x BY <2>3, <2>4, <2>6, FlattenAppend
  <2>8. Whole(u) BY <1>2, <2>4
  <2>9. Seqs!FlattenSeq(t) \in Seq(S) BY <2>3, <2>7, <2>8, ConcatProperties
  <2>10. Elems(Seqs!FlattenSeq(t)) = Elems(Seqs!FlattenSeq(u)) \cup Elems(x)
    BY <2>3, <2>7, <2>8, ConcatElems
  <2>11. DOMAIN t = 1..(n + 1) /\ DOMAIN u = 1..n BY <2>4
  <2>12. ASSUME NEW y
        PROVE (\E j \in DOMAIN t : y \in Elems(t[j])) <=> (\E j \in DOMAIN u : y \in Elems(u[j])) \/ y \in Elems(x)
    <3>1. \A j \in 1..(n + 1) : j = n + 1 \/ j \in 1..n OBVIOUS
    <3>2. \A j \in 1..n : Elems(u[j]) = Elems(t[j]) BY <2>5
    <3>3. Elems(t[n + 1]) = Elems(x) BY DEF x
    <3> QED BY <2>1, <2>11, <3>1, <3>2, <3>3
  <2>13. \A y : y \in Elems(Seqs!FlattenSeq(t)) <=> \E j \in DOMAIN t : y \in Elems(t[j])
    BY <2>8, <2>10, <2>12
  <2> QED BY <2>9, <2>13
<1>3. Nat \subseteq Q
  <2> HIDE DEF Q
  <2> QED BY <1>1, <1>2, Induct
<1>4. Len(seqs) \in Nat OBVIOUS
<1>5. Whole(seqs) BY <1>3, <1>4
<1> QED BY <1>5

\* Of the numbers that fit there is a largest one.
LEMMA Largest ==
    ASSUME NEW n \in Nat, NEW S, S \subseteq 1..n, S # {}
    PROVE  \E x \in S : \A y \in S : y <= x
<1> DEFINE R == {n - y : y \in S}
<1>0. \A y \in S : y \in Nat /\ n - y \in Nat OBVIOUS
<1>1. R \subseteq Nat /\ R # {} BY <1>0
<1>2. PICK z \in R : \A w \in R : z <= w
  <2> HIDE DEF R
  <2> QED BY <1>1, Smallest
<1>3. PICK x \in S : z = n - x OBVIOUS
<1>4. ASSUME NEW y \in S PROVE y <= x
  <2>1. z <= n - y BY <1>2
  <2>2. x \in Nat /\ y \in Nat BY <1>0
  <2> QED BY <1>3, <2>1, <2>2
<1> QED BY <1>4

\* Division with remainder, and the shift count of a position one turn further.
LEMMA Quotient ==
    ASSUME NEW w \in Nat \ {0}, NEW x \in Int
    PROVE  \E q \in Int, r \in 0..(w - 1) : x = q * w + r
<1> DEFINE Good(y) == \E q \in Int, r \in 0..(w - 1) : y = q * w + r
           Q == {n \in Nat : Good(n)}
<1>1. 0 \in Q
  <2>1. 0 = 0 * w + 0 /\ 0 \in 0..(w - 1) OBVIOUS
  <2> QED BY <2>1
<1>2. ASSUME NEW n \in Nat, n \in Q PROVE n + 1 \in Q
  <2>1. PICK q \in Int, r \in 0..(w - 1) : n = q * w + r BY <1>2
  <2>2. CASE r + 1 < w
    <3>1. r + 1 \in 0..(w - 1) /\ n + 1 = q * w + (r + 1) BY <2>1, <2>2
    <3> QED BY <3>1
  <2>3. CASE ~(r + 1 < w)
    <3>1. r + 1 = w BY <2>3
    <3>2. n + 1 = (q + 1) * w + 0 BY <2>1, <3>1
    <3>3. 0 \in 0..(w - 1) /\ q + 1 \in Int OBVIOUS
    <3>4. Good(n + 1) BY <3>2, <3>3
    <3> QED BY <3>4
  <2> QED BY <2>2, <2>3
<1>3. Nat \subseteq Q
  <2> HIDE DEF Q
  <2> QED BY <1>1, <1>2, Induct
<1>4. CASE x \in Nat BY <1>3, <1>4
<1>5. CASE x \notin Nat
  <2>1. -x \in Nat BY <1>5
  <2>2. PICK q \in Int, r \in 0..(w - 1) : -x = q * w + r BY <1>3, <2>1
  <2>3. CASE r = 0
    <3>1. x = (-q) * w + 0 BY <2>2, <2>3
    <3>2. -q \in Int /\ 0 \in 0..(w - 1) OBVIOUS
    <3> QED BY <3>1, <3>2
  <2>4. CASE r # 0
    <3>1. x = (-q - 1) * w + (w - r) BY <2>2
    <3>2. -q - 1 \in Int /\ w - r \in 0..(w - 1) BY <2>4
    <3> QED BY <3>1, <3>2
  <2> QED BY <2>3, <2>4
<1> QED BY <1>4, <1>5

LEMMA Remainder ==
    ASSUME NEW w \in Nat \ {0}, NEW q \in Int, NEW r \in 0..(w - 1)
    PROVE  (q * w + r) % w = r
OBVIOUS

LEMMA OneTurn ==
    ASSUME NEW w \in Nat \ {0}, NEW x \in Int
    PROVE  (x + w) % w = x % w /\ x % w \in 0..(w - 1)
<1>1. PICK q \in Int, r \in 0..(w - 1) : x = q * w + r BY Quotient
<1>2. x + w = (q + 1) * w + r BY <1>1
<1>3. q + 1 \in Int OBVIOUS
<1>4. x % w = r BY <1>1, Remainder
<1>5. ((q + 1) * w + r) % w = r BY <1>3, Remainder
<1> QED BY <1>2, <1>4, <1>5

\* Quotients and remainders by a product.
LEMMA DivIs ==
    ASSUME NEW w \in Nat \ {0}, NEW q \in Int, NEW r \in 0..(w - 1)
    PROVE  (q * w + r) \div w = q
OBVIOUS

LEMMA DivMod ==
    ASSUME NEW w \in Nat \ {0}, NEW x \in Nat
    PROVE  x \div w \in Nat /\ x % w \in 0..(w - 1) /\ x = (x \div w) * w + (x % w)
<1>0. x \in Int OBVIOUS
<1>1. PICK q \in Int, r \in 0..(w - 1) : x = q * w + r BY <1>0, Quotient
<1>2. x \div w = q /\ x % w = r BY <1>1, DivIs, Remainder
<1>3. q >= 0
  <2>1. CASE q < 0
    <3>1. q <= -1 BY <2>1
    <3>2. q * w <= (-1) * w BY <3>1
    <3>3. q * w + r < 0 BY <3>2
    <3> QED BY <1>1, <3>3
  <2> QED BY <2>1
<1>4. q \in Nat BY <1>3
<1> QED BY ONLY <1>1, <1>2, <1>4

LEMMA DivModSmall ==
    ASSUME NEW w \in Nat \ {0}, NEW x \in 0..(w - 1)
    PROVE  x \div w = 0 /\ x % w = x
<1>1. x = 0 * w + x OBVIOUS
<1>2. (0 * w + x) \div w = 0 /\ (0 * w + x) % w = x BY DivIs, Remainder
<1> QED BY <1>1, <1>2

LEMMA DigitBound ==
    ASSUME NEW a \in Nat \ {0}, NEW b \in Nat \ {0}, NEW r \in 0..(a - 1), NEW d \in 0..(b - 1)
    PROVE  d * a + r \in 0..(a * b - 1)
<1>1. d + 1 <= b OBVIOUS
<1>2. (d + 1) * a <= b * a BY <1>1
<1>3. (d + 1) * a = d * a + a /\ b * a = a * b OBVIOUS
<1>4. d * a >= 0 OBVIOUS
<1> QED BY <1>2, <1>3, <1>4

\* Division and remainder by a product: x has the quotient q and the rest r for
\* a, q has p and d for b.
Parts(x, a, b, q, r, p, d) ==
    /\ q = x \div a /\ r = x % a /\ p = q \div b /\ d = q % b
    /\ x \div (a * b) = p /\ x % (a * b) = d * a + r
    /\ (d * a + r) \div a = d /\ (d * a + r) % a = r

LEMMA ProductParts ==
    ASSUME NEW a \in Nat \ {0}, NEW b \in Nat \ {0}, NEW x \in Nat
    PROVE  \E q, r, p, d : Parts(x, a, b, q, r, p, d)
<1>1. PICK q \in Nat, r \in 0..(a - 1) : q = x \div a /\ r = x % a /\ x = q * a + r BY DivMod
<1>2. PICK p \in Nat, d \in 0..(b - 1) : p = q \div b /\ d = q % b /\ q = p * b + d BY DivMod
<1>3. d * a + r \in 0..(a * b - 1) BY DigitBound
<1>4. x = p * (a * b) + (d * a + r)
  <2>1. x = (p * b + d) * a + r BY <1>1, <1>2
  <2>2. (p * b + d) * a = p * (a * b) + d * a OBVIOUS
  <2> QED BY <2>1, <2>2
<1>5. a * b \in Nat \ {0} OBVIOUS
<1>6. PICK w \in Nat \ {0} : w = a * b BY <1>5
<1>7. PICK z \in 0..(w - 1) : z = d * a + r BY <1>3, <1>6
<1>8. x = p * w + z BY <1>4, <1>6, <1>7
<1>9. x \div w = p /\ x % w = z BY <1>8, DivIs, Remainder
<1>10. x \div (a * b) = p /\ x % (a * b) = d * a + r BY ONLY <1>6, <1>7, <1>9, Zenon
<1>11. (d * a + r) \div a = d /\ (d * a + r) % a = r BY DivIs, Remainder
<1>12. Parts(x, a, b, q, r, p, d) BY ONLY <1>1, <1>2, <1>10, <1>11, Zenon DEF Parts
<1> QED BY ONLY <1>12, Zenon

\* Two divisions are one by the product, and the rest by the product has the
\* second quotient's rest above the first rest.
LEMMA DivTwice ==
    ASSUME NEW a \in Nat \ {0}, NEW b \in Nat \ {0}, NEW x \in Nat
    PROVE  (x \div a) \div b = x \div (a * b)
<1>1. PICK q, r, p, d : Parts(x, a, b, q, r, p, d) BY ProductParts
<1> QED BY ONLY <1>1, Zenon DEF Parts

LEMMA RestIs ==
    ASSUME NEW a \in Nat \ {0}, NEW b \in Nat \ {0}, NEW x \in Nat
    PROVE  x % (a * b) = ((x \div a) % b) * a + (x % a)
<1>1. PICK q, r, p, d : Parts(x, a, b, q, r, p, d) BY ProductParts
<1> QED BY ONLY <1>1, Zenon DEF Parts

LEMMA DivOfRest ==
    ASSUME NEW a \in Nat \ {0}, NEW b \in Nat \ {0}, NEW x \in Nat
    PROVE  (x % (a * b)) \div a = (x \div a) % b
<1>1. PICK q, r, p, d : Parts(x, a, b, q, r, p, d) BY ProductParts
<1> QED BY ONLY <1>1, Zenon DEF Parts

LEMMA RestOfRest ==
    ASSUME NEW a \in Nat \ {0}, NEW b \in Nat \ {0}, NEW x \in Nat
    PROVE  (x % (a * b)) % a = x % a
<1>1. PICK q, r, p, d : Parts(x, a, b, q, r, p, d) BY ProductParts
<1> QED BY ONLY <1>1, Zenon DEF Parts

\* The powers of two count subsets.
LEMMA PowerCounts ==
    ASSUME NEW n \in Nat
    PROVE  /\ IsFiniteSet(1..n) /\ IsFiniteSet(SUBSET (1..n))
           /\ Cardinality(SUBSET (1..n)) = 2 ^ n
           /\ 2 ^ n \in Nat
<1>1. IsFiniteSet(1..n) /\ Cardinality(1..n) = n
  <2>1. IsFiniteSet(1..n) /\ Cardinality(1..n) = IF 1 > n THEN 0 ELSE n - 1 + 1 BY FS_Interval
  <2> QED BY <2>1
<1>2. IsFiniteSet(SUBSET (1..n)) /\ Cardinality(SUBSET (1..n)) = 2 ^ n BY <1>1, FS_SUBSET
<1>3. Cardinality(SUBSET (1..n)) \in Nat BY <1>2, FS_CardinalityType
<1> QED BY <1>1, <1>2, <1>3

LEMMA PowerZero == 2 ^ 0 = 1
OBVIOUS

\* With one more element there are twice as many.
LEMMA PowerNext ==
    ASSUME NEW n \in Nat
    PROVE  2 ^ (n + 1) = 2 * 2 ^ n
<1> DEFINE A == 1..n
           x == n + 1
           B == 1..(n + 1)
           Ax == {C \cup {x} : C \in SUBSET A}
           f == [C \in SUBSET A |-> C \cup {x}]
<1>1. x \notin A /\ B = A \cup {x} /\ n + 1 \in Nat OBVIOUS
<1>2. /\ IsFiniteSet(SUBSET A) /\ Cardinality(SUBSET A) = 2 ^ n /\ 2 ^ n \in Nat
      /\ Cardinality(SUBSET B) = 2 ^ (n + 1)
  BY <1>1, PowerCounts
<1> HIDE DEF A, x, B
<1>3. SUBSET B = (SUBSET A) \cup Ax
  <2>1. ASSUME NEW D \in SUBSET B PROVE D \in (SUBSET A) \cup Ax
    <3>1. CASE x \notin D BY <1>1, <3>1
    <3>2. CASE x \in D
      <4>1. D \ {x} \in SUBSET A BY <1>1
      <4>2. D = (D \ {x}) \cup {x} BY <3>2
      <4> QED BY <4>1, <4>2
    <3> QED BY <3>1, <3>2
  <2>2. ASSUME NEW D \in (SUBSET A) \cup Ax PROVE D \in SUBSET B BY <1>1
  <2> QED BY <2>1, <2>2
<1>4. f \in Injection(SUBSET A, Ax)
  <2>1. f \in [SUBSET A -> Ax] OBVIOUS
  <2>2. ASSUME NEW C \in SUBSET A, NEW D \in SUBSET A, f[C] = f[D] PROVE C = D
    <3>1. C \cup {x} = D \cup {x} BY <2>2
    <3>2. x \notin C /\ x \notin D BY <1>1
    <3>3. \A y : y \in C <=> y \in D BY <3>1, <3>2
    <3> QED BY <3>3
  <2> QED BY <2>1, <2>2 DEF Injection, IsInjective
<1>5. f \in Surjection(SUBSET A, Ax)
  <2>1. f \in [SUBSET A -> Ax] OBVIOUS
  <2>2. ASSUME NEW D \in Ax PROVE \E C \in SUBSET A : f[C] = D OBVIOUS
  <2> QED BY <2>1, <2>2 DEF Surjection
<1>6. ExistsBijection(SUBSET A, Ax) BY <1>4, <1>5 DEF ExistsBijection, Bijection
<1>7. IsFiniteSet(Ax) /\ Cardinality(Ax) = 2 ^ n BY <1>2, <1>6, FS_Bijection
<1>8. (SUBSET A) \cap Ax = {} BY <1>1
<1>9. Cardinality((SUBSET A) \cap Ax) = 0 BY <1>8, FS_EmptySet
<1>10. Cardinality((SUBSET A) \cup Ax) = Cardinality(SUBSET A) + Cardinality(Ax) - Cardinality((SUBSET A) \cap Ax)
  BY <1>2, <1>7, FS_Union
<1>11. 2 ^ (n + 1) = 2 ^ n + 2 ^ n - 0 BY <1>2, <1>3, <1>7, <1>9, <1>10
<1> QED BY <1>2, <1>11

LEMMA PowerType == \A n \in Nat : 2 ^ n \in Nat /\ 2 ^ n # 0 /\ n < 2 ^ n
<1> DEFINE Q == {n \in Nat : 2 ^ n # 0 /\ n < 2 ^ n}
<1>1. 0 \in Q BY PowerZero
<1>2. ASSUME NEW n \in Nat, n \in Q PROVE n + 1 \in Q
  <2>1. 2 ^ n \in Nat BY PowerCounts
  <2>2. 2 ^ (n + 1) = 2 * 2 ^ n BY PowerNext
  <2>3. n < 2 ^ n /\ n + 1 \in Nat BY <1>2
  <2> QED BY <2>1, <2>2, <2>3
<1> HIDE DEF Q
<1>3. Nat \subseteq Q BY <1>1, <1>2, Induct
<1>4. \A n \in Nat : n \in Q BY <1>3
<1> QED BY <1>4, PowerCounts DEF Q

LEMMA PowerSum == \A m, n \in Nat : 2 ^ (m + n) = 2 ^ m * 2 ^ n
<1> SUFFICES ASSUME NEW m \in Nat PROVE \A n \in Nat : 2 ^ (m + n) = 2 ^ m * 2 ^ n OBVIOUS
<1> DEFINE Q == {n \in Nat : 2 ^ (m + n) = 2 ^ m * 2 ^ n}
<1>0. 2 ^ m \in Nat BY PowerType
<1>1. 0 \in Q
  <2>1. m + 0 = m OBVIOUS
  <2> QED BY <1>0, <2>1, PowerZero
<1>2. ASSUME NEW n \in Nat, n \in Q PROVE n + 1 \in Q
  <2>1. 2 ^ n \in Nat /\ 2 ^ (m + n) \in Nat /\ m + n \in Nat /\ n + 1 \in Nat BY PowerType
  <2>2. 2 ^ (n + 1) = 2 * 2 ^ n BY PowerNext
  <2>3. m + (n + 1) = (m + n) + 1 OBVIOUS
  <2>4. 2 ^ ((m + n) + 1) = 2 * 2 ^ (m + n) BY <2>1, PowerNext
  <2>5. 2 ^ (m + n) = 2 ^ m * 2 ^ n BY <1>2
  <2>6. \A a, b \in Nat : 2 * (a * b) = a * (2 * b) OBVIOUS
  <2>7. 2 * (2 ^ m * 2 ^ n) = 2 ^ m * (2 * 2 ^ n) BY <1>0, <2>1, <2>6
  <2> QED BY <2>1, <2>2, <2>3, <2>4, <2>5, <2>7
<1> HIDE DEF Q
<1>3. Nat \subseteq Q BY <1>1, <1>2, Induct
<1>4. \A n \in Nat : n \in Q BY <1>3
<1> QED BY <1>4 DEF Q

LEMMA PowerMono == \A m, n \in Nat : m <= n => 2 ^ m <= 2 ^ n
<1> SUFFICES ASSUME NEW m \in Nat, NEW n \in Nat, m <= n PROVE 2 ^ m <= 2 ^ n OBVIOUS
<1>1. n - m \in Nat /\ m + (n - m) = n OBVIOUS
<1>2. 2 ^ n = 2 ^ m * 2 ^ (n - m)
  <2>1. 2 ^ (m + (n - m)) = 2 ^ m * 2 ^ (n - m) BY <1>1, PowerSum
  <2> QED BY <1>1, <2>1
<1>3. 2 ^ m \in Nat /\ 2 ^ (n - m) \in Nat /\ 2 ^ (n - m) # 0 BY <1>1, PowerType
<1>4. \A a, b \in Nat : b # 0 => a <= a * b OBVIOUS
<1> QED BY <1>2, <1>3, <1>4
=============================================================================
