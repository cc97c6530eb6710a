----------------------------- MODULE HttpTable -----------------------------
(* What the tables of the two HTTP scanners are made of.  Ragel turns each   *)
(* grammar (.rl) into a goto program (.rl.cc): one label per state, a        *)
(* switch on the character, the actions of the transition, a jump.  A table  *)
(* maps a state to the set of its transitions; a character is the name of a  *)
(* class of bytes that the programs never tell apart.                        *)
EXTENDS Integers, Sequences, TLC

\* In any of the characters `on': run the actions `do' in order, go to `to'.
T(on, do, to) == [on |-> on, do |-> do, to |-> to]
Go(on, to) == T(on, <<>>, to)

\* A word read letter by letter: state n expects w[1], n + 1 expects w[2], ...
Word(n, w) == [s \in n..(n + Len(w) - 1) |-> {Go({w[s - n + 1]}, s + 1)}]

\* "%" has been read: two hexadecimal digits, then back.
Pct(n, hex, back) == n :> {Go(hex, n + 1)} @@ n + 1 :> {Go(hex, back)}

\* The transitions ts, with the actions `also' in front of theirs.
Prefixed(ts, also) == {[t EXCEPT !.do = also \o @] : t \in ts}

\* The action a is among the first n of a transition; it is among all of them.
Did(do, n, a) == \E m \in 1..n : do[m] = a
Does(t, a) == Did(t.do, Len(t.do), a)

\* Where a token begins that is not open, or began in the buffer of an earlier
\* call.
Closed == -2
Earlier == -1

\* LEN(AT, p) and PTR_TO(AT): the bytes from at to p.  The length is a size_t
\* in C, so that a negative one is huge.
LEN(at, p) == p - at

\* A string taken from the buffer is the token itself, its rest (the token
\* began in an earlier buffer), nothing at all, or some other bytes.  Here the
\* n bytes from `from' on, for a token that begins at b and ends at e.
Texts == {"whole", "rest", "empty", "other"}
TextOf(b, from, n, e) ==
    IF b = from /\ from + n = e THEN "whole"
    ELSE IF n = 0 THEN "empty"
    ELSE IF b = Earlier /\ from = 0 /\ n = e THEN "rest"
    ELSE "other"

\* The error state: a character without a transition ends the scan there.
Error == 0
=============================================================================
