---------------------------- MODULE LogFormatter ----------------------------
(***************************************************************************)
(* tadpole::LogFormatter (src/src/log.cc): the constructor and init(),     *)
(* which scans the pattern once and cuts it into pieces of text and        *)
(* conversions.  One step per iteration of its loop.  A pattern is a       *)
(* sequence of characters; positions count from 0 as in the code.          *)
(***************************************************************************)
EXTENDS Integers, Sequences, SequencesExt

CONSTANTS
    Chars,  \* characters of patterns
    MaxLen  \* bound: length of a pattern

VARIABLES
    m_pattern,
    i,             \* loop variable
    f,             \* where the text not yet stored begins
    vec,           \* pieces found: [type, str], type 0 text and 1 conversion
    m_formatItems, \* the items built from vec
    done

vars == <<m_pattern, i, f, vec, m_formatItems, done>>

\* Keys of s_fmt_map_str.
Conversions == {"d", "F", "l", "t", "f", "p", "c", "m", "n", "T", "e", "%"}

DefaultPattern ==
    <<"%", "d", "%", "T", "%", "e", "%", "T", "[", "%", "c", "]", "%", "T",
      "[", "%", "p", "]", "%", "T", "[", "%", "F", ":", "%", "l", "]", "%", "T",
      "[", "%", "t", ":", "%", "f", "]", "%", "T", "%", "m", "%", "n">>

Patterns == UNION {[1..n -> Chars] : n \in 0..MaxLen}

Init ==
    /\ \E pattern \in Patterns :
         m_pattern = IF pattern = << >> THEN DefaultPattern ELSE pattern
    /\ i = 0
    /\ f = 0
    /\ vec = << >>
    /\ m_formatItems = << >>
    /\ done = FALSE

Text(str) == [type |-> 0, str |-> str]
Conversion(str) == [type |-> 1, str |-> str]

\* m_pattern.substr(from, to - from).
Substr(from, to) == SubSeq(m_pattern, from + 1, to)

\* A character that is not '%'.
Plain ==
    /\ i < Len(m_pattern)
    /\ m_pattern[i + 1] # "%"
    /\ i' = i + 1
    /\ UNCHANGED <<m_pattern, f, vec, m_formatItems, done>>

\* Faulty variant: the scan does not skip the conversion's letter.
PercentNoSkip ==
    /\ i < Len(m_pattern)
    /\ m_pattern[i + 1] = "%"
    /\ LET str == Substr(f, i)
           text == IF str = << >> THEN << >> ELSE <<Text(str)>>
       IN  IF i + 1 < Len(m_pattern)
           THEN /\ vec' = vec \o text \o <<Conversion(Substr(i + 1, i + 2))>>
                /\ f' = i + 2
                /\ i' = i + 1
           ELSE /\ vec' = vec \o text \o <<Conversion(<< >>)>>
                /\ f' = f
                /\ i' = i + 1
    /\ UNCHANGED <<m_pattern, m_formatItems, done>>

\* Faulty variant: the text after a conversion starts one too late.
PercentLate ==
    /\ i + 1 < Len(m_pattern)
    /\ m_pattern[i + 1] = "%"
    /\ f' = i + 3
    /\ i' = i + 2
    /\ UNCHANGED <<m_pattern, vec, m_formatItems, done>>

\* A '%': the text before it, then the conversion it starts.  As the last
\* character it is a conversion without a letter, and f stays where it was.
Percent ==
    /\ i < Len(m_pattern)
    /\ m_pattern[i + 1] = "%"
    /\ LET str == Substr(f, i)
           text == IF str = << >> THEN << >> ELSE <<Text(str)>>
       IN  IF i + 1 < Len(m_pattern)
           THEN /\ vec' = vec \o text \o <<Conversion(Substr(i + 1, i + 2))>>
                /\ f' = i + 2
                /\ i' = i + 2
           ELSE /\ vec' = vec \o text \o <<Conversion(<< >>)>>
                /\ f' = f
                /\ i' = i + 1
    /\ UNCHANGED <<m_pattern, m_formatItems, done>>

\* StringFormatItem for text, the item of the map for a conversion, and
\* StringFormatItem("<error>") for one that is not in the map.
FormatItem(piece) ==
    IF piece.type = 1 /\ \A c \in Conversions : piece.str # <<c>>
    THEN Text(<<"<error>">>) ELSE piece

\* After the loop: the text that is left, and the items.
Finish ==
    /\ i = Len(m_pattern)
    /\ ~done
    /\ vec' = Append(vec, Text(Substr(f, Len(m_pattern))))
    /\ m_formatItems' = [k \in DOMAIN vec' |-> FormatItem(vec'[k])]
    /\ done' = TRUE
    /\ UNCHANGED <<m_pattern, i, f>>

Next == Plain \/ Percent \/ Finish
Spec == Init /\ [][Next]_vars

-----------------------------------------------------------------------------
\* Type invariant: in particular no substr() gets a negative length.
TypeOK ==
    /\ m_pattern # << >>
    /\ f \in 0..i
    /\ i \in 0..Len(m_pattern)
    /\ \A k \in DOMAIN vec : vec[k].type \in {0, 1}

\* Number of '%' the pattern ends with; if it is odd, the last one starts a
\* conversion that has no letter.
TrailingPercents ==
    CHOOSE n \in 0..Len(m_pattern) :
        /\ \A k \in 1..n : m_pattern[Len(m_pattern) - k + 1] = "%"
        /\ n < Len(m_pattern) => m_pattern[Len(m_pattern) - n] # "%"
Dangling == TrailingPercents % 2 = 1

\* How a piece is spelled, and the pattern that a sequence of pieces stands for.
Spelled(piece) == IF piece.type = 1 THEN <<"%">> \o piece.str ELSE piece.str
Source(pieces) == FlattenSeq([n \in DOMAIN pieces |-> Spelled(pieces[n])])

\* Nothing of the pattern is lost, repeated or moved: put together again, the
\* pieces are the pattern.  With a '%' at its very end, the text before that
\* '%' comes out once more, together with the '%'.
PatternKept ==
    done => IF Dangling
            THEN Source(vec) = m_pattern \o Substr(f, Len(m_pattern))
            ELSE Source(vec) = m_pattern

=============================================================================
