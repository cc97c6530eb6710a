-------------------------- MODULE HttpResponseTable --------------------------
(* The scanner of HTTP responses and chunk headers,                           *)
(* src/http/httpclient_parser.rl.cc: states 1..123, 120..123 final.  The      *)
(* grammar names three fields (Connection, Transfer-Encoding, Content-Length) *)
(* beside the general one.  A blank of theirs may be a line end, so           *)
(* that an empty value leaves both readings open: the three final states      *)
(* beside 120 come from there.                                                *)
EXTENDS HttpTable

\* ----------------------------------------------------------------- classes
\* A letter stands for both cases, but "H" and "T" of HTTP are apart from "h"
\* and "t" and a small p is one of "!", the token characters not named here.
\* "0": a digit.  "HT": tab, 11, 12.  "other": every byte no token may have.
HexLetter == {"a", "b", "c", "d", "e", "f"}
Hex == HexLetter \cup {"0"}
Letters == HexLetter \cup {"g", "H", "h", "i", "k", "l", "n", "o", "P", "r", "s", "T", "t", "u"}
Token == Letters \cup {"0", "!", "-", "."}
Blank == {"HT", "SP"}
Space == Blank \cup {"LF", "CR"}
Chars == Token \cup Space \cup {"/", ":", ";", "=", "other"}

\* Both cases of a letter of a field's name or value.
Case(l) == CASE l = "t" -> {"t", "T"} [] l = "h" -> {"h", "H"} [] OTHER -> {l}

\* --------------------------------------------------------------- first line
FirstByte ==
    1 :> {T(Hex, <<"mark">>, 2), T({"H"}, <<"mark">>, 8)}
    @@ 2 :> {T({"LF"}, <<"chunk_size", "done">>, 120), T({"CR"}, <<"chunk_size">>, 3),
             T({";"}, <<"chunk_size">>, 4), Go(Hex, 2)}

LastLine == 3 :> {T({"LF"}, <<"done">>, 120)} @@ 120 :> {}

\* What ends a chunk extension, after the actions `do'.
ExtEnd(do) ==
    {T({"LF"}, do \o <<"write_value", "done">>, 120), T({"CR"}, do \o <<"write_value">>, 3),
     T({";"}, do \o <<"write_value">>, 4)}

ChunkExtName ==
    4 :> {T(Token, <<"start_field">>, 5)}
    @@ 5 :> ExtEnd(<<"write_field", "mark">>)
            \cup {Go(Token, 5), T({"="}, <<"write_field", "mark">>, 6)}

ChunkExtValue ==
    6 :> {T(Token, <<"mark">>, 7)} @@ 7 :> ExtEnd(<<>>) \cup {Go(Token, 7)}

HTTPVersion ==
    Word(8, <<"T", "T", "P", "/", "0">>)
    @@ 13 :> {Go({"."}, 14), Go({"0"}, 13)} @@ 14 :> {Go({"0"}, 15)}
    @@ 15 :> {T({"SP"}, <<"http_version">>, 16), Go({"0"}, 15)}

StatusLine ==
    16 :> {T({"0"}, <<"mark">>, 17)}
    @@ 17 :> {T({"SP"}, <<"status_code">>, 18), Go({"0"}, 17)}
    @@ 18 :> {T(Chars \ {"LF"}, <<"mark">>, 19)}
    @@ 19 :> {T({"LF"}, <<"reason_phrase">>, 20), T({"CR"}, <<"reason_phrase">>, 24),
              Go(Chars \ {"LF", "CR"}, 19)}

\* ------------------------------------------------------------ a field's line
HeaderStart ==
    20 :> {T({"LF"}, <<"done">>, 120), Go({"CR"}, 3), T({"c"}, <<"start_field">>, 25),
           T(Case("t"), <<"start_field">>, 44),
           T(Token \ ({"c"} \cup Case("t")), <<"start_field">>, 21)}

Field ==
    21 :> {Go(Token, 21), T({":"}, <<"write_field">>, 22)}
    @@ 22 :> Prefixed({Go(Blank, 22), T({"LF"}, <<"write_value">>, 20),
                       T({"CR"}, <<"write_value">>, 24), Go(Chars \ Space, 23)}, <<"mark">>)
    @@ 23 :> {T({"LF"}, <<"write_value">>, 20), T({"CR"}, <<"write_value">>, 24),
              Go(Chars \ {"LF", "CR"}, 23)}
    @@ 24 :> {Go({"LF"}, 20)}

\* The letters w of a field name from state n on: any other token character
\* makes it a general name, ":" ends it.
Name(n, w) ==
    [s \in n..(n + Len(w) - 1) |->
        {Go(Case(w[s - n + 1]), s + 1), Go(Token \ Case(w[s - n + 1]), 21),
         T({":"}, <<"write_field">>, 22)}]

\* All letters of the name have been read: ":" leads to the field's own value.
Named(n, to) == n :> {Go(Token, 21), T({":"}, <<"write_field">>, to)}

Con ==
    Name(25, <<"o", "n">>)
    @@ 27 :> {Go({"n"}, 28), Go(Case("t"), 101), Go(Token \ ({"n"} \cup Case("t")), 21),
              T({":"}, <<"write_field">>, 22)}

Connection == Name(28, <<"e", "c", "t", "i", "o", "n">>) @@ Named(34, 35)

Transfer == Name(44, <<"r", "a", "n", "s", "f", "e", "r", "-">>)

Encoding == Name(52, <<"e", "n", "c", "o", "d", "i", "n", "g">>) @@ Named(60, 61)

Content == Name(101, <<"e", "n", "t", "-">>)

Length == Name(105, <<"l", "e", "n", "g", "t", "h">>) @@ Named(111, 112)

\* The value of a named field: blanks, then its first character, an empty
\* value (lf, cr), or the value of a general field.
NamedValue(v, lf, cr, first, to) ==
    v :> Prefixed({Go(Blank, v), T({"LF"}, <<"write_value">>, lf),
                   T({"CR"}, <<"write_value">>, cr), Go(first, to),
                   Go(Chars \ (Space \cup first), 23)}, <<"mark">>)

\* The letters w of such a value; any other byte makes it a general value.
ValueWord(n, w) ==
    [s \in n..(n + Len(w) - 1) |->
        {Go(Case(w[s - n + 1]), s + 1), T({"LF"}, <<"write_value">>, 20),
         T({"CR"}, <<"write_value">>, 24),
         Go(Chars \ (Case(w[s - n + 1]) \cup {"LF", "CR"}), 23)}]

\* After the line end of an empty value: the blanks go on (state b), or the
\* line was over and the next one begins; an empty line ends in state fin.
EmptyValue(b, cr2, fin) ==
    {Go(Blank, b), T({"LF"}, <<"done">>, fin), Go({"CR"}, cr2)}

\* The next field after an empty value; `also' in front of what starts with c.
NextField(c, also, digits) ==
    {T(Token \ ({"c"} \cup Case("t") \cup digits), <<"start_field">>, 21),
     T(Case("t"), <<"start_field">>, 44), T({"c"}, also \o <<"start_field">>, c)}

\* The carriage returns of an empty value, the final state it may end in, and
\* the blanks b before its first character.
EmptyRest(cr, lf, cr2, fin, b, first) ==
    cr :> {Go(Blank \cup {"CR"}, b), Go({"LF"}, lf), first}
    @@ cr2 :> {Go(Blank \cup {"CR"}, b), T({"LF"}, <<"done">>, fin), first}
    @@ fin :> {Go(Space, b), first}
    @@ b :> {Go(Space, b), first}

\* ------------------------------------------------------- Connection: close
ConnectionValue ==
    NamedValue(35, 36, 95, {"c"}, 96)
    @@ ValueWord(96, <<"l", "o", "s", "e">>)
    @@ 100 :> {T({"LF"}, <<"write_value">>, 43), T({"CR"}, <<"write_value">>, 88),
               Go(Chars \ {"LF", "CR"}, 23)}

ConnectionEmpty ==
    36 :> EmptyValue(37, 89, 122) \cup NextField(90, <<>>, {})
    @@ EmptyRest(95, 36, 89, 122, 37, Go({"c"}, 38))
    @@ Word(38, <<"l", "o", "s", "e">>)
    @@ 42 :> {Go({"LF"}, 43), Go({"CR"}, 88)}

\* The next line after "close": write_connection_close with its first byte.
AfterClose ==
    43 :> Prefixed(HeaderStart[20], <<"write_connection_close">>)
    @@ 88 :> {Go({"LF"}, 43)}

\* "close" at the start of a line may be the value of the empty field above.
CloseName ==
    90 :> {Go({"l"}, 91), Go({"o"}, 26), Go(Token \ {"l", "o"}, 21),
           T({":"}, <<"write_field">>, 22)}
    @@ Name(91, <<"o", "s", "e">>)
    @@ 94 :> {Go({"LF"}, 43), Go({"CR"}, 88), Go(Token, 21), T({":"}, <<"write_field">>, 22)}

\* ---------------------------------------------- Transfer-Encoding: chunked
ChunkedEnd ==
    {T({"LF"}, <<"write_value", "trans_chunked">>, 20), T({"CR"}, <<"write_value">>, 71)}

TransferValue ==
    NamedValue(61, 62, 80, {"c"}, 81)
    @@ ValueWord(81, <<"h", "u", "n", "k", "e", "d">>)
    @@ 87 :> ChunkedEnd \cup {Go(Chars \ {"LF", "CR"}, 23)}

TransferEmpty ==
    62 :> EmptyValue(63, 72, 121) \cup NextField(73, <<"mark">>, {})
    @@ EmptyRest(80, 62, 72, 121, 63, T({"c"}, <<"mark">>, 64))
    @@ [s \in 64..69 |-> {Go(Case(<<"h", "u", "n", "k", "e", "d">>[s - 63]), s + 1)}]
    @@ 70 :> ChunkedEnd
    @@ 71 :> {T({"LF"}, <<"trans_chunked">>, 20)}

ChunkedName ==
    73 :> {Go(Case("h"), 74), Go({"o"}, 26), Go(Token \ (Case("h") \cup {"o"}), 21),
           T({":"}, <<"write_field">>, 22)}
    @@ Name(74, <<"u", "n", "k", "e", "d">>)
    @@ 79 :> ChunkedEnd \cup {Go(Token, 21), T({":"}, <<"write_field">>, 22)}

\* --------------------------------------------------- Content-Length: digits
LengthEnd ==
    {T({"LF"}, <<"write_content_len", "write_value">>, 20),
     T({"CR"}, <<"write_content_len", "write_value">>, 24)}

LengthValue ==
    NamedValue(112, 113, 118, {"0"}, 119)
    @@ 119 :> LengthEnd \cup {Go({"0"}, 119), Go(Chars \ {"LF", "CR", "0"}, 23)}

LengthEmpty ==
    113 :> EmptyValue(114, 116, 123) \cup NextField(25, <<>>, {"0"})
           \cup {T({"0"}, <<"mark", "start_field">>, 117)}
    @@ EmptyRest(118, 113, 116, 123, 114, T({"0"}, <<"mark">>, 115))
    @@ 115 :> LengthEnd \cup {Go({"0"}, 115)}
    @@ 117 :> LengthEnd \cup {Go({"0"}, 117), Go(Token \ {"0"}, 21),
                              T({":"}, <<"write_field">>, 22)}

Final == 120..123

ResponseTable ==
    FirstByte @@ LastLine @@ ChunkExtName @@ ChunkExtValue @@ HTTPVersion @@ StatusLine
    @@ HeaderStart @@ Field @@ Con @@ Connection @@ Transfer @@ Encoding @@ Content
    @@ Length @@ ConnectionValue @@ ConnectionEmpty @@ AfterClose @@ CloseName
    @@ TransferValue @@ TransferEmpty @@ ChunkedName @@ LengthValue @@ LengthEmpty
=============================================================================
