-------------------------- MODULE HttpRequestTable --------------------------
(* The scanner of HTTP requests, src/http/http11_parser.rl.cc: states 1..349 *)
(* of the goto program, 0 the error, 348 and 349 final.  Three things of the *)
(* grammar are not what its comments say, and the table has them as compiled:*)
(* `6( h16 ":" )' reads the byte 6, not six groups; ("0"-"4") is "0" without *)
(* "4"; (0 - 31) is the byte 0, so that a header may hold control bytes.     *)
EXTENDS HttpTable

\* ----------------------------------------------------------------- classes
\* "3": 3 4 6-9.  "A": A-F, "G": the upper case letters not named here, "a":
\* a-f, "g": the other lower case ones.  "!": ! $ & ' * _ ~.  ";": ( ) , ; =.
\* "ctl": bytes 1 7 8 14-31 and ` |.  "x2".."x6": bytes 2..6.  "VT": 11 12.
\* "dq": " and \.  "hi": a byte over 127.
Digit == {"0", "1", "2", "3", "5"}
HexLetter == {"A", "a"}
Hex == Digit \cup HexLetter
Upper == {"A", "G", "H", "P", "T"}
Alpha == Upper \cup {"a", "g", "v"}
MoreDelims == {"^", "{", "}"}
Chars == Alpha \cup Digit \cup MoreDelims \cup
    {"NUL", "ctl", "x2", "x3", "x4", "x5", "x6", "HT", "LF", "VT", "CR", "SP",
     "!", "dq", "#", "%", ";", "+", "-", ".", "/", ":", "<", ">", "?", "@",
     "[", "]", "DEL", "hi"}

\* unreserved | sub_delims; "more" stands for MoreDelims, taken only by a
\* parser whose uri_relaxed is set.
Plain == Alpha \cup Digit \cup {"!", ";", "+", "-", ".", "more"}
Pchar == Plain \cup {":", "@", "hi"}
Token == Alpha \cup Digit \cup {"ctl", "x2", "x3", "x4", "x5", "x6", "VT", "!",
                               "#", "%", "+", "-", ".", "^"}

\* ------------------------------------------------------------ request line
Start ==
    1 :> {T(Upper \cup Digit, <<"mark">>, 2), T({"<"}, <<"mark">>, 194),
          T({"@"}, <<"mark">>, 198)}
    @@ 2 :> {T({"SP"}, <<"request_method">>, 3), Go(Upper \cup Digit, 175)}

\* A method has at most 20 characters: state 174 + n has read n + 1 of them.
Method ==
    [s \in 175..193 |-> {T({"SP"}, <<"request_method">>, 3)} \cup
                        IF s < 193 THEN {Go(Upper \cup Digit, s + 1)} ELSE {}]

\* The path ends at a blank, "#" or "?" (relative_part %request_path).
EndPath ==
    {T({"SP"}, <<"request_path", "request_uri">>, 4),
     T({"#"}, <<"request_path", "request_uri">>, 20),
     T({"?"}, <<"request_path">>, 29)}

UriStart ==
    3 :> Prefixed(EndPath \cup
                  {Go((Plain \cup {"@"}) \ Alpha, 19), Go({"%"}, 24),
                   Go({"/"}, 33), Go(Alpha, 173)}, <<"mark">>)

\* "HTTP/1." then 0 or 1.
Version ==
    4 :> {T({"H"}, <<"mark">>, 5)}
    @@ Word(5, <<"T", "T", "P", "/", "1", ".">>)
    @@ 11 :> {Go({"0", "1"}, 12)}
    @@ 12 :> {T({"LF"}, <<"http_version">>, 13), T({"CR"}, <<"http_version">>, 17)}

\* ----------------------------------------------------------------- headers
FieldName ==
    13 :> {T(Token, <<"start_field">>, 14), T({"CR"}, <<"start_field">>, 18),
           T({"LF"}, <<"start_field", "done">>, 348)}
    @@ 14 :> {Go(Token \cup {"LF", "CR"}, 14), T({":"}, <<"write_field">>, 15)}

FieldValue ==
    15 :> {T(Chars \ {"NUL", "HT", "SP", "LF", "CR", "DEL"}, <<"mark">>, 16),
           T({"HT", "SP"}, <<"mark">>, 15),
           T({"LF"}, <<"mark", "write_value">>, 13),
           T({"CR"}, <<"mark", "write_value">>, 17)}
    @@ 16 :> {Go(Chars \ {"NUL", "LF", "CR", "DEL"}, 16),
              T({"LF"}, <<"write_value">>, 13), T({"CR"}, <<"write_value">>, 17)}
    @@ 17 :> {Go({"LF"}, 13)}

\* After a carriage return at the start of a header line: the end of the
\* head, or a field name that begins with it.  A line feed is a Token byte for
\* the compiled grammar, so that the final state too goes on with a field name.
HeaderEnd ==
    18 :> {Go(Token \cup {"CR"}, 14), T({":"}, <<"write_field">>, 15),
           T({"LF"}, <<"done">>, 348)}
    @@ 348 :> {Go(Token \cup {"LF", "CR"}, 14), T({":"}, <<"write_field">>, 15)}

\* ------------------------------------------------------ path, query, fragment
FirstSegment ==
    19 :> EndPath \cup {Go(Plain \cup {"@"}, 19), Go({"%"}, 24), Go({"/"}, 26)}

Segment ==
    Pct(24, Hex, 19)
    @@ 26 :> EndPath \cup {Go(Pchar \cup {"/"}, 26), Go({"%"}, 27)}
    @@ Pct(27, Hex, 26)

FragmentStart ==
    20 :> {T({"SP"}, <<"mark", "fragment">>, 4), T({"%"}, <<"mark">>, 22),
           T(Pchar \cup {"/", "?"}, <<"mark">>, 21)}

Fragment ==
    21 :> {T({"SP"}, <<"fragment">>, 4), Go(Pchar \cup {"/", "?"}, 21), Go({"%"}, 22)}
    @@ Pct(22, Hex, 21)

EndQuery ==
    {T({"SP"}, <<"query_string", "request_uri">>, 4),
     T({"#"}, <<"query_string", "request_uri">>, 20)}

QueryStart ==
    29 :> Prefixed(EndQuery \cup {Go(Pchar \cup {"/", "?"}, 30), Go({"%"}, 31)},
                   <<"start_query">>)

Query ==
    30 :> EndQuery \cup {Go(Pchar \cup {"/", "?"}, 30), Go({"%"}, 31)}
    @@ Pct(31, Hex, 30)

\* scheme ":": the mark moves behind the colon, the scheme is not reported.
Scheme ==
    173 :> EndPath \cup {Go((Plain \cup {"@"}) \ (Alpha \cup Digit \cup {"+", "-", "."}), 19),
                         Go({"%"}, 24), Go(Alpha \cup Digit \cup {"+", "-", "."}, 173),
                         Go({"/"}, 26), Go({":"}, 174)}
    @@ 174 :> Prefixed(EndPath \cup {Go(Pchar, 26), Go({"%"}, 27), Go({"/"}, 33)},
                       <<"mark">>)

\* -------------------------------------------------------------- authority
\* The states 33..172 exist twice: k = 0 in the URI of a request, k = Json in
\* the "@" form of a JSON message, where a blank is the only end of the path.
Json == 175
Rest(k) == IF k = 0 THEN 26 ELSE 205
PathEnds(k) == IF k = 0 THEN EndPath ELSE {T({"SP"}, <<"request_path">>, 199)}

HierPath(k) ==
    33 + k :> PathEnds(k) \cup {Go(Pchar, Rest(k)), Go({"%"}, Rest(k) + 1), Go({"/"}, 34 + k)}

\* "//" has been read: userinfo, a name, a port or an IP literal may follow.
AuthorityStart(k) ==
    34 + k :> PathEnds(k) \cup {Go(Plain, 35 + k), Go({"%"}, 36 + k), Go({"/"}, Rest(k)),
                            Go({":"}, 38 + k), Go({"@"}, 42 + k), Go({"["}, 47 + k)}

RegName(k) ==
    35 + k :> PathEnds(k) \cup {Go(Plain, 35 + k), Go({"%"}, 36 + k), Go({"/"}, Rest(k)),
                            Go({":"}, 38 + k), Go({"@"}, 42 + k)}
    @@ Pct(36 + k, Hex, 35 + k)

UserinfoOrPort(k) ==
    38 + k :> PathEnds(k) \cup {Go((Plain \ Digit) \cup {":"}, 39 + k), Go({"%"}, 40 + k),
                            Go({"/"}, Rest(k)), Go(Digit, 38 + k), Go({"@"}, 42 + k)}

Userinfo(k) ==
    39 + k :> {Go(Plain \cup {":"}, 39 + k), Go({"%"}, 40 + k), Go({"@"}, 42 + k)}
    @@ Pct(40 + k, Hex, 39 + k)

HostName(k) ==
    43 + k :> PathEnds(k) \cup {Go(Plain, 43 + k), Go({"%"}, 44 + k), Go({"/"}, Rest(k)),
                            Go({":"}, 46 + k)}
    @@ Pct(44 + k, Hex, 43 + k)

HostStart(k) == 42 + k :> HostName(k)[43 + k] \cup {Go({"["}, 47 + k)}

Port(k) == 46 + k :> PathEnds(k) \cup {Go({"/"}, Rest(k)), Go(Digit, 46 + k)}

AfterLiteral(k) ==
    61 + k :> PathEnds(k) \cup {Go({"/"}, Rest(k)), Go({":"}, 46 + k)}

\* ------------------------------------------------------------- IP literals
\* h16: one to four hexadecimal digits in the states n..n + 3, then ":".
Group(n, colon) ==
    [s \in n..n + 3 |-> {Go({":"}, colon)} \cup
                        IF s < n + 3 THEN {Go(Hex, s + 1)} ELSE {}]

LiteralStart(k) ==
    47 + k :> {Go({"x6"}, 48 + k), Go(Hex, 91 + k), Go({":"}, 167 + k), Go({"v"}, 169 + k)}
    @@ 48 + k :> {Go(Hex, 49 + k)}
    @@ Group(49 + k, 53 + k)

\* The first digit of a group that may also be an octet of an IPv4 address:
\* d for 0 and 3-9, o for 1, o + 3 for 2, o + 6 for a letter.
FirstDigit(d, o) ==
    {Go({"0", "3", "5"}, d), Go({"1"}, o), Go({"2"}, o + 3), Go(HexLetter, o + 6)}

\* Such a group: as digits it goes on in h..h + 2, "." makes it an octet.
OctetOrHex(k, d, h, o, ends) ==
    LET dot == Go({"."}, 55 + k)
        row(ts) == ends \cup ts IN
    d :> row({dot, Go(Hex, h)})
    @@ [s \in h..h + 2 |-> row(IF s < h + 2 THEN {Go(Hex, s + 1)} ELSE {})]
    @@ o :> row({dot, Go(Digit, o + 1), Go(HexLetter, h)})
    @@ o + 1 :> row({dot, Go(Digit, o + 2), Go(HexLetter, h + 1)})
    @@ o + 2 :> row({dot, Go(Hex, h + 2)})
    @@ o + 3 :> row({dot, Go({"0"}, o + 4), Go({"5"}, o + 5), Go(Hex \ {"0", "5"}, h)})
    @@ o + 4 :> row({Go(Digit, o + 2), Go(HexLetter, h + 1)})
    @@ o + 5 :> row({Go({"0"}, o + 2), Go(Hex \ {"0"}, h + 1)})
    @@ o + 6 :> row({Go(Hex, h)})

Close(k) == Go({"]"}, 61 + k)

\* The last two groups: ls32.
LowGroup(k) ==
    53 + k :> FirstDigit(54 + k, 84 + k)
    @@ OctetOrHex(k, 54 + k, 77 + k, 84 + k, {Go({":"}, 80 + k)})

LastGroup(k) ==
    80 + k :> {Go(Hex, 81 + k)}
    @@ [s \in (81 + k)..(83 + k) |->
            {Close(k), Go(Hex, IF s = 83 + k THEN 60 + k ELSE s + 1)}]

\* An octet that starts at s: d after its last possible digit, o after a 1,
\* t after a 2.
DecOctet(s, d, o, t, end) ==
    s :> {Go({"0", "3", "5"}, d), Go({"1"}, o), Go({"2"}, t)}
    @@ d :> {end}
    @@ o :> {end, Go(Digit, o + 1)} @@ o + 1 :> {end, Go(Digit, d)}
    @@ t :> {end, Go({"0"}, t + 1), Go({"5"}, t + 2)}
    @@ t + 1 :> {Go(Digit, d)} @@ t + 2 :> {Go({"0"}, d)}

Octets(k) ==
    DecOctet(55 + k, 56 + k, 72 + k, 74 + k, Go({"."}, 57 + k))
    @@ DecOctet(57 + k, 58 + k, 67 + k, 69 + k, Go({"."}, 59 + k))
    @@ DecOctet(59 + k, 60 + k, 62 + k, 64 + k, Close(k))

\* The groups in front of "::": after the n-th a second colon leads to what
\* may follow a "::" there, and the seventh may be repeated.
Groups(k) ==
    LET first(n) == 86 + 5 * n + k
        double == <<166, 165, 164, 163, 151, 150, 126>>
        number(s) == (s - 86 - k) \div 5
        place(s) == (s - 86 - k) % 5 IN
    [s \in first(1)..first(7) + 4 |->
        IF place(s) = 4
        THEN {Go(Hex, first(IF number(s) = 7 THEN 7 ELSE number(s) + 1)),
              Go({":"}, double[number(s)] + k)}
        ELSE Group(first(number(s)), first(number(s)) + 4)[s]]

\* What may follow "::", by the number of groups in front of it.
DoubleColon(k) ==
    163 + k :> {Go({"x2", "x3"}, 48 + k), Go(Hex, 49 + k)}
    @@ 164 + k :> {Go({"x2", "x3"}, 48 + k)}
    @@ 165 + k :> {Go({"x3"}, 48 + k)}
    @@ 166 + k :> {Go({"x4"}, 48 + k)}
    @@ 167 + k :> {Go({":"}, 168 + k)}
    @@ 168 + k :> {Go({"x2", "x3", "x4", "x5"}, 48 + k), Close(k)}
                  \cup FirstDigit(127 + k, 143 + k)

AfterSeven(k) ==
    126 + k :> {Go({"x2", "x3"}, 48 + k), Close(k)} \cup FirstDigit(127 + k, 143 + k)
    @@ 131 + k :> FirstDigit(132 + k, 136 + k)

AfterSix(k) ==
    OctetOrHex(k, 127 + k, 128 + k, 143 + k, {Go({":"}, 131 + k), Close(k)})
    @@ 150 + k :> {Go({"x2", "x3"}, 48 + k)} \cup FirstDigit(127 + k, 143 + k)

LastButOne(k) == OctetOrHex(k, 132 + k, 133 + k, 136 + k, {Go({":"}, 80 + k), Close(k)})

AfterFive(k) ==
    151 + k :> {Go({"x2", "x3"}, 48 + k)} \cup FirstDigit(152 + k, 156 + k)
    @@ OctetOrHex(k, 152 + k, 153 + k, 156 + k, {Go({":"}, 131 + k)})

IPvFuture(k) ==
    169 + k :> {Go(Hex, 170 + k)}
    @@ 170 + k :> {Go(Hex, 170 + k), Go({"."}, 171 + k)}
    @@ 171 + k :> {Go(Plain \cup {":"}, 172 + k)}
    @@ 172 + k :> {Go(Plain \cup {":"}, 172 + k), Close(k)}

\* ------------------------------------------------- XML and JSON messages
SocketXML ==
    194 :> {Go(Alpha \cup Digit \cup {"-", "."}, 195)}
    @@ 195 :> {Go(Alpha \cup Digit \cup {"-", "."}, 195),
               T({"HT", "LF", "VT", "CR", "SP", "/", ">"}, <<"request_path">>, 196)}
    @@ 196 :> {Go({">"}, 197), Go(Chars \ {">"}, 196)}
    @@ 197 :> {Go({">"}, 197), Go(Chars \ {">", "NUL"}, 196),
               T({"NUL"}, <<"xml", "done">>, 349)}
    @@ 349 :> {}

SocketJSON ==
    198 :> {T({"SP"}, <<"request_path">>, 199), Go(Plain \cup {"@"}, 202),
            Go({"%"}, 203), Go({"/"}, 208)}
    @@ 199 :> {T({"{"}, <<"mark">>, 200)}
    @@ 200 :> {Go({"}"}, 201), Go(Chars \ {"}"}, 200)}
    @@ 201 :> {Go({"}"}, 201), Go(Chars \ {"}", "NUL"}, 200),
               T({"NUL"}, <<"json", "done">>, 349)}

JsonFirstSegment ==
    202 :> PathEnds(Json) \cup {Go(Plain \cup {"@"}, 202), Go({"%"}, 203), Go({"/"}, 205)}
    @@ Pct(203, Hex, 202)

JsonSegment ==
    205 :> PathEnds(Json) \cup {Go(Pchar \cup {"/"}, 205), Go({"%"}, 206)}
    @@ Pct(206, Hex, 205)

JsonHierPath == HierPath(Json)
JsonAuthorityStart == AuthorityStart(Json)
JsonRegName == RegName(Json)
JsonUserinfoOrPort == UserinfoOrPort(Json)
JsonUserinfo == Userinfo(Json)
JsonHostStart == HostStart(Json)
JsonHostName == HostName(Json)
JsonPort == Port(Json)
JsonLiteralStart == LiteralStart(Json)
JsonAfterLiteral == AfterLiteral(Json)
JsonOctets == Octets(Json)
JsonLowGroup == LowGroup(Json)
JsonLastGroup == LastGroup(Json)
JsonGroups == Groups(Json)
JsonAfterSeven == AfterSeven(Json)
JsonAfterSix == AfterSix(Json)
JsonLastButOne == LastButOne(Json)
JsonAfterFive == AfterFive(Json)
JsonDoubleColon == DoubleColon(Json)
JsonIPvFuture == IPvFuture(Json)

\* ---------------------------------------------------------------- the whole
\* http_parser_first_final and above.
Final == {348, 349}

RequestTable ==
    Start @@ Method @@ UriStart @@ Version @@ FieldName @@ FieldValue @@ HeaderEnd
    @@ FirstSegment @@ Segment @@ FragmentStart @@ Fragment @@ QueryStart @@ Query
    @@ Scheme @@ HierPath(0) @@ AuthorityStart(0) @@ RegName(0) @@ UserinfoOrPort(0)
    @@ Userinfo(0) @@ HostStart(0) @@ HostName(0) @@ Port(0) @@ AfterLiteral(0)
    @@ LiteralStart(0) @@ LowGroup(0) @@ LastGroup(0) @@ Octets(0) @@ Groups(0)
    @@ AfterSeven(0) @@ AfterSix(0) @@ LastButOne(0) @@ AfterFive(0)
    @@ DoubleColon(0) @@ IPvFuture(0) @@ SocketXML @@ SocketJSON
    @@ JsonFirstSegment @@ JsonSegment @@ JsonHierPath @@ JsonAuthorityStart
    @@ JsonRegName @@ JsonUserinfoOrPort @@ JsonUserinfo @@ JsonHostStart
    @@ JsonHostName @@ JsonPort @@ JsonAfterLiteral @@ JsonLiteralStart
    @@ JsonLowGroup @@ JsonLastGroup @@ JsonOctets @@ JsonGroups
    @@ JsonAfterSeven @@ JsonAfterSix @@ JsonLastButOne @@ JsonAfterFive
    @@ JsonDoubleColon @@ JsonIPvFuture
=============================================================================
