-------------------------- MODULE HttpRequestParser --------------------------
(* HttpRequestParser (src/http/http_request.cc) around the compiled scanner   *)
(* (http11_parser.rl.cc).  A request reaches the parser in pieces: a caller   *)
(* reads what the socket has and calls execute on it, as often as it takes.   *)
(* The state of the scanner survives a call, the positions it remembers of    *)
(* the old buffer do not, except query_start.                                 *)
EXTENDS HttpRequestTable, FiniteSets

CONSTANTS MaxLen   \* bytes in the longest buffer given to execute

ASSUME MaxLenAssumption == MaxLen \in Nat \ {0}

VARIABLES
    parser,   \* the http_parser structure
    call,     \* the execute call under way: its scan's [pc, cs, p]
    req,      \* the parts of the HttpRequest that are not its defaults any more
    begun,    \* ghost: where each open token really begins in this buffer
    cb,       \* ghost: the callbacks of the last step: token, text, cut by a call
    over      \* ghost: a call was made on a finished parser

vars == <<parser, call, req, begun, cb, over>>

\* "colon" is the end of a field name, which write_field remembers; "data" is
\* the body of an XML or JSON message.
Tokens == {"method", "path", "query", "fragment", "version", "field", "colon", "value", "data"}
Parts == {"method", "path", "query", "fragment", "version", "field"}

----------------------------------------------------------------------------
\* HttpRequestParser(): http_parser_init sets neither query_start nor
\* uri_relaxed, so both are what the memory held; Unset is a query_start that
\* would show if it were used.
Unset == MaxLen + 1

Init ==
    /\ parser \in [cs : {1}, mark : {0}, field_start : {0}, field_len : {0},
                   query_start : {Unset}, body_start : {0}, content_len : {0},
                   nread : {0}, xml_sent : {FALSE}, json_sent : {FALSE},
                   uri_relaxed : BOOLEAN]
    /\ call = [pc |-> "idle", cs |-> 1, p |-> 0]
    /\ req = {}
    /\ begun = [t \in Tokens |-> Closed]
    /\ cb = {}
    /\ over = FALSE

\* Faulty variant: mark is left where it was in the old buffer.
ResetKeepsMark(q) == [q EXCEPT !.nread = 0, !.field_len = 0, !.field_start = 0]

\* What every call of http_parser_execute forgets.
Reset(q) == [q EXCEPT !.nread = 0, !.mark = 0, !.field_len = 0, !.field_start = 0]

\* Faulty variant: every call starts a new request.
ExecuteAnew ==
    /\ call.pc = "idle"
    /\ call' = [pc |-> "scan", cs |-> 1, p |-> 0]
    /\ parser' = Reset(parser)
    /\ over' = (over \/ parser.cs \in Final)
    /\ cb' = {}
    /\ UNCHANGED <<req, begun>>

\* http_parser_execute(buffer, len, 0) up to the first character.  The caller
\* passes the bytes that follow the ones already read; how many they are shows
\* when the scan comes to their end.
Execute ==
    /\ call.pc = "idle"
    /\ call' = [pc |-> "scan", cs |-> parser.cs, p |-> 0]
    /\ parser' = Reset(parser)
    /\ over' = (over \/ parser.cs \in Final)
    /\ cb' = {}
    /\ UNCHANGED <<req, begun>>

Matches(t, c) == c \in t.on \/ (parser.uri_relaxed /\ c \in MoreDelims /\ "more" \in t.on)

\* The tokens whose first character is read in state s (towards state `to').
Begins(s, to) ==
    CASE s = 1 -> CASE to = 2 -> {"method"} [] to = 194 -> {"path", "data"} [] OTHER -> {"path"}
      [] s \in {3, 174} -> {"path"}
      [] s = 4 -> {"version"} [] s = 20 -> {"fragment"} [] s = 29 -> {"query"}
      [] s = 13 -> {"field"} [] s = 15 -> {"value"} [] s = 199 -> {"data"}
      [] OTHER -> {}

\* The actions that report the text from mark on, and the token it is.
FromMark == [request_method |-> "method", request_path |-> "path", fragment |-> "fragment",
             http_version |-> "version"]

\* The callbacks an action of the grammar makes: token, first byte, length.
\* For the body of a message `done' stores them in the structure.
Reports(act, q, p) ==
    CASE act \in DOMAIN FromMark -> {<<FromMark[act], q.mark, LEN(q.mark, p)>>}
      [] act = "query_string" -> {<<"query", q.query_start, LEN(q.query_start, p)>>}
      [] act = "write_value" -> {<<"field", q.field_start, q.field_len>>,
                                 <<"value", q.mark, LEN(q.mark, p)>>}
      [] act = "done" /\ (q.xml_sent \/ q.json_sent) -> {<<"data", q.mark, p - q.mark + 1>>}
      [] OTHER -> {}

\* Faulty variant: the body starts at the last character of the head.
DoneEarly(q, p) ==
    IF q.xml_sent \/ q.json_sent
    THEN [q EXCEPT !.body_start = q.mark, !.content_len = p - q.mark + 1]
    ELSE [q EXCEPT !.body_start = p]

\* The action done: where the body starts, and how long a message is.
Done(q, p) ==
    IF q.xml_sent \/ q.json_sent
    THEN [q EXCEPT !.body_start = q.mark, !.content_len = p - q.mark + 1]
    ELSE [q EXCEPT !.body_start = p + 1]

\* The change an action makes in the structure.  The callbacks request_uri and
\* header_done are null in HttpRequestParser.
Apply(act, q, p) ==
    CASE act = "mark" -> [q EXCEPT !.mark = p]
      [] act = "start_field" -> [q EXCEPT !.field_start = p]
      [] act = "start_query" -> [q EXCEPT !.query_start = p]
      [] act = "write_field" -> [q EXCEPT !.field_len = LEN(q.field_start, p)]
      [] act = "xml" -> [q EXCEPT !.xml_sent = TRUE]
      [] act = "json" -> [q EXCEPT !.json_sent = TRUE]
      [] act = "done" -> Done(q, p)
      [] OTHER -> q

\* The structure after the first n actions of a transition.
Applied(do, p) ==
    LET f[n \in 0..Len(do)] == IF n = 0 THEN parser ELSE Apply(do[n], f[n - 1], p) IN f

\* Every callback of a transition, with the structure it sees.
Reported(do, p) == UNION {Reports(do[n], Applied(do, p)[n - 1], p) : n \in 1..Len(do)}

\* The tokens that are over after the actions of a transition.
Closes(do) ==
    LET ends == [request_method |-> {"method"}, request_path |-> {"path"},
                 query_string |-> {"query"}, fragment |-> {"fragment"},
                 http_version |-> {"version"}, done |-> Tokens,
                 write_value |-> {"field", "colon", "value"}] IN
    UNION {ends[a] : a \in {do[n] : n \in 1..Len(do)} \cap DOMAIN ends}

Transitions(s) == IF s = Error THEN {} ELSE RequestTable[s]

\* One character that the state has a transition for.  The string of a query
\* whose length is negative cannot be built: std::length_error leaves the
\* scanner, which then never stores its state.
Scan(t) ==
    LET p == call.p
        b == [k \in Tokens |-> CASE k \in Begins(call.cs, t.to) -> p
                                 [] k = "colon" /\ "write_field" \in {t.do[n] : n \in 1..Len(t.do)} -> p
                                 [] OTHER -> begun[k]]
        said == Reported(t.do, p)
        text(r) == TextOf(b[r[1]], r[2], r[3], CASE r[1] = "field" -> b["colon"]
                                                 [] r[1] = "data" -> p + 1
                                                 [] OTHER -> p)
        texts == [k \in {r[1] : r \in said} |-> text(CHOOSE r \in said : r[1] = k)]
    IN
    /\ call.pc = "scan" /\ call.p < MaxLen
    /\ \E c \in Chars : Matches(t, c)
    /\ parser' = Applied(t.do, p)[Len(t.do)]
    /\ IF \E r \in said : r[3] < 0
       THEN /\ call' = [call EXCEPT !.pc = "thrown"]
            /\ cb' = {[token |-> "query", text |-> "thrown", cut |-> b["query"] = Earlier]}
            /\ UNCHANGED <<req, begun>>
       ELSE /\ call' = [call EXCEPT !.cs = t.to, !.p = p + 1,
                                    !.pc = IF t.to \in Final THEN "end" ELSE "scan"]
            /\ req' = req \cup (DOMAIN texts \cap Parts)
            /\ cb' = {[token |-> k, text |-> texts[k], cut |-> b[k] = Earlier] : k \in DOMAIN texts}
            /\ begun' = [k \in Tokens |-> IF k \in Closes(t.do) THEN Closed ELSE b[k]]
    /\ UNCHANGED over

\* A character without a transition: goto st0, the character is not consumed.
Reject ==
    /\ call.pc = "scan" /\ call.p < MaxLen
    /\ \E c \in Chars : \A t \in Transitions(call.cs) : ~Matches(t, c)
    /\ call' = [call EXCEPT !.cs = Error, !.pc = "end"]
    /\ cb' = {}
    /\ UNCHANGED <<parser, req, begun, over>>

\* Faulty variant: the body is taken to start inside the buffer.
AssertsBody(q, len) ==
    /\ q.nread <= len /\ q.body_start < len /\ q.mark < len
    /\ q.field_len <= len /\ q.field_start < len

\* The asserts at the end of http_parser_execute (the build keeps them).
Asserts(q, len) ==
    /\ q.nread <= len /\ q.body_start <= len /\ q.mark < len
    /\ q.field_len <= len /\ q.field_start < len

\* The end of http_parser_execute and of HttpRequestParser::execute, which
\* moves the bytes that were not consumed to the front of the buffer.  The
\* buffer had len bytes: all are read unless the scan ended before.
Return(len) ==
    LET q == [parser EXCEPT !.cs = IF @ = Error THEN @ ELSE call.cs, !.nread = @ + call.p] IN
    /\ \/ call.pc = "end" /\ len >= IF call.cs = Error THEN call.p + 1 ELSE call.p
       \/ call.pc = "scan" /\ len = call.p
    /\ parser' = q
    /\ call' = [pc |-> IF Asserts(q, len) THEN "idle" ELSE "aborted", cs |-> q.cs, p |-> 0]
    /\ begun' = [t \in Tokens |-> IF begun[t] = Closed THEN Closed ELSE Earlier]
    /\ cb' = {}
    /\ UNCHANGED <<req, over>>

Next ==
    \/ Execute
    \/ \E t \in Transitions(call.cs) : Scan(t)
    \/ Reject
    \/ \E len \in 1..MaxLen : Return(len)

Spec == Init /\ [][Next]_vars

----------------------------------------------------------------------------
(* What a state of the scanner says about the bytes read so far.  These facts *)
(* hold of the table as it stands, whatever MaxLen is.                        *)

\* The open tokens that mark points to the first byte of.
MarkTokens(s) ==
    CASE s = 2 \/ s \in 175..193 -> {"method"} [] s \in 5..12 -> {"version"}
      [] s \in 21..23 -> {"fragment"} [] s = 16 -> {"value"}
      [] s \in {194, 195} -> {"path", "data"} [] s \in {196, 197, 200, 201} -> {"data"}
      [] s \in {19, 198} \cup 24..28 \cup 33..173 \cup 202..347 -> {"path"}
      [] OTHER -> {}

\* In the name of a field; between its colon and the report of its value; in a
\* query.
NameStates == {14, 18}
LineStates == {15, 16}
QueryStates == 30..32

\* The parts that were reported before a state, and those that may have been.
Must(s) ==
    CASE s = 3 \/ s = 19 \/ s \in 24..28 \/ s \in 33..174 -> {"method"}
      [] s \in 4..12 \/ s \in 20..23 \/ s \in 29..32 -> {"method", "path"}
      [] s \in 13..18 \/ s = 348 -> {"method", "path", "version"}
      [] s \in {196, 197, 199, 200, 201, 349} -> {"path"}
      [] OTHER -> {}
May(s) ==
    CASE s \in 20..23 -> Must(s) \cup {"query"}
      [] s \in 4..12 -> Must(s) \cup {"query", "fragment"}
      [] s \in 13..18 \/ s = 348 \/ s = Error -> Parts
      [] OTHER -> Must(s)

Actions == {"mark", "start_field", "start_query", "write_field", "write_value", "request_method",
            "request_path", "request_uri", "query_string", "fragment", "http_version", "xml",
            "json", "done"}

\* A transition has at most three actions; done is the last one and what leads
\* to a final state, and a name is not begun and ended.
WellFormed(t) ==
    /\ t.do \in Seq(Actions) /\ Len(t.do) <= 3 /\ t.to \in DOMAIN RequestTable
    /\ Does(t, "done") <=> t.to \in Final
    /\ ~Did(t.do, Len(t.do) - 1, "done")
    /\ Does(t, "xml") \/ Does(t, "json") => Does(t, "done")
    /\ ~(Does(t, "start_field") /\ Does(t, "write_field"))

\* The token k begins at the position that `set' stores, when n actions of t
\* are done; `before' says that it did so before t.
Stored(s, t, n, set, k, before) ==
    IF Did(t.do, n, set) THEN k \in Begins(s, t.to) ELSE before /\ k \notin Begins(s, t.to)
Marked(s, t, n, k) == Stored(s, t, n, "mark", k, k \in MarkTokens(s))

\* A query is reported only when query_start was set for it.
Queried(s, t) ==
    /\ \A n \in 1..Len(t.do) : t.do[n] = "query_string" =>
         Stored(s, t, n - 1, "start_query", "query", s \in QueryStates)
    /\ t.to \in QueryStates =>
         /\ Stored(s, t, Len(t.do), "start_query", "query", s \in QueryStates)
         /\ "query" \notin Closes(t.do)

\* Any other token is reported only when mark or field_start is where it begins,
\* and t leaves them where the next state needs them.
Disciplined(s, t) ==
    /\ \A n \in 1..Len(t.do) :
         /\ t.do[n] \in DOMAIN FromMark => Marked(s, t, n - 1, FromMark[t.do[n]])
         /\ t.do[n] = "done" /\ (Does(t, "xml") \/ Does(t, "json")) => Marked(s, t, n - 1, "data")
         /\ t.do[n] = "write_value" =>
              /\ Marked(s, t, n - 1, "value")
              /\ s \in LineStates /\ "field" \notin Begins(s, t.to)
              /\ ~Does(t, "start_field") /\ ~Does(t, "write_field")
    /\ \A k \in MarkTokens(t.to) : Marked(s, t, Len(t.do), k) /\ k \notin Closes(t.do)
    /\ t.to \in NameStates =>
         /\ Stored(s, t, Len(t.do), "start_field", "field", s \in NameStates)
         /\ "field" \notin Closes(t.do)
    /\ t.to \in LineStates =>
         /\ ~Does(t, "start_field") /\ {"field", "colon"} \cap (Begins(s, t.to) \cup Closes(t.do)) = {}
         /\ IF Does(t, "write_field") THEN s \in NameStates ELSE s \in LineStates

\* The parts of the request that a transition reports, and their order.
PartOf == [request_method |-> "method", request_path |-> "path", query_string |-> "query",
           fragment |-> "fragment", http_version |-> "version", write_value |-> "field"]
Ordered(s, t) ==
    LET new == {PartOf[a] : a \in {x \in DOMAIN PartOf : Does(t, x)}} IN
    /\ Must(t.to) \subseteq Must(s) \cup new /\ May(s) \cup new \subseteq May(t.to)
    /\ new \cap May(s) \subseteq {"field"}
    /\ new \cap {"query", "fragment", "version"} # {} => "path" \in Must(s)
    /\ "version" \in new => "method" \in Must(s)
    /\ "query" \in new => May(s) \cap {"fragment", "version"} = {}
    /\ "fragment" \in new => "version" \notin May(s)
    /\ "field" \in new => "version" \in Must(s)

ASSUME TableFacts ==
    /\ 1 \in DOMAIN RequestTable
    /\ \A s \in DOMAIN RequestTable \ {Error} : \A t \in RequestTable[s] :
         /\ WellFormed(t) /\ Queried(s, t)
         /\ Begins(s, t.to) \subseteq Tokens \ {"colon"}
         /\ s \notin Final => Disciplined(s, t) /\ Ordered(s, t)

----------------------------------------------------------------------------
Idle == call.pc = "idle"

\* Type invariant: no position points behind the buffer.
TypeOK ==
    /\ parser.cs \in DOMAIN RequestTable \cup {Error}
    /\ call.cs \in DOMAIN RequestTable \cup {Error} /\ call.p \in 0..MaxLen
    /\ call.pc \in {"idle", "scan", "end", "thrown", "aborted"}
    /\ \A f \in {"mark", "field_start", "body_start"} : parser[f] \in 0..MaxLen
    /\ req \subseteq Parts
    /\ begun \in [Tokens -> {Closed, Earlier} \cup 0..(MaxLen - 1)]
    /\ \A r \in cb : r.token \in Tokens /\ r.text \in Texts \cup {"thrown"}

\* Every callback is given exactly its token when the token lies in one buffer,
\* whatever was cut before it.  A token that a call cut loses its first part;
\* for a field cut in its value the whole name is lost; only of a query nothing
\* can be said, because query_start still belongs to the old buffer.
CallbacksExact ==
    \A r \in cb : ~over =>
        /\ ~r.cut => r.text = "whole"
        /\ r.cut /\ r.token # "query" => r.text \in {"rest", "empty"}

\* The scanner leaves by an exception only for a query cut by a call, and an
\* assert fails only when a finished parser is used again; no position points
\* behind the longest buffer.
StopsOnlyWhenMisused ==
    /\ TypeOK
    /\ call.pc = "thrown" => \E r \in cb : r.token = "query" /\ r.cut
    /\ call.pc = "aborted" => over

\* A parser that reports the end of a request head has given the HttpRequest
\* its method, path and version; one that reports an XML or JSON message has
\* given it the path alone.  The body begins at the first byte execute did
\* not consume; an XML or JSON message ends there.
HeadComplete ==
    ~over => /\ parser.cs = 348 => {"method", "path", "version"} \subseteq req
             /\ parser.cs = 349 => req = {"path"}
             /\ Idle /\ parser.cs \in Final => parser.body_start + parser.content_len = parser.nread

\* The parts of the request line are reported once and in their order, however
\* the line is cut into buffers: the version after method and path, the fields
\* after the version, the query after the path, the fragment last.
PartsInOrder ==
    [][\A r \in cb' : ~over =>
          /\ r.token \in Parts \ {"field"} => r.token \notin req
          /\ r.token \in {"query", "fragment", "version"} => "path" \in req \/ \E o \in cb' : o.token = "path"
          /\ r.token = "version" => "method" \in req
          /\ r.token = "query" => req \cap {"fragment", "version"} = {}
          /\ r.token = "fragment" => "version" \notin req
          /\ r.token = "field" => "version" \in req]_vars
=============================================================================
