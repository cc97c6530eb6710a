------------------------- MODULE HttpResponseParser -------------------------
(* HttpParserResponce (src/http/http_responce.cc) around the compiled scanner *)
(* of responses and chunk headers (httpclient_parser.rl.cc).  As in           *)
(* HttpRequestParser, a message reaches it in pieces and only the scanner's   *)
(* state survives a call of execute.                                          *)
EXTENDS HttpResponseTable, FiniteSets

CONSTANTS MaxLen   \* bytes in the longest buffer given to execute

ASSUME MaxLenAssumption == MaxLen \in Nat \ {0}

VARIABLES
    parser,   \* the httpclient_parser structure; content_len is the text that
              \* strtol read it from.  status and chunks_done are left out: they
              \* are set beside a callback and never read
    call,     \* the execute call under way: its scan's [pc, cs, p], what it returned
    res,      \* the parts of the HttpResponce that were set
    begun,    \* ghost: where each open token really begins in this buffer
    cb,       \* ghost: the callbacks of the last step: token, text, cut, at
    over      \* ghost: a call was made on a finished parser

vars == <<parser, call, res, begun, cb, over>>

\* "colon" is the end of a field's name.
Tokens == {"version", "status", "reason", "size", "field", "colon", "value"}

----------------------------------------------------------------------------
\* HttpParserResponce() and httpclient_parser_init.
Init ==
    /\ parser = [cs |-> 1, mark |-> 0, field_start |-> 0, field_len |-> 0,
                 body_start |-> 0, content_len |-> "unset", chunked |-> FALSE,
                 close |-> FALSE, nread |-> 0]
    /\ call = [pc |-> "idle", cs |-> 1, p |-> 0, ret |-> "nread"]
    /\ res = {}
    /\ begun = [t \in Tokens |-> Closed]
    /\ cb = {}
    /\ over = FALSE

\* Faulty variant: mark is left where it was in the old buffer.
ResetKeepsMark(q) == [q EXCEPT !.nread = 0, !.field_len = 0, !.field_start = 0]

\* What every call of httpclient_parser_execute forgets.
Reset(q) == [q EXCEPT !.nread = 0, !.mark = 0, !.field_len = 0, !.field_start = 0]

\* httpclient_parser_execute(buffer, len, 0) up to the first character.
Execute ==
    /\ call.pc = "idle"
    /\ call' = [pc |-> "scan", cs |-> parser.cs, p |-> 0, ret |-> "nread"]
    /\ parser' = Reset(parser)
    /\ over' = (over \/ parser.cs \in Final)
    /\ cb' = {}
    /\ UNCHANGED <<res, begun>>

\* The tokens whose first character is read in state s (towards state `to').
Begins(s, to) ==
    CASE s = 1 -> IF to = 2 THEN {"size"} ELSE {"version"}
      [] s = 16 -> {"status"} [] s = 18 -> {"reason"} [] s = 4 -> {"field"}
      [] s = 20 \/ s = 43 \/ s = 36 \/ s = 62 \/ s = 113 ->
            CASE to \in {21, 25, 44, 90} -> {"field"}
              [] to \in {73, 117} -> {"field", "value"}
              [] OTHER -> {}
      [] s \in {6, 22, 35, 61, 112} \/ (s = 5 /\ to # 5) \/ to = 64 \/ (s # 115 /\ to = 115) -> {"value"}
      [] OTHER -> {}

\* The actions that take the text from mark on, and the token it is.
FromMark == [http_version |-> "version", status_code |-> "status", chunk_size |-> "size"]

\* The callbacks and numbers an action of the grammar takes from the buffer:
\* token, first byte, length.
Reports(act, q, p) ==
    CASE act \in DOMAIN FromMark -> {<<FromMark[act], q.mark, LEN(q.mark, p)>>}
      [] act = "write_value" -> {<<"field", q.field_start, q.field_len>>,
                                 <<"value", q.mark, LEN(q.mark, p)>>}
      [] OTHER -> {}

\* Faulty variant: the body starts a character too early.
BodyAtEnd(p) == p

\* The action done: the body starts behind the last character of the head.
BodyAt(p) == p + 1

\* The change an action makes in the structure, given the text of each token it
\* reads.  The callbacks reason_phrase, chunk_size, last_chunk and header_done
\* are null.
Apply(act, q, p, text) ==
    CASE act = "mark" -> [q EXCEPT !.mark = p]
      [] act = "start_field" -> [q EXCEPT !.field_start = p]
      [] act = "write_field" -> [q EXCEPT !.field_len = LEN(q.field_start, p)]
      [] act = "chunk_size" -> [q EXCEPT !.chunked = TRUE, !.content_len = text["size"]]
      [] act = "write_content_len" -> [q EXCEPT !.content_len = text["value"]]
      [] act = "trans_chunked" -> [q EXCEPT !.chunked = TRUE]
      [] act = "write_connection_close" -> [q EXCEPT !.close = TRUE]
      [] act = "done" -> [q EXCEPT !.body_start = BodyAt(p)]
      [] OTHER -> q

\* The structure after the first n actions of a transition.
Applied(do, p, text) ==
    LET f[n \in 0..Len(do)] == IF n = 0 THEN parser ELSE Apply(do[n], f[n - 1], p, text) IN f

Transitions(s) == IF s = Error THEN {} ELSE ResponseTable[s]

\* One character that the state has a transition for.
Scan(t) ==
    LET p == call.p
        acts == {t.do[n] : n \in 1..Len(t.do)}
        b == [k \in Tokens |-> CASE k \in Begins(call.cs, t.to) -> p
                                 [] k = "colon" /\ "write_field" \in acts -> p
                                 [] OTHER -> begun[k]]
        \* the positions never depend on a text
        marks == Applied(t.do, p, [k \in Tokens |-> "whole"])
        said == UNION {Reports(t.do[n], marks[n - 1], p) : n \in 1..Len(t.do)}
        text(r) == TextOf(b[r[1]], r[2], r[3], IF r[1] = "field" THEN b["colon"] ELSE p)
        texts == [k \in {r[1] : r \in said} |-> text(CHOOSE r \in said : r[1] = k)]
    IN
    /\ call.pc = "scan" /\ call.p < MaxLen
    /\ parser' = Applied(t.do, p, texts)[Len(t.do)]
    /\ call' = [call EXCEPT !.cs = t.to, !.p = p + 1, !.pc = IF "done" \in acts THEN "end" ELSE "scan"]
    /\ res' = res \cup (DOMAIN texts \cap {"version", "status", "field"})
    /\ cb' = {[token |-> k, text |-> texts[k], cut |-> b[k] = Earlier, at |-> call.cs] : k \in DOMAIN texts}
    /\ begun' = b
    /\ UNCHANGED over

\* A character without a transition: goto st0, the character is not consumed.
Reject ==
    /\ call.pc = "scan" /\ call.p < MaxLen
    /\ Chars \ UNION {t.on : t \in Transitions(call.cs)} # {}
    /\ call' = [call EXCEPT !.cs = Error, !.pc = "end"]
    /\ cb' = {}
    /\ UNCHANGED <<parser, res, begun, over>>

\* The end of httpclient_parser_execute for a buffer of len bytes: the asserts
\* (the build keeps them), and what it returns.
Asserts(q, len) == q.nread <= len /\ q.body_start <= len
\* Faulty variant: the last character of the buffer cannot be marked.
ChecksInside(q, len) == q.mark + 1 < len /\ q.field_len <= len /\ q.field_start < len
\* The checks on the way back: a position outside the buffer makes it -1.
Checks(q, len) == q.mark < len /\ q.field_len <= len /\ q.field_start < len

Return(len) ==
    LET q == [parser EXCEPT !.cs = call.cs, !.nread = @ + call.p] IN
    /\ \/ call.pc = "end" /\ len >= IF call.cs = Error THEN call.p + 1 ELSE call.p
       \/ call.pc = "scan" /\ len = call.p
    /\ parser' = q
    /\ call' = [pc |-> IF Asserts(q, len) THEN "idle" ELSE "aborted", cs |-> q.cs, p |-> 0,
                ret |-> IF Checks(q, len) THEN "nread" ELSE "-1"]
    /\ begun' = [t \in Tokens |-> IF begun[t] = Closed THEN Closed ELSE Earlier]
    /\ cb' = {}
    /\ UNCHANGED <<res, over>>

Next ==
    \/ Execute
    \/ \E t \in Transitions(call.cs) : Scan(t)
    \/ Reject
    \/ \E len \in 0..MaxLen : Return(len)

Spec == Init /\ [][Next]_vars

----------------------------------------------------------------------------
(* What a state of the scanner says about the bytes read so far.  These facts *)
(* hold of the table as it stands, whatever MaxLen is.                        *)

\* The token that mark points to the first byte of, "none" if it is not needed.
MarkToken(s) ==
    CASE s = 2 -> "size" [] s \in 8..15 -> "version" [] s = 17 -> "status"
      [] s \in {7, 23, 115, 117, 119} \cup 64..70 \cup 73..79 \cup 81..87 \cup 96..100 -> "value"
      [] OTHER -> "none"

\* In the name of a field; between its colon and the report of its value.
NameStates == {5, 21, 117} \cup 25..34 \cup 44..60 \cup 73..79 \cup 90..94 \cup 101..111
LineStates == {6, 7, 22, 23, 35, 72, 118, 119} \cup 61..70 \cup 80..87 \cup 96..100 \cup 112..116

\* Before anything is reported; in the extensions of a chunk header, after its
\* size; after the version; after the status; in the last line end, which chunk
\* headers and heads share.
StartStates == {1, 2} \cup 8..15
ChunkStates == 4..7
VersionStates == {16, 17}
HeadStates == 18..119 \cup 121..123
EndStates == {3, 120}

Actions == {"mark", "start_field", "write_field", "write_value", "http_version", "status_code",
            "reason_phrase", "chunk_size", "write_content_len", "trans_chunked",
            "write_connection_close", "done"}

\* A transition has at most four actions; done is what leads to a final state,
\* a length is stored only with its field, and a name is not begun and ended.
WellFormed(t) ==
    /\ t.do \in Seq(Actions) /\ Len(t.do) <= 4 /\ t.to \in DOMAIN ResponseTable
    /\ Does(t, "done") <=> t.to \in Final
    /\ Does(t, "write_content_len") => Does(t, "write_value")
    /\ ~(Does(t, "start_field") /\ Does(t, "write_field"))

\* The token k begins where mark points when n actions of t are done.
Marked(s, t, n, k) ==
    IF Did(t.do, n, "mark") THEN k \in Begins(s, t.to)
    ELSE MarkToken(s) = k /\ k \notin Begins(s, t.to)

\* A token is reported only when mark or field_start is where it begins, and
\* t leaves them where the next state needs them.  Misnamed says of which field
\* names this is not so.
Disciplined(s, t) ==
    /\ \A n \in 1..Len(t.do) :
         /\ t.do[n] \in DOMAIN FromMark => Marked(s, t, n - 1, FromMark[t.do[n]])
         /\ t.do[n] = "write_value" =>
              /\ Marked(s, t, n - 1, "value")
              /\ \/ s \in {79, 117}
                 \/ /\ "field" \notin Begins(s, t.to) /\ ~Does(t, "start_field")
                    /\ IF Did(t.do, n - 1, "write_field") THEN s \in NameStates
                       ELSE s \in LineStates /\ ~Does(t, "write_field")
    /\ MarkToken(t.to) # "none" => Marked(s, t, Len(t.do), MarkToken(t.to))
    /\ t.to \in NameStates => IF Does(t, "start_field") THEN "field" \in Begins(s, t.to)
                              ELSE s \in NameStates /\ "field" \notin Begins(s, t.to)
    /\ t.to \in LineStates =>
         /\ ~Does(t, "start_field") /\ "field" \notin Begins(s, t.to)
         /\ IF Does(t, "write_field") THEN s \in NameStates ELSE s \in LineStates

\* Chunk headers and heads are kept apart until the last line end.
KeepsApart(s, t) ==
    LET silent == \A a \in {"http_version", "status_code"} : ~Does(t, a)
        start == s \in StartStates /\ silent /\ ~Does(t, "write_value")
        chunk == \/ start /\ Does(t, "chunk_size")
                 \/ s \in ChunkStates /\ silent
        head == s \in HeadStates \/ (s \in VersionStates /\ Does(t, "status_code"))
    IN
    /\ t.to \in StartStates => start
    /\ t.to \in ChunkStates => chunk
    /\ t.to \in VersionStates => s \in VersionStates \/ Does(t, "http_version")
    /\ t.to \in HeadStates => head
    /\ t.to \in EndStates => chunk \/ head \/ (s \in EndStates /\ silent /\ ~Does(t, "write_value"))

ASSUME TableFacts ==
    /\ 1 \in DOMAIN ResponseTable
    /\ \A s \in DOMAIN ResponseTable \ {Error} : \A t \in ResponseTable[s] :
         /\ WellFormed(t)
         /\ Begins(s, t.to) \subseteq Tokens \ {"colon"}
         /\ s \notin Final => Disciplined(s, t) /\ KeepsApart(s, t)

----------------------------------------------------------------------------
Idle == call.pc = "idle"

\* Type invariant: no position points behind the buffer.
TypeOK ==
    /\ parser.cs \in DOMAIN ResponseTable \cup {Error}
    /\ call.cs \in DOMAIN ResponseTable \cup {Error} /\ call.p \in 0..MaxLen
    /\ call.pc \in {"idle", "scan", "end", "aborted"} /\ call.ret \in {"nread", "-1"}
    /\ \A f \in {"mark", "field_start", "field_len", "body_start"} : parser[f] \in 0..MaxLen
    /\ parser.content_len \in Texts \cup {"unset"}
    /\ begun \in [Tokens -> {Closed, Earlier} \cup 0..(MaxLen - 1)]
    /\ \A r \in cb : r.token \in Tokens /\ r.text \in Texts

\* A field name is reported from the states 79 and 117 for a value that stands
\* on the line after its field: field_start has moved to that line, field_len
\* is still the length of the name above.
Misnamed(r) == r.token = "field" /\ r.at \in {79, 117}

\* Every callback is given exactly its token when the token lies in one buffer,
\* and the rest of it or nothing when a call cut it.  The one exception is the
\* name of a field whose value is on the next line.
CallbacksExact ==
    \A r \in cb : ~over /\ ~Misnamed(r) =>
        IF r.cut THEN r.text \in {"rest", "empty"} ELSE r.text = "whole"

\* The caller's buffer is refused (-1) only when it is empty, and an assert
\* fails only when a finished parser is used again: a syntax error returns the
\* number of bytes before it, like success.  No position points behind the
\* longest buffer.
RefusesOnlyEmpty ==
    /\ TypeOK
    /\ call.ret = "-1" /\ Idle => parser.nread = 0
    /\ call.pc = "aborted" => over

\* A parser that ended a head has given the HttpResponce its version and its
\* status; otherwise it read a chunk header, whose size it has stored, and
\* reported at most the chunk's extensions.  The body begins at the first byte
\* execute did not consume.
HeadComplete ==
    Idle /\ ~over /\ parser.cs \in Final =>
        /\ parser.body_start = parser.nread
        /\ \/ {"version", "status"} \subseteq res
           \/ parser.chunked /\ parser.content_len # "unset" /\ res \subseteq {"field"}

\* httpclient_parser_is_finished
IsFinished == parser.cs = 120

\* What the comment at the end of httpclient_parser_execute says of a message
\* whose body_start is set: the final line end was encountered.  A parser that
\* met it, and did not run into an error, says so.
FinishedWhenDone == Idle /\ ~over /\ parser.body_start > 0 => IsFinished
=============================================================================
