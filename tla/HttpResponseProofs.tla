------------------------- MODULE HttpResponseProofs -------------------------
(* The parser of HTTP responses (http_responce.cc, httpclient_parser.rl.cc)   *)
(* for buffers of every length: what the scanner reports, however a message   *)
(* is cut into calls of execute.                                              *)
EXTENDS HttpResponseParser, TLAPS

\* The structure without its bounds.
Parser == [cs : DOMAIN ResponseTable \cup {Error}, mark : Nat, field_start : Nat,
           field_len : Int, body_start : Nat, content_len : Texts \cup {"unset"}, chunked : BOOLEAN,
           close : BOOLEAN, nread : Nat]

Call == [pc : {"idle", "scan", "end", "aborted"}, cs : DOMAIN ResponseTable \cup {Error},
         p : 0..MaxLen, ret : {"nread", "-1"}]

\* A position in the part of the buffer that is read; 0 if nothing is.
Inside(pos) == pos = 0 \/ pos < call.p

\* Positions stay in the buffer.  call.cs is where the scanner is, also between
\* two calls; only there parser.cs is up to date.
Positions ==
    /\ parser \in Parser /\ call \in Call
    /\ \A f \in {"mark", "field_start", "field_len", "body_start"} : parser[f] \in 0..MaxLen
    /\ Idle => parser.cs = call.cs
    /\ call.pc \in {"scan", "end"} =>
         /\ Inside(parser.mark) /\ Inside(parser.field_start)
         /\ parser.field_len <= call.p /\ parser.nread = 0
    /\ call.pc = "end" => call.cs \in Final \cup {Error}
    /\ call.ret = "-1" /\ Idle => parser.nread = 0
    /\ call.pc = "aborted" => over

\* body_start is set once, by the call that ends the head.
Body ==
    ~over => /\ call.pc = "scan" => parser.body_start = 0 /\ call.cs \notin Final
             /\ call.cs \notin Final => parser.body_start = 0
             /\ call.pc = "end" => parser.body_start <= call.p
             /\ call.cs \in Final => /\ call.pc = "end" => parser.body_start = call.p
                                     /\ Idle => parser.body_start = parser.nread

Ghosts ==
    /\ over \in BOOLEAN
    /\ res \subseteq {"version", "status", "field"}
    /\ begun \in [Tokens -> {Closed, Earlier} \cup 0..(MaxLen - 1)]
    /\ Idle => \A k \in Tokens : begun[k] \in {Closed, Earlier}
    /\ \A r \in cb : r.token \in Tokens /\ r.text \in Texts

\* The token k begins at pos, or it began in an earlier buffer and pos is the
\* first byte of this one.  Between two calls every token began earlier.
At(k, pos) ==
    IF Idle THEN begun[k] = Earlier
    ELSE begun[k] = pos \/ (begun[k] = Earlier /\ pos = 0)

\* field_len reaches from field_start to the colon; it is 0 if the colon was in
\* an earlier buffer.
AtColon ==
    IF Idle THEN begun["colon"] = Earlier
    ELSE \/ begun["colon"] \in Nat /\ parser.field_len = begun["colon"] - parser.field_start
         \/ /\ begun["colon"] = Earlier /\ begun["field"] = Earlier
            /\ parser.field_start = 0 /\ parser.field_len = 0

\* What the state of the scanner says about positions is so.
Discipline ==
    ~over => /\ MarkToken(call.cs) # "none" => At(MarkToken(call.cs), parser.mark)
             /\ call.cs \in NameStates => At("field", parser.field_start)
             /\ call.cs \in LineStates => At("field", parser.field_start) /\ AtColon

ChunkHead == parser.chunked /\ parser.content_len # "unset" /\ res \subseteq {"field"}
FullHead == {"version", "status"} \subseteq res

\* What the state of the scanner says about the message is so.
Apart ==
    ~over => /\ call.cs \in StartStates => res = {}
             /\ call.cs \in ChunkStates => ChunkHead
             /\ call.cs \in VersionStates => "version" \in res
             /\ call.cs \in HeadStates => FullHead
             /\ call.cs \in EndStates => ChunkHead \/ FullHead

\* The inductive invariant.
IInv == Positions /\ Body /\ Ghosts /\ Discipline /\ Apart

----------------------------------------------------------------------------
(* What the actions of a transition do to the structure.                      *)

\* Applied runs the actions one after the other.
LEMMA AppliedSteps ==
    ASSUME NEW do \in Seq(Actions), Len(do) <= 4, NEW p, NEW text
    PROVE  /\ Applied(do, p, text)[0] = parser
           /\ \A n \in 1..Len(do) :
                Applied(do, p, text)[n] = Apply(do[n], Applied(do, p, text)[n - 1], p, text)
<1>1. Len(do) \in Nat /\ Len(do) <= 4 OBVIOUS
<1> DEFINE q1 == Apply(do[1], parser, p, text)
           q2 == Apply(do[2], q1, p, text)
           q3 == Apply(do[3], q2, p, text)
           q4 == Apply(do[4], q3, p, text)
           N == 0..Len(do)
           Step(g, n) == IF n = 0 THEN parser ELSE Apply(do[n], g[n - 1], p, text)
           h == [n \in N |-> IF n = 0 THEN parser ELSE IF n = 1 THEN q1 ELSE
                             IF n = 2 THEN q2 ELSE IF n = 3 THEN q3 ELSE q4]
           f == Applied(do, p, text)
<1>2. h = [n \in N |-> Step(h, n)]
  <2>1. ASSUME NEW n \in N PROVE h[n] = Step(h, n)
    <3>1. n \in {0, 1, 2, 3, 4} BY <1>1
    <3>2. n # 0 => n - 1 \in N BY <1>1
    <3> QED BY <3>1, <3>2
  <2> QED BY <2>1
<1>3. f = CHOOSE g : g = [n \in N |-> Step(g, n)] BY DEF Applied
<1>4. f = [n \in N |-> Step(f, n)] BY <1>2, <1>3
<1>5. ASSUME NEW n \in N PROVE f[n] = Step(f, n) BY <1>4
<1> QED BY <1>1, <1>5

\* What is left of the structure q0 after the first n actions at position p.
Effect(q, q0, do, n, p) ==
    /\ q \in Parser
    /\ q.mark = IF Did(do, n, "mark") THEN p ELSE q0.mark
    /\ q.field_start = IF Did(do, n, "start_field") THEN p ELSE q0.field_start
    /\ q.field_len = IF Did(do, n, "write_field") THEN p - q0.field_start ELSE q0.field_len
    /\ q.body_start = IF Did(do, n, "done") THEN p + 1 ELSE q0.body_start
    /\ q.nread = q0.nread
    /\ q0.content_len # "unset" \/ Did(do, n, "chunk_size") => q.content_len # "unset"
    /\ q0.chunked \/ Did(do, n, "chunk_size") => q.chunked

\* The texts that a transition stores are texts.
Stored(do, text) ==
    /\ Did(do, Len(do), "chunk_size") => text["size"] \in Texts
    /\ Did(do, Len(do), "write_content_len") => text["value"] \in Texts

\* One action.
LEMMA ApplyEffect ==
    ASSUME NEW q \in Parser, NEW p \in Nat, NEW act \in Actions, NEW text,
           act = "chunk_size" => text["size"] \in Texts,
           act = "write_content_len" => text["value"] \in Texts
    PROVE  LET r == Apply(act, q, p, text) IN
           /\ r \in Parser
           /\ r.mark = IF act = "mark" THEN p ELSE q.mark
           /\ r.field_start = IF act = "start_field" THEN p ELSE q.field_start
           /\ r.field_len = IF act = "write_field" THEN p - q.field_start ELSE q.field_len
           /\ r.body_start = IF act = "done" THEN p + 1 ELSE q.body_start
           /\ r.nread = q.nread
           /\ q.content_len # "unset" \/ act = "chunk_size" => r.content_len # "unset"
           /\ q.chunked \/ act = "chunk_size" => r.chunked
<1> DEFINE r == Apply(act, q, p, text)
<1>1. CASE act = "mark"
  <2>1. r = [q EXCEPT !.mark = p] BY <1>1 DEF Apply
  <2> QED BY <1>1, <2>1 DEF Parser
<1>2. CASE act = "start_field"
  <2>1. r = [q EXCEPT !.field_start = p] BY <1>2 DEF Apply
  <2> QED BY <1>2, <2>1 DEF Parser
<1>3. CASE act = "write_field"
  <2>1. r = [q EXCEPT !.field_len = p - q.field_start] BY <1>3 DEF Apply, LEN
  <2> QED BY <1>3, <2>1 DEF Parser
<1>4. CASE act = "chunk_size"
  <2>1. r = [q EXCEPT !.chunked = TRUE, !.content_len = text["size"]] BY <1>4 DEF Apply
  <2>2. text["size"] \in Texts /\ text["size"] # "unset" BY <1>4 DEF Texts
  <2> QED BY <1>4, <2>1, <2>2 DEF Parser
<1>5. CASE act = "write_content_len"
  <2>1. r = [q EXCEPT !.content_len = text["value"]] BY <1>5 DEF Apply
  <2>2. text["value"] \in Texts /\ text["value"] # "unset" BY <1>5 DEF Texts
  <2> QED BY <1>5, <2>1, <2>2 DEF Parser
<1>6. CASE act = "trans_chunked"
  <2>1. r = [q EXCEPT !.chunked = TRUE] BY <1>6 DEF Apply
  <2> QED BY <1>6, <2>1 DEF Parser
<1>7. CASE act = "write_connection_close"
  <2>1. r = [q EXCEPT !.close = TRUE] BY <1>7 DEF Apply
  <2> QED BY <1>7, <2>1 DEF Parser
<1>8. CASE act = "done"
  <2>1. r = [q EXCEPT !.body_start = p + 1] BY <1>8 DEF Apply, BodyAt
  <2> QED BY <1>8, <2>1 DEF Parser
<1>9. CASE act \in {"write_value", "http_version", "status_code", "reason_phrase"}
  <2>1. r = q BY <1>9 DEF Apply
  <2> QED BY <1>9, <2>1
<1> QED BY <1>1, <1>2, <1>3, <1>4, <1>5, <1>6, <1>7, <1>8, <1>9 DEF Actions

\* The n-th action after the ones before it.
LEMMA EffectStep ==
    ASSUME NEW do \in Seq(Actions), NEW n \in 1..Len(do), NEW p \in Nat, NEW text,
           NEW q, NEW q0, Effect(q, q0, do, n - 1, p), Stored(do, text),
           ~(Did(do, Len(do), "start_field") /\ Did(do, Len(do), "write_field"))
    PROVE  Effect(Apply(do[n], q, p, text), q0, do, n, p)
<1> DEFINE act == do[n]
           r == Apply(act, q, p, text)
<1>1. act \in Actions /\ n \in 1..Len(do) /\ n \in Nat /\ Len(do) \in Nat OBVIOUS
<1>2. ASSUME NEW a PROVE Did(do, n, a) <=> Did(do, n - 1, a) \/ act = a
  BY <1>1 DEF Did
<1>3. ASSUME NEW a, Did(do, n, a) PROVE Did(do, Len(do), a)
  BY <1>1, <1>3 DEF Did
<1>4. act = "chunk_size" => text["size"] \in Texts
  BY <1>2, <1>3 DEF Stored
<1>5. act = "write_content_len" => text["value"] \in Texts
  BY <1>2, <1>3 DEF Stored
<1>6. q \in Parser BY DEF Effect
<1>7. /\ r \in Parser
      /\ r.mark = IF act = "mark" THEN p ELSE q.mark
      /\ r.field_start = IF act = "start_field" THEN p ELSE q.field_start
      /\ r.field_len = IF act = "write_field" THEN p - q.field_start ELSE q.field_len
      /\ r.body_start = IF act = "done" THEN p + 1 ELSE q.body_start
      /\ r.nread = q.nread
      /\ q.content_len # "unset" \/ act = "chunk_size" => r.content_len # "unset"
      /\ q.chunked \/ act = "chunk_size" => r.chunked
  BY <1>1, <1>4, <1>5, <1>6, ApplyEffect
<1>8. act = "write_field" => q.field_start = q0.field_start
  BY <1>2, <1>3 DEF Effect
<1> HIDE DEF r, act
<1>9. r.mark = IF Did(do, n, "mark") THEN p ELSE q0.mark BY <1>2, <1>7 DEF Effect
<1>10. r.field_start = IF Did(do, n, "start_field") THEN p ELSE q0.field_start
  BY <1>2, <1>7 DEF Effect
<1>11. r.field_len = IF Did(do, n, "write_field") THEN p - q0.field_start ELSE q0.field_len
  BY <1>2, <1>7, <1>8 DEF Effect
<1>12. r.body_start = IF Did(do, n, "done") THEN p + 1 ELSE q0.body_start
  BY <1>2, <1>7 DEF Effect
<1>13. /\ q0.content_len # "unset" \/ Did(do, n, "chunk_size") => r.content_len # "unset"
       /\ q0.chunked \/ Did(do, n, "chunk_size") => r.chunked
  BY <1>2, <1>7 DEF Effect
<1> QED BY <1>7, <1>9, <1>10, <1>11, <1>12, <1>13 DEF Effect, r, act

\* All of them.
LEMMA AppliedEffect ==
    ASSUME NEW do \in Seq(Actions), Len(do) <= 4, NEW p \in Nat, NEW text,
           parser \in Parser, Stored(do, text),
           ~(Did(do, Len(do), "start_field") /\ Did(do, Len(do), "write_field"))
    PROVE  \A n \in 0..Len(do) : Effect(Applied(do, p, text)[n], parser, do, n, p)
<1> DEFINE f == Applied(do, p, text)
           P(n) == n \in 0..Len(do) => Effect(f[n], parser, do, n, p)
<1>1. Len(do) \in Nat OBVIOUS
<1>2. P(0) BY AppliedSteps DEF Effect, Did
<1>3. ASSUME NEW n \in 1..4, P(n - 1) PROVE P(n)
  <2> SUFFICES ASSUME n \in 0..Len(do) PROVE Effect(f[n], parser, do, n, p) OBVIOUS
  <2>1. n \in 1..Len(do) /\ n - 1 \in 0..Len(do) BY <1>1
  <2>2. Effect(f[n - 1], parser, do, n - 1, p) BY <1>3, <2>1
  <2>3. f[n] = Apply(do[n], f[n - 1], p, text) BY <2>1, AppliedSteps
  <2> HIDE DEF f
  <2> QED BY <2>1, <2>2, <2>3, EffectStep
<1> HIDE DEF P
<1>4. P(1) BY <1>2, <1>3
<1>5. P(2) BY <1>4, <1>3
<1>6. P(3) BY <1>5, <1>3
<1>7. P(4) BY <1>6, <1>3
<1>8. \A n \in 0..Len(do) : n \in {0, 1, 2, 3, 4} BY <1>1
<1> QED BY <1>2, <1>4, <1>5, <1>6, <1>7, <1>8 DEF P

----------------------------------------------------------------------------
(* What a character reports.  The parts of Scan have names here.              *)

BegunAt(t) ==
    [k \in Tokens |-> CASE k \in Begins(call.cs, t.to) -> call.p
                        [] k = "colon" /\ "write_field" \in {t.do[n] : n \in 1..Len(t.do)} -> call.p
                        [] OTHER -> begun[k]]
Marks(t) == Applied(t.do, call.p, [k \in Tokens |-> "whole"])
Said(t) == UNION {Reports(t.do[n], Marks(t)[n - 1], call.p) : n \in 1..Len(t.do)}
Text(t, r) ==
    TextOf(BegunAt(t)[r[1]], r[2], r[3], IF r[1] = "field" THEN BegunAt(t)["colon"] ELSE call.p)
SaidTexts(t) == [k \in {r[1] : r \in Said(t)} |-> Text(t, CHOOSE r \in Said(t) : r[1] = k)]
Callback(t, k) ==
    [token |-> k, text |-> SaidTexts(t)[k], cut |-> BegunAt(t)[k] = Earlier, at |-> call.cs]

LEMMA ScanParts ==
    ASSUME NEW t, Scan(t)
    PROVE  /\ call.pc = "scan" /\ call.p < MaxLen
           /\ parser' = Applied(t.do, call.p, SaidTexts(t))[Len(t.do)]
           /\ call' = [call EXCEPT !.cs = t.to, !.p = call.p + 1,
                                   !.pc = IF Does(t, "done") THEN "end" ELSE "scan"]
           /\ res' = res \cup (DOMAIN SaidTexts(t) \cap {"version", "status", "field"})
           /\ cb' = {Callback(t, k) : k \in DOMAIN SaidTexts(t)}
           /\ begun' = BegunAt(t)
           /\ over' = over
<1>1. Does(t, "done") <=> "done" \in {t.do[n] : n \in 1..Len(t.do)} BY DEF Does, Did
<1> QED BY <1>1 DEF Scan, BegunAt, Marks, Said, Text, SaidTexts, Callback

\* A text that begins where its token does is the token; one from the first
\* byte of the buffer on is the rest of a token that began earlier.
Told(b, text) == IF b = Earlier THEN text \in {"rest", "empty"} ELSE text = "whole"

LEMMA TextFacts ==
    /\ \A b, from, n, e : TextOf(b, from, n, e) \in Texts
    /\ \A b, e \in Int : TextOf(b, b, e - b, e) = "whole"
    /\ \A e \in Int : /\ TextOf(Earlier, 0, e - 0, e) \in {"rest", "empty"}
                      /\ TextOf(Earlier, 0, 0, e) \in {"rest", "empty"}
<1>1. \A b, from, n, e : TextOf(b, from, n, e) \in Texts BY DEF TextOf, Texts
<1>2. \A b, e \in Int : TextOf(b, b, e - b, e) = "whole" BY DEF TextOf
<1>3. \A e \in Int : TextOf(Earlier, 0, e - 0, e) \in {"rest", "empty"}
  BY DEF TextOf, Earlier
<1>4. \A e \in Int : TextOf(Earlier, 0, 0, e) \in {"rest", "empty"}
  BY DEF TextOf, Earlier
<1> QED BY <1>1, <1>2, <1>3, <1>4

LEMMA ReportCases ==
    ASSUME NEW act, NEW q, NEW p, NEW r \in Reports(act, q, p)
    PROVE  \/ act \in DOMAIN FromMark /\ r = <<FromMark[act], q.mark, p - q.mark>>
           \/ act = "write_value" /\ r = <<"field", q.field_start, q.field_len>>
           \/ act = "write_value" /\ r = <<"value", q.mark, p - q.mark>>
BY DEF Reports, LEN

\* A state of the scanner and a transition of it that is not in an error state.
LEMMA TransitionFacts ==
    ASSUME IInv, call.pc = "scan", NEW t \in Transitions(call.cs)
    PROVE  /\ WellFormed(t) /\ Begins(call.cs, t.to) \subseteq Tokens \ {"colon"}
           /\ ~over => Disciplined(call.cs, t) /\ KeepsApart(call.cs, t)
<1>1. call.cs \in DOMAIN ResponseTable \ {Error} /\ t \in ResponseTable[call.cs]
  BY DEF IInv, Positions, Call, Transitions
<1> QED BY <1>1, TableFacts DEF IInv, Body

\* Where the tokens begin after a transition.
LEMMA StartFacts ==
    ASSUME IInv, call.pc = "scan", call.p < MaxLen, NEW t \in Transitions(call.cs)
    PROVE  /\ BegunAt(t) \in [Tokens -> {Closed, Earlier} \cup 0..(MaxLen - 1)]
           /\ \A k \in Begins(call.cs, t.to) : BegunAt(t)[k] = call.p
           /\ \A k \in Tokens \ {"colon"} : k \notin Begins(call.cs, t.to) => BegunAt(t)[k] = begun[k]
           /\ BegunAt(t)["colon"] = IF Does(t, "write_field") THEN call.p ELSE begun["colon"]
<1>1. Begins(call.cs, t.to) \subseteq Tokens \ {"colon"} BY TransitionFacts
<1>2. begun \in [Tokens -> {Closed, Earlier} \cup 0..(MaxLen - 1)] BY DEF IInv, Ghosts
<1>3. call.p \in 0..(MaxLen - 1) BY MaxLenAssumption DEF IInv, Positions, Call
<1>4. "colon" \in Tokens BY DEF Tokens
<1>5. Does(t, "write_field") <=> "write_field" \in {t.do[n] : n \in 1..Len(t.do)} BY DEF Does, Did
<1> QED BY <1>1, <1>2, <1>3, <1>4, <1>5 DEF BegunAt

\* The structure that the n-th action sees.
LEMMA MarksFacts ==
    ASSUME IInv, call.pc = "scan", NEW t \in Transitions(call.cs), NEW n \in 0..Len(t.do)
    PROVE  Effect(Marks(t)[n], parser, t.do, n, call.p)
<1> DEFINE text == [k \in Tokens |-> "whole"]
<1>1. WellFormed(t) BY TransitionFacts
<1>2. Stored(t.do, text) BY DEF Stored, Tokens, Texts
<1>3. parser \in Parser /\ call.p \in Nat BY DEF IInv, Positions, Call
<1> HIDE DEF text
<1> QED BY <1>1, <1>2, <1>3, AppliedEffect DEF WellFormed, Does, Marks, text

\* The text from mark on is the token k that mark belongs to.
LEMMA MarkText ==
    ASSUME IInv, call.pc = "scan", call.p < MaxLen, NEW t \in Transitions(call.cs), ~over,
           NEW n \in 1..Len(t.do), NEW k \in Tokens \ {"field", "colon"}, Marked(call.cs, t, n - 1, k),
           NEW r, r = <<k, Marks(t)[n - 1].mark, call.p - Marks(t)[n - 1].mark>>
    PROVE  Told(BegunAt(t)[k], Text(t, r))
<1> DEFINE q == Marks(t)[n - 1]
<1>1. t.do \in Seq(Actions) BY TransitionFacts DEF WellFormed
<1>2. n - 1 \in 0..Len(t.do) BY <1>1
<1>3. Effect(q, parser, t.do, n - 1, call.p) BY <1>2, MarksFacts
<1>4. parser.mark \in Nat /\ call.p \in Nat BY DEF IInv, Positions, Parser, Call
<1>5. q.mark \in Nat BY <1>3 DEF Effect, Parser
<1>6. Text(t, r) = TextOf(BegunAt(t)[k], q.mark, call.p - q.mark, call.p)
  BY DEF Text
<1> HIDE DEF q
<1>8. CASE Did(t.do, n - 1, "mark")
  <2>1. BegunAt(t)[k] = call.p BY <1>8, StartFacts DEF Marked
  <2>2. q.mark = call.p BY <1>3, <1>8 DEF Effect
  <2>3. Text(t, r) = TextOf(call.p, call.p, call.p - call.p, call.p) BY <1>6, <2>1, <2>2
  <2>4. call.p \in Int BY <1>4
  <2>5. Text(t, r) = "whole" BY <2>3, <2>4, TextFacts
  <2> QED BY <1>4, <2>1, <2>5 DEF Told, Earlier
<1>9. CASE ~Did(t.do, n - 1, "mark")
  <2>1. MarkToken(call.cs) = k /\ BegunAt(t)[k] = begun[k] BY <1>9, StartFacts DEF Marked
  <2>2. q.mark = parser.mark BY <1>3, <1>9 DEF Effect
  <2>3. k # "none" BY DEF Tokens
  <2>4. begun[k] = parser.mark \/ (begun[k] = Earlier /\ parser.mark = 0)
    BY <2>1, <2>3 DEF IInv, Discipline, At, Idle
  <2>5. CASE begun[k] = parser.mark
    <3>1. Text(t, r) = TextOf(begun[k], begun[k], call.p - begun[k], call.p)
      BY <1>6, <2>1, <2>2, <2>5
    <3>2. begun[k] \in Int /\ call.p \in Int BY <1>4, <2>5
    <3>3. Text(t, r) = "whole" BY <3>1, <3>2, TextFacts
    <3> QED BY <1>4, <2>1, <2>5, <3>3 DEF Told, Earlier
  <2>6. CASE begun[k] = Earlier /\ parser.mark = 0
    <3>1. Text(t, r) = TextOf(Earlier, 0, call.p - 0, call.p) BY <1>6, <2>1, <2>2, <2>6
    <3>2. call.p \in Int BY <1>4
    <3>3. Text(t, r) \in {"rest", "empty"} BY <3>1, <3>2, TextFacts
    <3> QED BY <2>1, <2>6, <3>3 DEF Told
  <2> QED BY <2>4, <2>5, <2>6
<1> QED BY <1>8, <1>9

\* The text from field_start on, up to the colon, is the name of the field, but
\* where Misnamed says it is not.
LEMMA FieldText ==
    ASSUME IInv, call.pc = "scan", call.p < MaxLen, NEW t \in Transitions(call.cs), ~over,
           NEW n \in 1..Len(t.do), t.do[n] = "write_value", call.cs \notin {79, 117},
           NEW r, r = <<"field", Marks(t)[n - 1].field_start, Marks(t)[n - 1].field_len>>
    PROVE  Told(BegunAt(t)["field"], Text(t, r))
<1> DEFINE q == Marks(t)[n - 1]
           c == BegunAt(t)["colon"]
           b == begun["field"]
           at == parser.field_start
<1>1. t.do \in Seq(Actions) BY TransitionFacts DEF WellFormed
<1>2. n - 1 \in 0..Len(t.do) BY <1>1
<1>3. Effect(q, parser, t.do, n - 1, call.p) BY <1>2, MarksFacts
<1>4. at \in Nat /\ call.p \in Nat BY DEF IInv, Positions, Parser, Call
<1>5. ASSUME NEW a, Did(t.do, n - 1, a) PROVE Does(t, a) BY <1>1, <1>2, <1>5 DEF Does, Did
<1>6. /\ "field" \notin Begins(call.cs, t.to) /\ ~Does(t, "start_field")
      /\ IF Did(t.do, n - 1, "write_field") THEN call.cs \in NameStates
         ELSE call.cs \in LineStates /\ ~Does(t, "write_field")
  BY TransitionFacts DEF Disciplined
<1>7. "field" \in Tokens \ {"colon"} BY DEF Tokens
<1>8. BegunAt(t)["field"] = b BY <1>6, <1>7, StartFacts
<1>9. q.field_start = at BY <1>3, <1>5, <1>6 DEF Effect
<1>10. Text(t, r) = TextOf(b, at, q.field_len, c) BY <1>8, <1>9 DEF Text
<1>11. ASSUME NEW e \in Int, Text(t, r) = TextOf(b, at, e - at, e),
              b = at \/ (b = Earlier /\ at = 0)
       PROVE  Told(b, Text(t, r))
  <2>1. CASE b = at
    <3>1. Text(t, r) = TextOf(at, at, e - at, e) /\ at \in Int BY <1>4, <1>11, <2>1
    <3>2. Text(t, r) = "whole" BY <3>1, TextFacts
    <3> QED BY <1>4, <2>1, <3>2 DEF Told, Earlier
  <2>2. CASE b = Earlier /\ at = 0
    <3>1. Text(t, r) = TextOf(Earlier, 0, e - 0, e) BY <1>11, <2>2
    <3>2. Text(t, r) \in {"rest", "empty"} BY <3>1, TextFacts
    <3> QED BY <2>2, <3>2 DEF Told
  <2> QED BY <1>11, <2>1, <2>2
<1> HIDE DEF q, c
<1>12. CASE Did(t.do, n - 1, "write_field")
  <2>1. c = call.p BY <1>5, <1>12, StartFacts DEF c
  <2>2. q.field_len = call.p - at BY <1>3, <1>12 DEF Effect
  <2>3. b = at \/ (b = Earlier /\ at = 0) BY <1>6, <1>12 DEF IInv, Discipline, At, Idle
  <2>4. Text(t, r) = TextOf(b, at, call.p - at, call.p) BY <1>10, <2>1, <2>2
  <2>5. call.p \in Int BY <1>4
  <2> HIDE DEF b, at
  <2> QED BY <1>8, <1>11, <2>3, <2>4, <2>5
<1>13. CASE ~Did(t.do, n - 1, "write_field")
  <2>1. c = begun["colon"] BY <1>6, <1>13, StartFacts DEF c
  <2>2. q.field_len = parser.field_len BY <1>3, <1>13 DEF Effect
  <2>3. b = at \/ (b = Earlier /\ at = 0) BY <1>6, <1>13 DEF IInv, Discipline, At, Idle
  <2>4. \/ c \in Nat /\ parser.field_len = c - at
        \/ c = Earlier /\ b = Earlier /\ at = 0 /\ parser.field_len = 0
    BY <1>6, <1>13, <2>1 DEF IInv, Discipline, AtColon, Idle
  <2>5. CASE c \in Nat /\ parser.field_len = c - at
    <3>1. Text(t, r) = TextOf(b, at, c - at, c) /\ c \in Int BY <1>10, <2>2, <2>5
    <3> HIDE DEF b, at
    <3> QED BY <1>8, <1>11, <2>3, <3>1
  <2>6. CASE c = Earlier /\ b = Earlier /\ at = 0 /\ parser.field_len = 0
    <3>1. Text(t, r) = TextOf(Earlier, 0, 0, Earlier) BY <1>10, <2>2, <2>6
    <3>2. Earlier \in Int BY DEF Earlier
    <3>3. Text(t, r) \in {"rest", "empty"} BY <3>1, <3>2, TextFacts
    <3> QED BY <1>8, <2>6, <3>3 DEF Told
  <2> QED BY <2>4, <2>5, <2>6
<1> QED BY <1>12, <1>13

\* The tokens that a transition reports, and their texts.
LEMMA SaidFacts ==
    ASSUME IInv, call.pc = "scan", call.p < MaxLen, NEW t \in Transitions(call.cs),
           NEW r \in Said(t)
    PROVE  /\ r[1] \in {"version", "status", "size", "field", "value"}
           /\ Text(t, r) \in Texts
           /\ r[1] = "version" => Does(t, "http_version")
           /\ r[1] = "status" => Does(t, "status_code")
           /\ r[1] = "field" => Does(t, "write_value")
           /\ ~over /\ ~(r[1] = "field" /\ call.cs \in {79, 117}) => Told(BegunAt(t)[r[1]], Text(t, r))
<1>1. PICK n \in 1..Len(t.do) : r \in Reports(t.do[n], Marks(t)[n - 1], call.p) BY DEF Said
<1> DEFINE act == t.do[n]
           q == Marks(t)[n - 1]
<1>2. Text(t, r) \in Texts BY TextFacts DEF Text
<1>3. Does(t, act) BY DEF Does, Did
<1>4. CASE act \in DOMAIN FromMark /\ r = <<FromMark[act], q.mark, call.p - q.mark>>
  <2> DEFINE k == FromMark[act]
  <2>1. /\ act = "http_version" => k = "version"
        /\ act = "status_code" => k = "status"
        /\ act = "chunk_size" => k = "size"
        /\ act \in {"http_version", "status_code", "chunk_size"}
    BY <1>4 DEF FromMark
  <2>2. k \in {"version", "status", "size"} BY <2>1
  <2>3. k \in Tokens \ {"field", "colon"} BY <2>2 DEF Tokens
  <2>4. r[1] = k BY <1>4
  <2>5. ASSUME ~over PROVE Told(BegunAt(t)[k], Text(t, r))
    <3>1. Marked(call.cs, t, n - 1, k) BY <1>4, <2>5, TransitionFacts DEF Disciplined
    <3> HIDE DEF k
    <3> QED BY <1>4, <2>3, <2>5, <3>1, MarkText DEF k
  <2> HIDE DEF k
  <2> QED BY <1>2, <1>3, <2>1, <2>2, <2>4, <2>5
<1>5. CASE act = "write_value" /\ r = <<"field", q.field_start, q.field_len>>
  <2>1. ASSUME ~over, call.cs \notin {79, 117} PROVE Told(BegunAt(t)["field"], Text(t, r))
    BY <1>5, <2>1, FieldText
  <2>2. r[1] = "field" BY <1>5
  <2> QED BY <1>2, <1>3, <1>5, <2>1, <2>2
<1>6. CASE act = "write_value" /\ r = <<"value", q.mark, call.p - q.mark>>
  <2>1. ASSUME ~over PROVE Told(BegunAt(t)["value"], Text(t, r))
    <3>1. Marked(call.cs, t, n - 1, "value") BY <1>6, <2>1, TransitionFacts DEF Disciplined
    <3>2. "value" \in Tokens \ {"field", "colon"} BY DEF Tokens
    <3> QED BY <1>6, <2>1, <3>1, <3>2, MarkText
  <2>2. r[1] = "value" BY <1>6
  <2> QED BY <1>2, <1>3, <2>1, <2>2
<1> QED BY <1>1, <1>4, <1>5, <1>6, ReportCases

\* What is reported when.
LEMMA SaidWhen ==
    ASSUME NEW t
    PROVE  /\ Does(t, "http_version") => \E r \in Said(t) : r[1] = "version"
           /\ Does(t, "status_code") => \E r \in Said(t) : r[1] = "status"
           /\ Does(t, "chunk_size") => \E r \in Said(t) : r[1] = "size"
           /\ Does(t, "write_value") => \E r \in Said(t) : r[1] = "value"
<1>1. ASSUME NEW n \in 1..Len(t.do), t.do[n] = "http_version" PROVE \E r \in Said(t) : r[1] = "version"
  <2>1. <<"version", Marks(t)[n - 1].mark, LEN(Marks(t)[n - 1].mark, call.p)>> \in Said(t)
    BY <1>1 DEF Said, Reports, FromMark
  <2> QED BY <2>1
<1>2. ASSUME NEW n \in 1..Len(t.do), t.do[n] = "status_code" PROVE \E r \in Said(t) : r[1] = "status"
  <2>1. <<"status", Marks(t)[n - 1].mark, LEN(Marks(t)[n - 1].mark, call.p)>> \in Said(t)
    BY <1>2 DEF Said, Reports, FromMark
  <2> QED BY <2>1
<1>3. ASSUME NEW n \in 1..Len(t.do), t.do[n] = "chunk_size" PROVE \E r \in Said(t) : r[1] = "size"
  <2>1. <<"size", Marks(t)[n - 1].mark, LEN(Marks(t)[n - 1].mark, call.p)>> \in Said(t)
    BY <1>3 DEF Said, Reports, FromMark
  <2> QED BY <2>1
<1>4. ASSUME NEW n \in 1..Len(t.do), t.do[n] = "write_value" PROVE \E r \in Said(t) : r[1] = "value"
  <2>1. <<"value", Marks(t)[n - 1].mark, LEN(Marks(t)[n - 1].mark, call.p)>> \in Said(t)
    BY <1>4 DEF Said, Reports, FromMark
  <2> QED BY <2>1
<1> QED BY <1>1, <1>2, <1>3, <1>4 DEF Does, Did

\* The same for the texts that Scan works with.
LEMMA TextsFacts ==
    ASSUME IInv, call.pc = "scan", call.p < MaxLen, NEW t \in Transitions(call.cs)
    PROVE  /\ DOMAIN SaidTexts(t) \subseteq {"version", "status", "size", "field", "value"}
           /\ \A k \in DOMAIN SaidTexts(t) :
                /\ SaidTexts(t)[k] \in Texts
                /\ ~over /\ ~(k = "field" /\ call.cs \in {79, 117}) =>
                     Told(BegunAt(t)[k], SaidTexts(t)[k])
           /\ "version" \in DOMAIN SaidTexts(t) <=> Does(t, "http_version")
           /\ "status" \in DOMAIN SaidTexts(t) <=> Does(t, "status_code")
           /\ "field" \in DOMAIN SaidTexts(t) => Does(t, "write_value")
           /\ Stored(t.do, SaidTexts(t))
<1> DEFINE texts == SaidTexts(t)
<1>1. DOMAIN texts = {r[1] : r \in Said(t)} BY DEF SaidTexts
<1>2. ASSUME NEW k \in DOMAIN texts
      PROVE  \E r \in Said(t) : r[1] = k /\ texts[k] = Text(t, r)
  <2>1. \E r \in Said(t) : r[1] = k BY <1>1
  <2>2. texts[k] = Text(t, CHOOSE r \in Said(t) : r[1] = k) BY <1>1 DEF SaidTexts
  <2> QED BY <2>1, <2>2
<1> HIDE DEF texts
<1>3. ASSUME NEW k \in DOMAIN texts
      PROVE  /\ k \in {"version", "status", "size", "field", "value"}
             /\ texts[k] \in Texts
             /\ k = "version" => Does(t, "http_version")
             /\ k = "status" => Does(t, "status_code")
             /\ k = "field" => Does(t, "write_value")
             /\ ~over /\ ~(k = "field" /\ call.cs \in {79, 117}) => Told(BegunAt(t)[k], texts[k])
  <2>1. PICK r \in Said(t) : r[1] = k /\ texts[k] = Text(t, r) BY <1>2
  <2> QED BY <2>1, SaidFacts
<1>4. /\ Does(t, "http_version") => "version" \in DOMAIN texts
      /\ Does(t, "status_code") => "status" \in DOMAIN texts
      /\ Does(t, "chunk_size") => "size" \in DOMAIN texts
      /\ Does(t, "write_value") => "value" \in DOMAIN texts
  BY <1>1, SaidWhen
<1>5. Does(t, "write_content_len") => Does(t, "write_value") BY TransitionFacts DEF WellFormed
<1>6. Stored(t.do, texts) BY <1>3, <1>4, <1>5 DEF Stored, Does
<1> QED BY <1>3, <1>4, <1>6 DEF texts

----------------------------------------------------------------------------
(* The steps.                                                                 *)

\* The structure, the position and the state after a character.
LEMMA ScanEffect ==
    ASSUME IInv, NEW t \in Transitions(call.cs), Scan(t)
    PROVE  /\ Effect(parser', parser, t.do, Len(t.do), call.p)
           /\ call.pc = "scan" /\ call.p \in 0..(MaxLen - 1)
           /\ call'.cs = t.to /\ call'.p = call.p + 1 /\ call'.ret = call.ret
           /\ call'.pc = IF Does(t, "done") THEN "end" ELSE "scan"
           /\ call' \in Call
<1>1. call.pc = "scan" /\ call.p < MaxLen BY ScanParts
<1>2. call \in Call /\ parser \in Parser BY DEF IInv, Positions
<1>3. WellFormed(t) BY <1>1, TransitionFacts
<1>4. Stored(t.do, SaidTexts(t)) BY <1>1, TextsFacts
<1>5. parser' = Applied(t.do, call.p, SaidTexts(t))[Len(t.do)] BY ScanParts
<1>6. call.p \in Nat /\ Len(t.do) \in 0..Len(t.do) BY <1>2, <1>3 DEF Call, WellFormed
<1>7. Effect(parser', parser, t.do, Len(t.do), call.p)
  BY <1>2, <1>3, <1>4, <1>5, <1>6, AppliedEffect DEF WellFormed, Does
<1> DEFINE pc == IF Does(t, "done") THEN "end" ELSE "scan"
<1>8. call' = [call EXCEPT !.cs = t.to, !.p = call.p + 1, !.pc = pc] BY ScanParts
<1>9. pc \in {"end", "scan"} OBVIOUS
<1>10. t.to \in DOMAIN ResponseTable BY <1>3 DEF WellFormed
<1>11. call.p \in 0..(MaxLen - 1) /\ call.p + 1 \in 0..MaxLen
  BY <1>1, <1>2, MaxLenAssumption DEF Call
<1> HIDE DEF pc
<1>12. call' \in Call /\ call'.cs = t.to /\ call'.p = call.p + 1 /\ call'.ret = call.ret /\ call'.pc = pc
  BY <1>2, <1>8, <1>9, <1>10, <1>11 DEF Call
<1> QED BY <1>1, <1>7, <1>11, <1>12 DEF pc

LEMMA ScanPositions ==
    ASSUME IInv, NEW t \in Transitions(call.cs), Scan(t)
    PROVE  Positions' /\ Body'
<1> DEFINE e == Does(t, "done")
<1>1. /\ Effect(parser', parser, t.do, Len(t.do), call.p)
      /\ call.pc = "scan" /\ call.p \in 0..(MaxLen - 1)
      /\ call'.cs = t.to /\ call'.p = call.p + 1
      /\ call'.pc = IF e THEN "end" ELSE "scan"
      /\ call' \in Call
  BY ScanEffect
<1>2. e <=> t.to \in Final BY <1>1, TransitionFacts DEF WellFormed
<1>3. /\ parser.mark \in Nat /\ parser.field_start \in Nat /\ parser.body_start \in 0..MaxLen
      /\ parser.field_len \in 0..MaxLen /\ parser.mark <= call.p /\ parser.field_start <= call.p
      /\ parser.field_len <= call.p /\ parser.nread = 0
  BY <1>1 DEF IInv, Positions, Parser, Inside
<1>4. ~over => parser.body_start = 0 BY <1>1 DEF IInv, Body
<1>5. over' = over BY ScanParts
<1>6. /\ parser' \in Parser
      /\ parser'.mark \in {call.p, parser.mark}
      /\ parser'.field_start \in {call.p, parser.field_start}
      /\ parser'.field_len \in {call.p - parser.field_start, parser.field_len}
      /\ parser'.body_start = IF e THEN call.p + 1 ELSE parser.body_start
      /\ parser'.nread = parser.nread
  BY <1>1 DEF Effect, Does
<1> HIDE DEF e
<1>7. /\ parser'.mark \in 0..MaxLen /\ parser'.mark < call'.p
      /\ parser'.field_start \in 0..MaxLen /\ parser'.field_start < call'.p
      /\ parser'.field_len \in 0..MaxLen /\ parser'.field_len <= call'.p
      /\ parser'.body_start \in 0..MaxLen /\ parser'.nread = 0
  <2>1. MaxLen \in Nat /\ call.p \in Nat /\ call.p < MaxLen /\ call'.p = call.p + 1
    BY <1>1, MaxLenAssumption
  <2>2. parser'.mark \in 0..MaxLen /\ parser'.mark < call'.p BY <1>3, <1>6, <2>1
  <2>3. parser'.field_start \in 0..MaxLen /\ parser'.field_start < call'.p BY <1>3, <1>6, <2>1
  <2>4. parser'.field_len \in 0..MaxLen /\ parser'.field_len <= call'.p BY <1>3, <1>6, <2>1
  <2>5. parser'.body_start \in 0..MaxLen /\ parser'.nread = 0 BY <1>3, <1>6, <2>1
  <2> QED BY <2>2, <2>3, <2>4, <2>5
<1>8. Positions' BY <1>1, <1>2, <1>6, <1>7 DEF Positions, Inside, Idle
<1>9. Body' BY <1>1, <1>2, <1>4, <1>5, <1>6 DEF Body, Idle
<1> QED BY <1>8, <1>9

LEMMA ScanGhosts ==
    ASSUME IInv, NEW t \in Transitions(call.cs), Scan(t)
    PROVE  Ghosts' /\ CallbacksExact'
<1>1. call.pc = "scan" /\ call.p < MaxLen /\ over' = over BY ScanParts
<1>2. begun' = BegunAt(t) /\ call'.pc # "idle" BY ScanParts, ScanEffect
<1>3. begun' \in [Tokens -> {Closed, Earlier} \cup 0..(MaxLen - 1)] BY <1>1, <1>2, StartFacts
<1>4. res' \subseteq {"version", "status", "field"} BY ScanParts DEF IInv, Ghosts
<1> DEFINE dom == DOMAIN SaidTexts(t)
<1>5. cb' = {Callback(t, k) : k \in dom} BY ScanParts
<1> HIDE DEF dom
<1>6. ASSUME NEW r \in cb'
      PROVE  /\ r.token \in Tokens /\ r.text \in Texts
             /\ ~over /\ ~Misnamed(r) =>
                  IF r.cut THEN r.text \in {"rest", "empty"} ELSE r.text = "whole"
  <2>1. PICK k \in dom : r = Callback(t, k) BY <1>5, <1>6
  <2> USE DEF dom
  <2>2. r.token = k /\ r.text = SaidTexts(t)[k] /\ r.at = call.cs /\ r.cut = (BegunAt(t)[k] = Earlier)
    BY <2>1 DEF Callback
  <2>3. k \in Tokens BY <1>1, TextsFacts DEF Tokens
  <2>4. r.text \in Texts BY <1>1, <2>2, TextsFacts
  <2>5. ASSUME ~over, ~Misnamed(r) PROVE Told(BegunAt(t)[k], r.text)
    <3>1. ~(k = "field" /\ call.cs \in {79, 117}) BY <2>2, <2>5 DEF Misnamed
    <3> QED BY <1>1, <2>2, <2>5, <3>1, TextsFacts
  <2> QED BY <2>2, <2>3, <2>4, <2>5 DEF Told
<1>7. Ghosts' BY <1>1, <1>2, <1>3, <1>4, <1>6 DEF IInv, Ghosts, Idle
<1>8. CallbacksExact' BY <1>1, <1>6 DEF CallbacksExact
<1> QED BY <1>7, <1>8

LEMMA ScanDiscipline ==
    ASSUME IInv, NEW t \in Transitions(call.cs), Scan(t)
    PROVE  Discipline'
<1>1. call.pc = "scan" /\ call.p < MaxLen /\ over' = over /\ begun' = BegunAt(t) BY ScanParts
<1>2. /\ Effect(parser', parser, t.do, Len(t.do), call.p)
      /\ call.p \in Nat /\ call'.cs = t.to /\ call'.pc # "idle"
  BY ScanEffect
<1> SUFFICES ASSUME ~over PROVE
      /\ MarkToken(t.to) # "none" => At(MarkToken(t.to), parser.mark)'
      /\ t.to \in NameStates => At("field", parser.field_start)'
      /\ t.to \in LineStates => At("field", parser.field_start)' /\ AtColon'
  BY <1>1, <1>2 DEF Discipline
<1>3. Disciplined(call.cs, t) BY <1>1, TransitionFacts
<1>4. ~Idle' /\ ~Idle BY <1>1, <1>2 DEF Idle
<1>5. ASSUME MarkToken(t.to) # "none" PROVE At(MarkToken(t.to), parser.mark)'
  <2> DEFINE k == MarkToken(t.to)
  <2>1. Marked(call.cs, t, Len(t.do), k) BY <1>3, <1>5 DEF Disciplined
  <2>2. k \in {"size", "version", "status", "value"} BY <1>5 DEF MarkToken
  <2>3. k \in Tokens \ {"colon"} BY <2>2 DEF Tokens
  <2> HIDE DEF k
  <2>4. CASE Did(t.do, Len(t.do), "mark")
    <3>1. BegunAt(t)[k] = call.p BY <1>1, <2>1, <2>4, StartFacts DEF Marked
    <3>2. parser'.mark = call.p BY <1>2, <2>4 DEF Effect
    <3>3. begun'[k] = parser'.mark BY <1>1, <3>1, <3>2
    <3> QED BY <1>4, <3>3 DEF At, k
  <2>5. CASE ~Did(t.do, Len(t.do), "mark")
    <3>1. MarkToken(call.cs) = k /\ BegunAt(t)[k] = begun[k]
      BY <1>1, <2>1, <2>3, <2>5, StartFacts DEF Marked
    <3>2. parser'.mark = parser.mark BY <1>2, <2>5 DEF Effect
    <3>3. begun[k] = parser.mark \/ (begun[k] = Earlier /\ parser.mark = 0)
      BY <1>4, <2>2, <3>1 DEF IInv, Discipline, At
    <3>4. begun'[k] = parser'.mark \/ (begun'[k] = Earlier /\ parser'.mark = 0)
      BY <1>1, <3>1, <3>2, <3>3
    <3> QED BY <1>4, <3>4 DEF At, k
  <2> QED BY <2>4, <2>5
<1>6. "field" \in Tokens \ {"colon"} BY DEF Tokens
<1>7. ASSUME "field" \notin Begins(call.cs, t.to), ~Does(t, "start_field"), At("field", parser.field_start)
      PROVE  begun'["field"] = begun["field"] /\ parser'.field_start = parser.field_start
             /\ At("field", parser.field_start)'
  <2>1. BegunAt(t)["field"] = begun["field"] BY <1>1, <1>6, <1>7, StartFacts
  <2>2. parser'.field_start = parser.field_start BY <1>2, <1>7 DEF Effect, Does
  <2> QED BY <1>1, <1>4, <1>7, <2>1, <2>2 DEF At
<1>8. ASSUME t.to \in NameStates PROVE At("field", parser.field_start)'
  <2>1. CASE Does(t, "start_field")
    <3>1. "field" \in Begins(call.cs, t.to) BY <1>3, <1>8, <2>1 DEF Disciplined
    <3>2. begun'["field"] = call.p BY <1>1, <3>1, StartFacts
    <3>3. parser'.field_start = call.p BY <1>2, <2>1 DEF Effect, Does
    <3> QED BY <1>4, <3>2, <3>3 DEF At
  <2>2. CASE ~Does(t, "start_field")
    <3>1. call.cs \in NameStates /\ "field" \notin Begins(call.cs, t.to)
      BY <1>3, <1>8, <2>2 DEF Disciplined
    <3>2. At("field", parser.field_start) BY <3>1 DEF IInv, Discipline
    <3> QED BY <1>7, <2>2, <3>1, <3>2
  <2> QED BY <2>1, <2>2
<1>9. ASSUME t.to \in LineStates PROVE At("field", parser.field_start)' /\ AtColon'
  <2>1. ~Does(t, "start_field") /\ "field" \notin Begins(call.cs, t.to)
    BY <1>3, <1>9 DEF Disciplined
  <2>2. call.cs \in NameStates \/ call.cs \in LineStates BY <1>3, <1>9 DEF Disciplined
  <2>3. At("field", parser.field_start) BY <2>2 DEF IInv, Discipline
  <2>4. begun'["field"] = begun["field"] /\ parser'.field_start = parser.field_start
        /\ At("field", parser.field_start)'
    BY <1>7, <2>1, <2>3
  <2>5. CASE Does(t, "write_field")
    <3>1. begun'["colon"] = call.p BY <1>1, <2>5, StartFacts
    <3>2. parser'.field_len = call.p - parser.field_start BY <1>2, <2>5 DEF Effect, Does
    <3> QED BY <1>2, <1>4, <2>4, <3>1, <3>2 DEF AtColon
  <2>6. CASE ~Does(t, "write_field")
    <3>1. begun'["colon"] = begun["colon"] BY <1>1, <2>6, StartFacts
    <3>2. parser'.field_len = parser.field_len BY <1>2, <2>6 DEF Effect, Does
    <3>3. call.cs \in LineStates BY <1>3, <1>9, <2>6 DEF Disciplined
    <3>4. AtColon BY <3>3 DEF IInv, Discipline
    <3> QED BY <1>4, <2>4, <3>1, <3>2, <3>4 DEF AtColon
  <2> QED BY <2>4, <2>5, <2>6
<1> QED BY <1>5, <1>8, <1>9

LEMMA ScanApart ==
    ASSUME IInv, NEW t \in Transitions(call.cs), Scan(t)
    PROVE  Apart'
<1>1. call.pc = "scan" /\ call.p < MaxLen /\ over' = over BY ScanParts
<1>2. Effect(parser', parser, t.do, Len(t.do), call.p) /\ call'.cs = t.to BY ScanEffect
<1> SUFFICES ASSUME ~over PROVE
      /\ t.to \in StartStates => res' = {}
      /\ t.to \in ChunkStates => ChunkHead'
      /\ t.to \in VersionStates => "version" \in res'
      /\ t.to \in HeadStates => FullHead'
      /\ t.to \in EndStates => ChunkHead' \/ FullHead'
  BY <1>1, <1>2 DEF Apart
<1>3. KeepsApart(call.cs, t) BY <1>1, TransitionFacts
<1>4. /\ res \subseteq res'
      /\ "version" \in res' <=> "version" \in res \/ Does(t, "http_version")
      /\ "status" \in res' <=> "status" \in res \/ Does(t, "status_code")
      /\ "field" \in res' => "field" \in res \/ Does(t, "write_value")
      /\ res' \subseteq {"version", "status", "field"}
  <2>1. res' = res \cup (DOMAIN SaidTexts(t) \cap {"version", "status", "field"}) BY ScanParts
  <2>2. /\ "version" \in DOMAIN SaidTexts(t) <=> Does(t, "http_version")
        /\ "status" \in DOMAIN SaidTexts(t) <=> Does(t, "status_code")
        /\ "field" \in DOMAIN SaidTexts(t) => Does(t, "write_value")
    BY <1>1, TextsFacts
  <2>3. res \subseteq {"version", "status", "field"} BY DEF IInv, Ghosts
  <2> QED BY <2>1, <2>2, <2>3
<1>5. /\ parser.content_len # "unset" \/ Does(t, "chunk_size") => parser'.content_len # "unset"
      /\ parser.chunked \/ Does(t, "chunk_size") => parser'.chunked
  BY <1>2 DEF Effect, Does
<1> DEFINE silent == ~Does(t, "http_version") /\ ~Does(t, "status_code")
           start == call.cs \in StartStates /\ silent /\ ~Does(t, "write_value")
           chunk == (start /\ Does(t, "chunk_size")) \/ (call.cs \in ChunkStates /\ silent)
           head == call.cs \in HeadStates \/ (call.cs \in VersionStates /\ Does(t, "status_code"))
<1>6. /\ t.to \in StartStates => start
      /\ t.to \in ChunkStates => chunk
      /\ t.to \in VersionStates => call.cs \in VersionStates \/ Does(t, "http_version")
      /\ t.to \in HeadStates => head
      /\ t.to \in EndStates => \/ chunk \/ head
                               \/ call.cs \in EndStates /\ silent /\ ~Does(t, "write_value")
  BY <1>3 DEF KeepsApart
<1>7. /\ call.cs \in StartStates => res = {}
      /\ call.cs \in ChunkStates => ChunkHead
      /\ call.cs \in VersionStates => "version" \in res
      /\ call.cs \in HeadStates => FullHead
      /\ call.cs \in EndStates => ChunkHead \/ FullHead
  BY DEF IInv, Apart
<1>8. start => res' = {} BY <1>4, <1>7
<1>9. ASSUME ChunkHead, silent PROVE ChunkHead' BY <1>4, <1>5, <1>9 DEF ChunkHead
<1>10. chunk => ChunkHead' BY <1>5, <1>7, <1>8, <1>9 DEF ChunkHead
<1>11. FullHead => FullHead' BY <1>4 DEF FullHead
<1>12. head => FullHead' BY <1>4, <1>7, <1>11 DEF FullHead
<1> QED BY <1>4, <1>6, <1>7, <1>8, <1>9, <1>10, <1>11, <1>12

\* A character preserves the invariant.
LEMMA ScanInv ==
    ASSUME IInv, NEW t \in Transitions(call.cs), Scan(t)
    PROVE  IInv' /\ CallbacksExact'
BY ScanPositions, ScanGhosts, ScanDiscipline, ScanApart DEF IInv

\* So does the start of a call, which forgets the positions.
LEMMA ExecuteInv ==
    ASSUME IInv, Execute
    PROVE  IInv' /\ CallbacksExact'
<1>1. call.pc = "idle" /\ parser.cs = call.cs BY DEF Execute, IInv, Positions, Idle
<1>2. /\ parser \in Parser /\ call \in Call
      /\ parser.body_start \in 0..MaxLen
  BY DEF IInv, Positions
<1>3. parser' = [parser EXCEPT !.nread = 0, !.mark = 0, !.field_len = 0, !.field_start = 0]
  BY DEF Execute, Reset
<1>4. /\ parser' \in Parser /\ parser'.nread = 0 /\ parser'.mark = 0 /\ parser'.field_len = 0
      /\ parser'.field_start = 0 /\ parser'.body_start = parser.body_start
      /\ parser'.content_len = parser.content_len /\ parser'.chunked = parser.chunked
  <2> DEFINE q == [parser EXCEPT !.nread = 0, !.mark = 0]
  <2>1. q \in Parser BY <1>2 DEF Parser
  <2> DEFINE r == [q EXCEPT !.field_len = 0]
  <2>2. parser' = [r EXCEPT !.field_start = 0] BY <1>3
  <2> HIDE DEF q
  <2>3. r \in Parser BY <2>1 DEF Parser
  <2> HIDE DEF r
  <2>4. parser' \in Parser BY <2>2, <2>3 DEF Parser
  <2> QED BY <1>2, <1>3, <2>4 DEF Parser
<1>5. call' = [pc |-> "scan", cs |-> parser.cs, p |-> 0, ret |-> "nread"] BY DEF Execute
<1>6. call' \in Call /\ call'.pc = "scan" /\ call'.cs = call.cs /\ call'.p = 0
  BY <1>1, <1>2, <1>5, MaxLenAssumption DEF Call
<1>7. /\ over' = (over \/ call.cs \in Final) /\ cb' = {} /\ res' = res /\ begun' = begun
  BY <1>1 DEF Execute
<1>8. Positions' BY <1>2, <1>4, <1>6, MaxLenAssumption DEF Positions, Inside, Idle
<1>9. Body' BY <1>4, <1>6, <1>7 DEF IInv, Body, Idle
<1>10. Ghosts' BY <1>1, <1>6, <1>7 DEF IInv, Ghosts, Idle
<1>11. Discipline'
  BY <1>1, <1>4, <1>6, <1>7 DEF IInv, Discipline, At, AtColon, Idle
<1>12. Apart' BY <1>4, <1>6, <1>7 DEF IInv, Apart, ChunkHead, FullHead
<1>13. CallbacksExact' BY <1>7 DEF CallbacksExact
<1> QED BY <1>8, <1>9, <1>10, <1>11, <1>12, <1>13 DEF IInv

\* A character that does not fit: the error state says nothing.
LEMMA RejectInv ==
    ASSUME IInv, Reject
    PROVE  IInv' /\ CallbacksExact'
<1>1. call.pc = "scan" /\ call \in Call BY DEF Reject, IInv, Positions
<1>2. call' = [call EXCEPT !.cs = Error, !.pc = "end"] BY DEF Reject
<1>3. call' \in Call /\ call'.pc = "end" /\ call'.cs = Error /\ call'.p = call.p
  BY <1>1, <1>2 DEF Call
<1>4. parser' = parser /\ over' = over /\ cb' = {} /\ res' = res /\ begun' = begun BY DEF Reject
<1>5. /\ Error \notin Final /\ MarkToken(Error) = "none" /\ Error \notin NameStates \cup LineStates
      /\ Error \notin StartStates \cup ChunkStates \cup VersionStates \cup HeadStates \cup EndStates
  BY DEF Error, Final, MarkToken, NameStates, LineStates, StartStates, ChunkStates, VersionStates,
         HeadStates, EndStates
<1>6. Positions' BY <1>1, <1>3, <1>4 DEF IInv, Positions, Inside, Idle
<1>7. Body'
  <2>1. call.p \in Nat BY <1>1 DEF Call
  <2> QED BY <1>1, <1>3, <1>4, <1>5, <2>1 DEF IInv, Body, Idle
<1>8. Ghosts' BY <1>3, <1>4 DEF IInv, Ghosts, Idle
<1>9. Discipline' BY <1>3, <1>4, <1>5 DEF Discipline
<1>10. Apart' BY <1>3, <1>4, <1>5 DEF Apart
<1>11. CallbacksExact' BY <1>4 DEF CallbacksExact
<1> QED BY <1>6, <1>7, <1>8, <1>9, <1>10, <1>11 DEF IInv

\* So does the end of a call, which moves every open token to an earlier buffer.
LEMMA ReturnInv ==
    ASSUME IInv, NEW len \in 0..MaxLen, Return(len)
    PROVE  IInv' /\ CallbacksExact'
<1> DEFINE q == [parser EXCEPT !.cs = call.cs, !.nread = @ + call.p]
<1>1. /\ parser \in Parser /\ call \in Call /\ call.pc \in {"scan", "end"} /\ len >= call.p
      /\ parser.nread = 0 /\ Inside(parser.mark) /\ Inside(parser.field_start)
      /\ parser.field_len \in 0..MaxLen /\ parser.field_len <= call.p
  <2>1. call.pc \in {"scan", "end"} /\ len \in Nat BY MaxLenAssumption DEF Return
  <2>2. call \in Call /\ parser \in Parser BY DEF IInv, Positions
  <2>3. call.p \in Nat BY <2>2 DEF Call
  <2>4. len >= call.p BY <2>1, <2>3 DEF Return
  <2> QED BY <2>1, <2>2, <2>4 DEF IInv, Positions
<1>2. parser' = q BY DEF Return
<1>3. /\ parser' \in Parser /\ parser'.cs = call.cs /\ parser'.nread = call.p
      /\ parser'.mark = parser.mark /\ parser'.field_start = parser.field_start
      /\ parser'.field_len = parser.field_len /\ parser'.body_start = parser.body_start
      /\ parser'.content_len = parser.content_len /\ parser'.chunked = parser.chunked
  <2> DEFINE r == [parser EXCEPT !.cs = call.cs]
  <2>1. r \in Parser /\ r.nread = 0 BY <1>1 DEF Parser, Call
  <2>2. call.p \in Nat BY <1>1 DEF Call
  <2>3. parser' = [r EXCEPT !.nread = call.p]
    <3>1. parser.nread + call.p = call.p BY <1>1, <2>2
    <3>2. parser' = [parser EXCEPT !.cs = call.cs, !.nread = parser.nread + call.p]
      BY <1>1, <1>2 DEF Parser
    <3>3. parser' = [parser EXCEPT !.cs = call.cs, !.nread = call.p] BY <3>1, <3>2
    <3> QED BY <3>3
  <2> HIDE DEF r
  <2>4. parser' \in Parser BY <2>1, <2>2, <2>3 DEF Parser
  <2> USE DEF r
  <2>5. /\ parser'.cs = call.cs /\ parser'.nread = call.p /\ parser'.mark = parser.mark
        /\ parser'.field_start = parser.field_start
    BY <1>1, <2>3 DEF Parser
  <2>6. /\ parser'.field_len = parser.field_len /\ parser'.body_start = parser.body_start
        /\ parser'.content_len = parser.content_len /\ parser'.chunked = parser.chunked
    BY <1>1, <2>3 DEF Parser
  <2> QED BY <2>4, <2>5, <2>6
<1> HIDE DEF q
<1>4. /\ call'.pc = IF Asserts(q, len) THEN "idle" ELSE "aborted"
      /\ call'.cs = call.cs /\ call'.p = 0
      /\ call'.ret = IF Checks(q, len) THEN "nread" ELSE "-1"
      /\ call' \in Call
  <2> DEFINE pc == IF Asserts(q, len) THEN "idle" ELSE "aborted"
             ret == IF Checks(q, len) THEN "nread" ELSE "-1"
  <2>1. call' = [pc |-> pc, cs |-> q.cs, p |-> 0, ret |-> ret] BY DEF Return, q
  <2>2. q.cs = call.cs BY <1>2, <1>3
  <2>3. pc \in {"idle", "aborted"} /\ ret \in {"nread", "-1"} OBVIOUS
  <2> HIDE DEF pc, ret
  <2>4. call' \in Call /\ call'.cs = call.cs /\ call'.p = 0 /\ call'.pc = pc /\ call'.ret = ret
    BY <1>1, <2>1, <2>2, <2>3, MaxLenAssumption DEF Call
  <2> QED BY <2>4 DEF pc, ret
<1>5. begun' = [k \in Tokens |-> IF begun[k] = Closed THEN Closed ELSE Earlier]
      /\ cb' = {} /\ res' = res /\ over' = over
  BY DEF Return
<1>6. call.p \in Nat /\ len \in Nat BY <1>1, MaxLenAssumption DEF Call
<1>7. ~over => Asserts(q, len)
  <2>1. ~over => parser.body_start <= call.p BY <1>1, <1>6 DEF IInv, Body
  <2>2. parser.body_start \in Nat BY <1>1 DEF Parser
  <2> QED BY <1>1, <1>2, <1>3, <1>6, <2>1, <2>2 DEF Asserts
<1>8. call.p # 0 => Checks(q, len)
  <2>1. parser.mark \in Nat /\ parser.field_start \in Nat BY <1>1 DEF Parser
  <2> QED BY <1>1, <1>2, <1>3, <1>6, <2>1 DEF Checks, Inside
<1>9. Positions'
  <2>1. \A f \in {"mark", "field_start", "field_len", "body_start"} : parser'[f] \in 0..MaxLen
    BY <1>3 DEF IInv, Positions
  <2> QED BY <1>3, <1>4, <1>5, <1>7, <1>8, <2>1 DEF Positions, Idle
<1>10. Body' BY <1>1, <1>3, <1>4, <1>5, <1>7 DEF IInv, Body, Idle
<1>11. Ghosts' BY <1>4, <1>5 DEF IInv, Ghosts, Idle
<1>12. ASSUME ~over PROVE Idle' BY <1>4, <1>7, <1>12 DEF Idle
<1>13. Discipline'
  <2>1. Closed # Earlier /\ Closed \notin Nat /\ parser.mark \in Nat /\ parser.field_start \in Nat
    BY <1>1 DEF Closed, Earlier, Parser
  <2>2. ~Idle BY <1>1 DEF Idle
  <2>3. ASSUME NEW k \in Tokens, NEW pos \in Nat, At(k, pos) PROVE begun'[k] = Earlier
    BY <1>5, <2>1, <2>2, <2>3 DEF At
  <2>4. AtColon => begun'["colon"] = Earlier
    BY <1>5, <2>1, <2>2 DEF AtColon, Tokens
  <2>5. "field" \in Tokens BY DEF Tokens
  <2>6. MarkToken(call.cs) # "none" => MarkToken(call.cs) \in Tokens BY DEF MarkToken, Tokens
  <2>7. ASSUME ~over
        PROVE  /\ MarkToken(call.cs) # "none" => begun'[MarkToken(call.cs)] = Earlier
               /\ call.cs \in NameStates => begun'["field"] = Earlier
               /\ call.cs \in LineStates => begun'["field"] = Earlier /\ begun'["colon"] = Earlier
    BY <2>1, <2>3, <2>4, <2>5, <2>6, <2>7 DEF IInv, Discipline
  <2> QED BY <1>4, <1>5, <1>12, <2>7 DEF Discipline, At, AtColon
<1>14. Apart' BY <1>3, <1>4, <1>5 DEF IInv, Apart, ChunkHead, FullHead
<1>15. CallbacksExact' BY <1>5 DEF CallbacksExact
<1> QED BY <1>9, <1>10, <1>11, <1>13, <1>14, <1>15 DEF IInv

LEMMA InitInv == Init => IInv /\ CallbacksExact
<1> SUFFICES ASSUME Init PROVE IInv /\ CallbacksExact OBVIOUS
<1>1. parser \in Parser /\ call \in Call
  <2>1. 1 \in DOMAIN ResponseTable BY TableFacts
  <2>2. "unset" \in Texts \cup {"unset"} OBVIOUS
  <2> QED BY <2>1, <2>2, MaxLenAssumption DEF Init, Parser, Call
<1>2. Positions BY <1>1, MaxLenAssumption DEF Init, Positions, Idle
<1>3. Body BY DEF Init, Body, Final
<1>4. Ghosts BY DEF Init, Ghosts, Idle
<1>5. MarkToken(1) = "none" /\ 1 \notin NameStates \cup LineStates
  BY DEF MarkToken, NameStates, LineStates
<1>6. Discipline BY <1>5 DEF Init, Discipline
<1>7. 1 \notin ChunkStates \cup VersionStates \cup HeadStates \cup EndStates
  BY DEF ChunkStates, VersionStates, HeadStates, EndStates
<1>8. Apart BY <1>7 DEF Init, Apart
<1>9. CallbacksExact BY DEF Init, CallbacksExact
<1> QED BY <1>2, <1>3, <1>4, <1>6, <1>8, <1>9 DEF IInv

LEMMA NextInv == IInv /\ CallbacksExact /\ [Next]_vars => IInv' /\ CallbacksExact'
<1> SUFFICES ASSUME IInv, CallbacksExact, [Next]_vars PROVE IInv' /\ CallbacksExact' OBVIOUS
<1>1. CASE Next BY <1>1, ExecuteInv, ScanInv, RejectInv, ReturnInv DEF Next
<1>2. CASE UNCHANGED vars
  BY <1>2 DEF vars, IInv, Positions, Inside, Body, Ghosts, Discipline, At, AtColon, Apart, ChunkHead,
              FullHead, Idle, CallbacksExact
<1> QED BY <1>1, <1>2

LEMMA ResponseInv == Spec => [](IInv /\ CallbacksExact)
BY InitInv, NextInv, PTL DEF Spec

----------------------------------------------------------------------------
\* However a response is cut into buffers, and however long these are: every
\* callback is given exactly its token when the token lies in one buffer, and
\* its rest or nothing when a call of execute cut it, but for the name of a
\* field whose value is on the next line.
THEOREM CallbacksTheorem == Spec => []CallbacksExact
BY ResponseInv, PTL

\* httpclient_parser_execute returns -1 only for an empty buffer, its asserts
\* fail only when a finished parser is used again, and no position is behind
\* the buffer.
THEOREM RefusesTheorem == Spec => []RefusesOnlyEmpty
<1>1. IInv => RefusesOnlyEmpty
  <2> SUFFICES ASSUME IInv PROVE RefusesOnlyEmpty OBVIOUS
  <2>1. parser.cs \in DOMAIN ResponseTable \cup {Error} /\ parser.content_len \in Texts \cup {"unset"}
    BY DEF IInv, Positions, Parser
  <2>2. /\ call.cs \in DOMAIN ResponseTable \cup {Error} /\ call.p \in 0..MaxLen
        /\ call.pc \in {"idle", "scan", "end", "aborted"} /\ call.ret \in {"nread", "-1"}
    BY DEF IInv, Positions, Call
  <2>3. TypeOK BY <2>1, <2>2 DEF IInv, Positions, Ghosts, TypeOK
  <2> QED BY <2>3 DEF IInv, Positions, RefusesOnlyEmpty
<1> QED BY <1>1, ResponseInv, PTL

\* A parser that ended a head has reported version and status, otherwise it read
\* a chunk header and stored its size; the body begins behind the last byte that
\* execute consumed.
THEOREM HeadTheorem == Spec => []HeadComplete
<1>1. IInv => HeadComplete
  <2> SUFFICES ASSUME IInv, Idle, ~over, parser.cs \in Final
               PROVE  /\ parser.body_start = parser.nread
                      /\ FullHead \/ ChunkHead
    BY DEF HeadComplete, FullHead, ChunkHead
  <2>1. parser.cs = call.cs BY DEF IInv, Positions
  <2>2. call.cs \in HeadStates \cup EndStates BY <2>1 DEF Final, HeadStates, EndStates
  <2> QED BY <2>1, <2>2 DEF IInv, Body, Apart
<1> QED BY <1>1, ResponseInv, PTL
=============================================================================
