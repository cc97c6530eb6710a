-------------------------- MODULE HttpRequestProofs --------------------------
(* The parser of HTTP requests (http_request.cc, http11_parser.rl.cc) for     *)
(* buffers of every length: what the scanner reports, however a request is    *)
(* cut into calls of execute.                                                 *)
EXTENDS HttpRequestParser, TLAPS

\* The structure without its bounds.
Parser == [cs : DOMAIN RequestTable \cup {Error}, mark : Nat, field_start : Nat, field_len : Int,
           query_start : Nat, body_start : Nat, content_len : Int, nread : Nat,
           xml_sent : BOOLEAN, json_sent : BOOLEAN, uri_relaxed : BOOLEAN]

Call == [pc : {"idle", "scan", "end", "thrown", "aborted"},
         cs : DOMAIN RequestTable \cup {Error}, p : 0..MaxLen]

\* A position in the part of the buffer that is read; 0 if nothing is.
Inside(pos) == pos = 0 \/ pos < call.p

\* Positions stay in the buffer.  call.cs is where the scanner is, also between
\* two calls; only there parser.cs is up to date.
Positions ==
    /\ parser \in Parser /\ call \in Call
    /\ \A f \in {"mark", "field_start", "field_len", "body_start"} : parser[f] \in 0..MaxLen
    /\ Idle => parser.cs = call.cs
    /\ ~over /\ parser.cs \in Final => Idle
    /\ call.pc \in {"scan", "end"} =>
         /\ Inside(parser.mark) /\ Inside(parser.field_start)
         /\ parser.field_len <= call.p /\ parser.nread = 0
         /\ parser.cs = Error => call.cs = Error
    /\ call.pc = "end" => call.cs \in Final \cup {Error}
    /\ call.pc = "aborted" => over

\* Whether a body was announced.
Bodiless ==
    /\ parser.body_start = 0 /\ parser.content_len = 0
    /\ ~parser.xml_sent /\ ~parser.json_sent

\* body_start is set once, by the call that ends the head.
Body ==
    ~over /\ call.pc # "thrown" =>
        /\ call.pc = "scan" => call.cs \notin Final
        /\ call.cs \notin Final => Bodiless
        /\ call.cs \in Final =>
             /\ call.pc = "end" => /\ parser.body_start + parser.content_len = call.p
                                   /\ parser.body_start <= call.p
             /\ Idle => parser.body_start + parser.content_len = parser.nread

Ghosts ==
    /\ over \in BOOLEAN
    /\ req \subseteq Parts
    /\ begun \in [Tokens -> {Closed, Earlier} \cup 0..(MaxLen - 1)]
    /\ Idle => \A k \in Tokens : begun[k] \in {Closed, Earlier}
    /\ \A r \in cb : r.token \in Tokens /\ r.text \in Texts \cup {"thrown"}
    /\ call.pc = "thrown" => \E r \in cb : r.token = "query" /\ r.cut

\* The token k begins at pos, or it began in an earlier buffer and pos is the
\* first byte of this one.  Between two calls every token began earlier.
At(k, pos) ==
    IF Idle THEN begun[k] = Earlier
    ELSE begun[k] = pos \/ (begun[k] = Earlier /\ pos = 0)

\* query_start is not reset: it says nothing of a query that began earlier.
AtQuery ==
    IF Idle THEN begun["query"] = Earlier
    ELSE \/ begun["query"] = Earlier
         \/ begun["query"] = parser.query_start /\ parser.query_start < call.p

\* field_len reaches from field_start to the colon; it is 0 if the colon was in
\* an earlier buffer.
AtColon ==
    IF Idle THEN begun["colon"] = Earlier
    ELSE \/ begun["colon"] \in Nat /\ parser.field_len = begun["colon"] - parser.field_start
         \/ /\ begun["colon"] = Earlier /\ begun["field"] = Earlier
            /\ parser.field_start = 0 /\ parser.field_len = 0

\* What the state of the scanner says about positions is so.
Discipline ==
    call.pc # "thrown" =>
        /\ call.cs \in QueryStates => AtQuery
        /\ ~over => /\ \A k \in MarkTokens(call.cs) : At(k, parser.mark)
                    /\ call.cs \in NameStates => At("field", parser.field_start)
                    /\ call.cs \in LineStates => At("field", parser.field_start) /\ AtColon

\* What the state of the scanner says about the request is so.
Order == ~over => Must(call.cs) \subseteq req /\ req \subseteq May(call.cs)

\* The inductive invariant.
IInv == Positions /\ Body /\ Ghosts /\ Discipline /\ Order

----------------------------------------------------------------------------
(* What the actions of a transition do to the structure.                      *)

\* Applied runs the actions one after the other.
LEMMA AppliedSteps ==
    ASSUME NEW do \in Seq(Actions), Len(do) <= 3, NEW p
    PROVE  /\ Applied(do, p)[0] = parser
           /\ \A n \in 1..Len(do) : Applied(do, p)[n] = Apply(do[n], Applied(do, p)[n - 1], p)
<1>1. Len(do) \in Nat /\ Len(do) <= 3 OBVIOUS
<1> DEFINE q1 == Apply(do[1], parser, p)
           q2 == Apply(do[2], q1, p)
           q3 == Apply(do[3], q2, p)
           N == 0..Len(do)
           Step(g, n) == IF n = 0 THEN parser ELSE Apply(do[n], g[n - 1], p)
           h == [n \in N |-> IF n = 0 THEN parser ELSE IF n = 1 THEN q1 ELSE
                             IF n = 2 THEN q2 ELSE q3]
           f == Applied(do, p)
<1>2. h = [n \in N |-> Step(h, n)]
  <2>1. ASSUME NEW n \in N PROVE h[n] = Step(h, n)
    <3>1. n \in {0, 1, 2, 3} BY <1>1
    <3>2. n # 0 => n - 1 \in N BY <1>1
    <3> QED BY <3>1, <3>2
  <2> QED BY <2>1
<1>3. f = CHOOSE g : g = [n \in N |-> Step(g, n)] BY DEF Applied
<1>4. f = [n \in N |-> Step(f, n)] BY <1>2, <1>3
<1>5. ASSUME NEW n \in N PROVE f[n] = Step(f, n) BY <1>4
<1> QED BY <1>1, <1>5

\* What is left of the structure q0 after the first n actions at position p.
Effect(q, q0, do, n, p) ==
    /\ q \in Parser
    /\ q.cs = q0.cs /\ q.nread = q0.nread
    /\ q.mark = IF Did(do, n, "mark") THEN p ELSE q0.mark
    /\ q.field_start = IF Did(do, n, "start_field") THEN p ELSE q0.field_start
    /\ q.field_len = IF Did(do, n, "write_field") THEN p - q0.field_start ELSE q0.field_len
    /\ q.query_start = IF Did(do, n, "start_query") THEN p ELSE q0.query_start
    /\ q.xml_sent <=> q0.xml_sent \/ Did(do, n, "xml")
    /\ q.json_sent <=> q0.json_sent \/ Did(do, n, "json")
    /\ IF Did(do, n, "done")
       THEN /\ q.body_start \in 0..(p + 1)
            /\ q0.content_len = 0 => q.body_start + q.content_len = p + 1
       ELSE q.body_start = q0.body_start /\ q.content_len = q0.content_len

\* One action.
OneEffect(r, q, act, p) ==
    /\ r \in Parser
    /\ r.cs = q.cs /\ r.nread = q.nread
    /\ r.mark = IF act = "mark" THEN p ELSE q.mark
    /\ r.field_start = IF act = "start_field" THEN p ELSE q.field_start
    /\ r.field_len = IF act = "write_field" THEN p - q.field_start ELSE q.field_len
    /\ r.query_start = IF act = "start_query" THEN p ELSE q.query_start
    /\ r.xml_sent <=> q.xml_sent \/ act = "xml"
    /\ r.json_sent <=> q.json_sent \/ act = "json"
    /\ IF act = "done"
       THEN IF q.xml_sent \/ q.json_sent
            THEN r.body_start = q.mark /\ r.content_len = p - q.mark + 1
            ELSE r.body_start = p + 1 /\ r.content_len = q.content_len
       ELSE r.body_start = q.body_start /\ r.content_len = q.content_len

LEMMA ApplyEffect ==
    ASSUME NEW q \in Parser, NEW p \in Nat, NEW act \in Actions
    PROVE  OneEffect(Apply(act, q, p), q, act, p)
<1> DEFINE r == Apply(act, q, p)
<1>1. CASE act = "mark"
  <2>1. r = [q EXCEPT !.mark = p] BY <1>1 DEF Apply
  <2> QED BY <1>1, <2>1 DEF Parser, OneEffect
<1>2. CASE act = "start_field"
  <2>1. r = [q EXCEPT !.field_start = p] BY <1>2 DEF Apply
  <2> QED BY <1>2, <2>1 DEF Parser, OneEffect
<1>3. CASE act = "start_query"
  <2>1. r = [q EXCEPT !.query_start = p] BY <1>3 DEF Apply
  <2> QED BY <1>3, <2>1 DEF Parser, OneEffect
<1>4. CASE act = "write_field"
  <2>1. r = [q EXCEPT !.field_len = p - q.field_start] BY <1>4 DEF Apply, LEN
  <2> QED BY <1>4, <2>1 DEF Parser, OneEffect
<1>5. CASE act = "xml"
  <2>1. r = [q EXCEPT !.xml_sent = TRUE] BY <1>5 DEF Apply
  <2> QED BY <1>5, <2>1 DEF Parser, OneEffect
<1>6. CASE act = "json"
  <2>1. r = [q EXCEPT !.json_sent = TRUE] BY <1>6 DEF Apply
  <2> QED BY <1>6, <2>1 DEF Parser, OneEffect
<1>7. CASE act = "done"
  <2>1. CASE q.xml_sent \/ q.json_sent
    <3> DEFINE c == p - q.mark + 1
    <3>1. r = [q EXCEPT !.body_start = q.mark, !.content_len = c] BY <1>7, <2>1 DEF Apply, Done
    <3>2. c \in Int /\ q.mark \in Nat BY DEF Parser, OneEffect
    <3> HIDE DEF c, OneEffect
    <3>3. r \in Parser BY <3>1, <3>2 DEF Parser, OneEffect
    <3>4. r.body_start = q.mark /\ r.content_len = c /\ r.cs = q.cs /\ r.nread = q.nread
          /\ r.mark = q.mark
      BY <3>1, <3>2 DEF Parser, OneEffect
    <3>5. /\ r.field_start = q.field_start /\ r.field_len = q.field_len
          /\ r.query_start = q.query_start /\ r.xml_sent = q.xml_sent /\ r.json_sent = q.json_sent
      BY <3>1, <3>2 DEF Parser, OneEffect
    <3> QED BY <1>7, <2>1, <3>3, <3>4, <3>5 DEF c, OneEffect
  <2>2. CASE ~(q.xml_sent \/ q.json_sent)
    <3>1. r = [q EXCEPT !.body_start = p + 1] BY <1>7, <2>2 DEF Apply, Done
    <3> QED BY <1>7, <2>2, <3>1 DEF Parser, OneEffect
  <2> QED BY <2>1, <2>2
<1>8. CASE act \in {"write_value", "request_method", "request_path", "request_uri", "query_string",
                    "fragment", "http_version"}
  <2>1. r = q BY <1>8 DEF Apply
  <2> QED BY <1>8, <2>1 DEF OneEffect
<1> QED BY <1>1, <1>2, <1>3, <1>4, <1>5, <1>6, <1>7, <1>8 DEF Actions

\* The n-th action after the ones before it.
LEMMA EffectStep ==
    ASSUME NEW do \in Seq(Actions), NEW n \in 1..Len(do), NEW p \in Nat,
           NEW q, NEW q0 \in Parser, q0.mark <= p, Effect(q, q0, do, n - 1, p),
           ~Did(do, Len(do) - 1, "done"),
           ~(Did(do, Len(do), "start_field") /\ Did(do, Len(do), "write_field"))
    PROVE  Effect(Apply(do[n], q, p), q0, do, n, p)
<1> DEFINE act == do[n]
           r == Apply(act, q, p)
<1>1. act \in Actions /\ n \in 1..Len(do) /\ n \in Nat /\ Len(do) \in Nat OBVIOUS
<1>2. ASSUME NEW a PROVE Did(do, n, a) <=> Did(do, n - 1, a) \/ act = a
  BY <1>1 DEF Did
<1>3. ASSUME NEW a, Did(do, n, a) PROVE Did(do, Len(do), a)
  BY <1>1, <1>3 DEF Did
<1>4. ~Did(do, n - 1, "done") BY <1>1 DEF Did
<1>5. q \in Parser BY DEF Effect
<1>6. OneEffect(r, q, act, p) BY <1>1, <1>5, ApplyEffect
<1>7. act = "write_field" => q.field_start = q0.field_start
  BY <1>2, <1>3 DEF Effect
<1> HIDE DEF r, act
<1>8. r.mark = IF Did(do, n, "mark") THEN p ELSE q0.mark BY <1>2, <1>6 DEF Effect, OneEffect
<1>9. r.field_start = IF Did(do, n, "start_field") THEN p ELSE q0.field_start
  BY <1>2, <1>6 DEF Effect, OneEffect
<1>10. r.field_len = IF Did(do, n, "write_field") THEN p - q0.field_start ELSE q0.field_len
  BY <1>2, <1>6, <1>7 DEF Effect, OneEffect
<1>11. r.query_start = IF Did(do, n, "start_query") THEN p ELSE q0.query_start
  BY <1>2, <1>6 DEF Effect, OneEffect
<1>12. /\ r.xml_sent <=> q0.xml_sent \/ Did(do, n, "xml")
       /\ r.json_sent <=> q0.json_sent \/ Did(do, n, "json")
  BY <1>2, <1>6 DEF Effect, OneEffect
<1>13. q.content_len = q0.content_len /\ q.body_start = q0.body_start /\ q.mark \in 0..p
  BY <1>4 DEF Effect, Parser
<1>14. IF Did(do, n, "done")
       THEN /\ r.body_start \in 0..(p + 1)
            /\ q0.content_len = 0 => r.body_start + r.content_len = p + 1
       ELSE r.body_start = q0.body_start /\ r.content_len = q0.content_len
  <2>1. CASE act = "done" /\ (q.xml_sent \/ q.json_sent)
    <3>1. r.body_start = q.mark /\ r.content_len = p - q.mark + 1 BY <1>6, <2>1 DEF OneEffect
    <3>2. r.body_start \in 0..(p + 1) /\ r.body_start + r.content_len = p + 1 BY <1>13, <3>1
    <3> QED BY <1>2, <2>1, <3>2
  <2>2. CASE act = "done" /\ ~(q.xml_sent \/ q.json_sent)
    <3>1. r.body_start = p + 1 /\ r.content_len = q0.content_len BY <1>6, <1>13, <2>2 DEF OneEffect
    <3>2. q0.content_len = 0 => r.body_start + r.content_len = p + 1 BY <3>1
    <3>3. r.body_start \in 0..(p + 1) BY <3>1
    <3> QED BY <1>2, <2>2, <3>2, <3>3
  <2>3. CASE act # "done" BY <1>2, <1>4, <1>6, <1>13, <2>3 DEF OneEffect
  <2> QED BY <2>1, <2>2, <2>3
<1>15. r.cs = q0.cs /\ r.nread = q0.nread BY <1>6 DEF Effect, OneEffect
<1> QED BY <1>6, <1>8, <1>9, <1>10, <1>11, <1>12, <1>14, <1>15 DEF Effect, OneEffect, r, act

\* All of them.
LEMMA AppliedEffect ==
    ASSUME NEW do \in Seq(Actions), Len(do) <= 3, NEW p \in Nat,
           parser \in Parser, parser.mark <= p, ~Did(do, Len(do) - 1, "done"),
           ~(Did(do, Len(do), "start_field") /\ Did(do, Len(do), "write_field"))
    PROVE  \A n \in 0..Len(do) : Effect(Applied(do, p)[n], parser, do, n, p)
<1> DEFINE f == Applied(do, p)
           P(n) == n \in 0..Len(do) => Effect(f[n], parser, do, n, p)
<1>1. Len(do) \in Nat OBVIOUS
<1>2. P(0)
  <2>1. \A a : ~Did(do, 0, a) BY DEF Did
  <2> QED BY <2>1, AppliedSteps DEF Effect
<1>3. ASSUME NEW n \in 1..3, P(n - 1) PROVE P(n)
  <2> SUFFICES ASSUME n \in 0..Len(do) PROVE Effect(f[n], parser, do, n, p) OBVIOUS
  <2>1. n \in 1..Len(do) /\ n - 1 \in 0..Len(do) BY <1>1
  <2>2. Effect(f[n - 1], parser, do, n - 1, p) BY <1>3, <2>1
  <2>3. f[n] = Apply(do[n], f[n - 1], p) BY <2>1, AppliedSteps
  <2> HIDE DEF f
  <2> QED BY <2>1, <2>2, <2>3, EffectStep
<1> HIDE DEF P
<1>4. P(1) BY <1>2, <1>3
<1>5. P(2) BY <1>4, <1>3
<1>6. P(3) BY <1>5, <1>3
<1>7. \A n \in 0..Len(do) : n \in {0, 1, 2, 3} BY <1>1
<1> QED BY <1>2, <1>4, <1>5, <1>6, <1>7 DEF P

----------------------------------------------------------------------------
(* What a character reports.  The parts of Scan have names here.              *)

BegunAt(t) ==
    [k \in Tokens |-> CASE k \in Begins(call.cs, t.to) -> call.p
                        [] k = "colon" /\ "write_field" \in {t.do[n] : n \in 1..Len(t.do)} -> call.p
                        [] OTHER -> begun[k]]
Said(t) == Reported(t.do, call.p)
End(t, k) == CASE k = "field" -> BegunAt(t)["colon"] [] k = "data" -> call.p + 1 [] OTHER -> call.p
Text(t, r) == TextOf(BegunAt(t)[r[1]], r[2], r[3], End(t, r[1]))
SaidTexts(t) == [k \in {r[1] : r \in Said(t)} |-> Text(t, CHOOSE r \in Said(t) : r[1] = k)]
Callback(t, k) == [token |-> k, text |-> SaidTexts(t)[k], cut |-> BegunAt(t)[k] = Earlier]
Thrown(t) == [token |-> "query", text |-> "thrown", cut |-> BegunAt(t)["query"] = Earlier]
Throws(t) == \E r \in Said(t) : r[3] < 0

LEMMA ScanParts ==
    ASSUME NEW t, Scan(t)
    PROVE  /\ call.pc = "scan" /\ call.p < MaxLen
           /\ parser' = Applied(t.do, call.p)[Len(t.do)]
           /\ Throws(t) => /\ call' = [call EXCEPT !.pc = "thrown"]
                           /\ cb' = {Thrown(t)} /\ req' = req /\ begun' = begun
           /\ ~Throws(t) =>
                /\ call' = [call EXCEPT !.cs = t.to, !.p = call.p + 1,
                                        !.pc = IF t.to \in Final THEN "end" ELSE "scan"]
                /\ req' = req \cup (DOMAIN SaidTexts(t) \cap Parts)
                /\ cb' = {Callback(t, k) : k \in DOMAIN SaidTexts(t)}
                /\ begun' = [k \in Tokens |-> IF k \in Closes(t.do) THEN Closed ELSE BegunAt(t)[k]]
           /\ over' = over
BY DEF Scan, BegunAt, Said, End, Text, SaidTexts, Callback, Thrown, Throws

\* A text that begins where its token does is the token; one from the first
\* byte of the buffer on is the rest of a token that began earlier.
Told(b, text) == IF b = Earlier THEN text \in {"rest", "empty"} ELSE text = "whole"

LEMMA TextType == \A b, from, n, e : TextOf(b, from, n, e) \in Texts
BY DEF TextOf, Texts

LEMMA TextTold ==
    ASSUME NEW b, NEW from \in Nat, NEW e \in Int, b = from \/ (b = Earlier /\ from = 0)
    PROVE  Told(b, TextOf(b, from, e - from, e))
<1>1. CASE b = from
  <2>1. TextOf(b, from, e - from, e) = "whole" BY <1>1 DEF TextOf
  <2> QED BY <1>1, <2>1 DEF Told, Earlier
<1>2. CASE b = Earlier /\ from = 0
  <2>1. TextOf(b, from, e - from, e) \in {"rest", "empty"} BY <1>2 DEF TextOf, Earlier
  <2> QED BY <1>2, <2>1 DEF Told
<1> QED BY <1>1, <1>2

LEMMA ReportCases ==
    ASSUME NEW act, NEW q, NEW p, NEW r \in Reports(act, q, p)
    PROVE  \/ act \in DOMAIN FromMark /\ r = <<FromMark[act], q.mark, p - q.mark>>
           \/ act = "query_string" /\ r = <<"query", q.query_start, p - q.query_start>>
           \/ act = "write_value" /\ r = <<"field", q.field_start, q.field_len>>
           \/ act = "write_value" /\ r = <<"value", q.mark, p - q.mark>>
           \/ act = "done" /\ (q.xml_sent \/ q.json_sent) /\ r = <<"data", q.mark, p - q.mark + 1>>
BY DEF Reports, LEN

\* A state of the scanner and a transition of it that is not in an error state.
LEMMA TransitionFacts ==
    ASSUME IInv, call.pc = "scan", NEW t \in Transitions(call.cs)
    PROVE  /\ WellFormed(t) /\ Queried(call.cs, t) /\ Begins(call.cs, t.to) \subseteq Tokens \ {"colon"}
           /\ ~over => Disciplined(call.cs, t) /\ Ordered(call.cs, t)
<1>1. call.cs \in DOMAIN RequestTable \ {Error} /\ t \in RequestTable[call.cs]
  BY DEF IInv, Positions, Call, Transitions
<1> QED BY <1>1, TableFacts DEF IInv, Body

\* Where the tokens begin after a transition.
LEMMA StartFacts ==
    ASSUME IInv, call.pc = "scan", call.p < MaxLen, NEW t \in Transitions(call.cs)
    PROVE  /\ BegunAt(t) \in [Tokens -> {Closed, Earlier} \cup 0..(MaxLen - 1)]
           /\ \A k \in Begins(call.cs, t.to) : BegunAt(t)[k] = call.p
           /\ \A k \in Tokens \ {"colon"} : k \notin Begins(call.cs, t.to) => BegunAt(t)[k] = begun[k]
           /\ BegunAt(t)["colon"] = IF Does(t, "write_field") THEN call.p ELSE begun["colon"]
<1>1. Begins(call.cs, t.to) \subseteq Tokens \ {"colon"} BY TransitionFacts
<1>2. begun \in [Tokens -> {Closed, Earlier} \cup 0..(MaxLen - 1)] BY DEF IInv, Ghosts
<1>3. call.p \in 0..(MaxLen - 1) BY MaxLenAssumption DEF IInv, Positions, Call
<1>4. "colon" \in Tokens BY DEF Tokens
<1>5. Does(t, "write_field") <=> "write_field" \in {t.do[n] : n \in 1..Len(t.do)} BY DEF Does, Did
<1> QED BY <1>1, <1>2, <1>3, <1>4, <1>5 DEF BegunAt

\* The structure after n actions.
LEMMA StepFacts ==
    ASSUME IInv, call.pc = "scan", NEW t \in Transitions(call.cs), NEW n \in 0..Len(t.do)
    PROVE  Effect(Applied(t.do, call.p)[n], parser, t.do, n, call.p)
<1>1. WellFormed(t) BY TransitionFacts
<1>2. parser \in Parser /\ call.p \in Nat BY DEF IInv, Positions, Call
<1>3. parser.mark <= call.p BY <1>2 DEF IInv, Positions, Inside, Parser
<1> QED BY <1>1, <1>2, <1>3, AppliedEffect DEF WellFormed, Does

\* The bounds of the structure after n actions: no text but that of a query has
\* a negative length.
LEMMA StepBounds ==
    ASSUME IInv, call.pc = "scan", NEW q, NEW do, NEW n, Effect(q, parser, do, n, call.p)
    PROVE  /\ q.mark \in 0..call.p /\ q.field_start \in 0..call.p /\ q.field_len \in 0..call.p
           /\ q.query_start \in Nat
<1>1. parser \in Parser /\ call.p \in Nat /\ q \in Parser BY DEF IInv, Positions, Call, Effect
<1>2. /\ parser.mark \in 0..call.p /\ parser.field_start \in 0..call.p
      /\ parser.field_len \in 0..call.p
  BY <1>1 DEF IInv, Positions, Inside, Parser
<1> QED BY <1>1, <1>2 DEF Effect, Parser

\* The token k is where mark points.
LEMMA MarkPlace ==
    ASSUME IInv, call.pc = "scan", call.p < MaxLen, NEW t \in Transitions(call.cs), ~over,
           NEW n \in 0..Len(t.do), NEW k \in Tokens \ {"colon"}, Marked(call.cs, t, n, k),
           NEW q, Effect(q, parser, t.do, n, call.p)
    PROVE  BegunAt(t)[k] = q.mark \/ (BegunAt(t)[k] = Earlier /\ q.mark = 0)
<1>1. CASE Did(t.do, n, "mark")
  <2>1. BegunAt(t)[k] = call.p BY <1>1, StartFacts DEF Marked, Stored
  <2>2. q.mark = call.p BY <1>1 DEF Effect
  <2> QED BY <2>1, <2>2
<1>2. CASE ~Did(t.do, n, "mark")
  <2>1. k \in MarkTokens(call.cs) /\ BegunAt(t)[k] = begun[k] BY <1>2, StartFacts DEF Marked, Stored
  <2>2. q.mark = parser.mark BY <1>2 DEF Effect
  <2>3. begun[k] = parser.mark \/ (begun[k] = Earlier /\ parser.mark = 0)
    BY <2>1 DEF IInv, Discipline, At, Idle
  <2> QED BY <2>1, <2>2, <2>3
<1> QED BY <1>1, <1>2

\* A query is where query_start points, unless it began earlier.
LEMMA QueryPlace ==
    ASSUME IInv, call.pc = "scan", call.p < MaxLen, NEW t \in Transitions(call.cs),
           NEW n \in 0..Len(t.do), NEW q, Effect(q, parser, t.do, n, call.p),
           Stored(call.cs, t, n, "start_query", "query", call.cs \in QueryStates)
    PROVE  \/ BegunAt(t)["query"] = Earlier
           \/ BegunAt(t)["query"] = q.query_start /\ q.query_start \in 0..call.p
<1>1. call.p \in Nat /\ parser.query_start \in Nat BY DEF IInv, Positions, Call, Parser
<1>2. CASE Did(t.do, n, "start_query")
  <2>1. BegunAt(t)["query"] = call.p BY <1>2, StartFacts DEF Stored
  <2>2. q.query_start = call.p BY <1>2 DEF Effect
  <2> QED BY <1>1, <2>1, <2>2
<1>3. CASE ~Did(t.do, n, "start_query")
  <2>1. "query" \in Tokens \ {"colon"} BY DEF Tokens
  <2>2. call.cs \in QueryStates /\ BegunAt(t)["query"] = begun["query"]
    BY <1>3, <2>1, StartFacts DEF Stored
  <2>3. q.query_start = parser.query_start BY <1>3 DEF Effect
  <2>4. \/ begun["query"] = Earlier
        \/ begun["query"] = parser.query_start /\ parser.query_start < call.p
    BY <2>2 DEF IInv, Discipline, AtQuery, Idle
  <2> QED BY <1>1, <2>2, <2>3, <2>4
<1> QED BY <1>2, <1>3

\* The name of a field is between field_start and the colon.
LEMMA FieldTold ==
    ASSUME IInv, call.pc = "scan", call.p < MaxLen, NEW t \in Transitions(call.cs), ~over,
           NEW n \in 1..Len(t.do), t.do[n] = "write_value",
           NEW q, Effect(q, parser, t.do, n - 1, call.p),
           NEW r, r = <<"field", q.field_start, q.field_len>>
    PROVE  Told(BegunAt(t)["field"], Text(t, r))
<1> DEFINE c == BegunAt(t)["colon"]
           b == begun["field"]
           at == parser.field_start
<1>1. t.do \in Seq(Actions) BY TransitionFacts DEF WellFormed
<1>2. n - 1 \in 0..Len(t.do) BY <1>1
<1>3. at \in Nat BY DEF IInv, Positions, Parser
<1>4. ASSUME NEW a, Did(t.do, n - 1, a) PROVE Does(t, a) BY <1>1, <1>2, <1>4 DEF Does, Did
<1>5. /\ call.cs \in LineStates /\ "field" \notin Begins(call.cs, t.to)
      /\ ~Does(t, "start_field") /\ ~Does(t, "write_field")
  BY TransitionFacts DEF Disciplined
<1>6. "field" \in Tokens \ {"colon"} BY DEF Tokens
<1>7. BegunAt(t)["field"] = b /\ c = begun["colon"] BY <1>5, <1>6, StartFacts
<1>8. q.field_start = at /\ q.field_len = parser.field_len BY <1>4, <1>5 DEF Effect
<1>9. Text(t, r) = TextOf(b, at, parser.field_len, c) BY <1>7, <1>8 DEF Text, End
<1>10. b = at \/ (b = Earlier /\ at = 0) BY <1>5 DEF IInv, Discipline, At, Idle
<1>11. \/ c \in Nat /\ parser.field_len = c - at
       \/ c = Earlier /\ b = Earlier /\ at = 0 /\ parser.field_len = 0
  BY <1>5, <1>7 DEF IInv, Discipline, AtColon, Idle
<1> HIDE DEF b, at, c
<1>12. CASE c \in Nat /\ parser.field_len = c - at
  <2>1. Text(t, r) = TextOf(b, at, c - at, c) /\ c \in Int BY <1>9, <1>12
  <2> QED BY <1>3, <1>7, <1>10, <2>1, TextTold
<1>13. CASE c = Earlier /\ b = Earlier /\ at = 0 /\ parser.field_len = 0
  <2>1. Text(t, r) = TextOf(Earlier, 0, 0, Earlier) BY <1>9, <1>13
  <2>2. Text(t, r) = "empty" BY <2>1 DEF TextOf, Earlier
  <2> QED BY <1>7, <1>13, <2>2 DEF Told
<1> QED BY <1>11, <1>12, <1>13

\* The tokens that a transition reports, and their texts.
SaidRight(t, r) ==
    /\ r[1] \in Tokens \ {"colon"}
    /\ Text(t, r) \in Texts
    /\ r[3] < 0 => r[1] = "query" /\ BegunAt(t)["query"] = Earlier
    /\ r[1] \in Parts => \E a \in DOMAIN PartOf : Does(t, a) /\ PartOf[a] = r[1]
    /\ ~over => IF r[1] = "query" THEN BegunAt(t)["query"] = Earlier \/ Text(t, r) = "whole"
                ELSE Told(BegunAt(t)[r[1]], Text(t, r))

LEMMA SaidFacts ==
    ASSUME IInv, call.pc = "scan", call.p < MaxLen, NEW t \in Transitions(call.cs),
           NEW r \in Said(t)
    PROVE  SaidRight(t, r)
<1>1. PICK n \in 1..Len(t.do) : r \in Reports(t.do[n], Applied(t.do, call.p)[n - 1], call.p)
  BY DEF Said, Reported
<1> DEFINE act == t.do[n]
           q == Applied(t.do, call.p)[n - 1]
<1>2. Text(t, r) \in Texts BY TextType DEF Text
<1>3. Does(t, act) BY DEF Does, Did
<1>4. t.do \in Seq(Actions) BY TransitionFacts DEF WellFormed
<1>5. n - 1 \in 0..Len(t.do) BY <1>4
<1>6. Effect(q, parser, t.do, n - 1, call.p) BY <1>5, StepFacts
<1> HIDE DEF q
<1>7. /\ q.mark \in 0..call.p /\ q.field_start \in 0..call.p /\ q.field_len \in 0..call.p
      /\ q.query_start \in Nat /\ call.p \in Nat
  BY <1>6, StepBounds DEF IInv, Positions, Call
<1>8. ASSUME NEW k \in Tokens \ {"colon", "field", "data"}, k # "query", r = <<k, q.mark, call.p - q.mark>>,
             ~over => Marked(call.cs, t, n - 1, k)
      PROVE  r[1] = k /\ r[3] >= 0 /\ (~over => Told(BegunAt(t)[k], Text(t, r)))
  <2>1. r[1] = k /\ r[2] = q.mark /\ r[3] = call.p - q.mark BY <1>8
  <2>2. r[3] >= 0 BY <1>7, <2>1
  <2>3. Text(t, r) = TextOf(BegunAt(t)[k], q.mark, call.p - q.mark, call.p)
    BY <1>8, <2>1 DEF Text, End
  <2>4. ASSUME ~over PROVE Told(BegunAt(t)[k], Text(t, r))
    <3>1. BegunAt(t)[k] = q.mark \/ (BegunAt(t)[k] = Earlier /\ q.mark = 0)
      BY <1>5, <1>6, <1>8, <2>4, MarkPlace
    <3>2. q.mark \in Nat /\ call.p \in Int BY <1>7
    <3> QED BY <2>3, <3>1, <3>2, TextTold
  <2> QED BY <2>1, <2>2, <2>4
<1>9. CASE act \in DOMAIN FromMark /\ r = <<FromMark[act], q.mark, call.p - q.mark>>
  <2> DEFINE k == FromMark[act]
  <2>1. /\ act \in DOMAIN PartOf /\ PartOf[act] = k
        /\ k \in {"method", "path", "fragment", "version"}
    BY <1>9 DEF FromMark, PartOf
  <2>2. k \in Tokens \ {"colon", "field", "data"} /\ k # "query" BY <2>1 DEF Tokens
  <2>3. ~over => Marked(call.cs, t, n - 1, k) BY <1>9, TransitionFacts DEF Disciplined
  <2> HIDE DEF k
  <2>4. r[1] = k /\ r[3] >= 0 /\ (~over => Told(BegunAt(t)[k], Text(t, r)))
    BY <1>8, <1>9, <2>2, <2>3 DEF k
  <2>5. r[3] = call.p - q.mark BY <1>9
  <2> QED BY <1>2, <1>3, <1>7, <2>1, <2>2, <2>4, <2>5 DEF SaidRight
<1>10. CASE act = "query_string" /\ r = <<"query", q.query_start, call.p - q.query_start>>
  <2>1. r[1] = "query" /\ r[2] = q.query_start /\ r[3] = call.p - q.query_start BY <1>10
  <2>2. Stored(call.cs, t, n - 1, "start_query", "query", call.cs \in QueryStates)
    BY <1>10, TransitionFacts DEF Queried
  <2>3. \/ BegunAt(t)["query"] = Earlier
        \/ BegunAt(t)["query"] = q.query_start /\ q.query_start \in 0..call.p
    BY <1>5, <1>6, <2>2, QueryPlace
  <2>4. r[3] < 0 => BegunAt(t)["query"] = Earlier BY <1>7, <2>1, <2>3
  <2>5. ASSUME BegunAt(t)["query"] # Earlier PROVE Text(t, r) = "whole"
    <3>1. Text(t, r) = TextOf(q.query_start, q.query_start, call.p - q.query_start, call.p)
      BY <2>1, <2>3, <2>5 DEF Text, End
    <3>2. q.query_start # Earlier BY <2>3, <2>5
    <3>3. q.query_start \in Nat /\ call.p \in Int BY <1>7
    <3>4. Told(q.query_start, Text(t, r)) BY <3>1, <3>3, TextTold
    <3> QED BY <3>2, <3>4 DEF Told
  <2>6. "query" \in Tokens \ {"colon"} /\ act \in DOMAIN PartOf /\ PartOf[act] = "query"
    BY <1>10 DEF Tokens, PartOf
  <2> QED BY <1>2, <1>3, <2>1, <2>4, <2>5, <2>6 DEF SaidRight
<1>11. CASE act = "write_value" /\ r = <<"field", q.field_start, q.field_len>>
  <2>1. r[1] = "field" /\ r[3] = q.field_len BY <1>11
  <2>2. ~over => Told(BegunAt(t)["field"], Text(t, r)) BY <1>6, <1>11, FieldTold
  <2>3. "field" \in Tokens \ {"colon"} /\ act \in DOMAIN PartOf /\ PartOf[act] = "field"
    BY <1>11 DEF Tokens, PartOf
  <2>4. ~(r[3] < 0) BY <1>7, <2>1
  <2> QED BY <1>2, <1>3, <2>1, <2>2, <2>3, <2>4 DEF SaidRight
<1>12. CASE act = "write_value" /\ r = <<"value", q.mark, call.p - q.mark>>
  <2>1. "value" \in Tokens \ {"colon", "field", "data"} /\ "value" \notin Parts BY DEF Tokens, Parts
  <2>2. ~over => Marked(call.cs, t, n - 1, "value") BY <1>12, TransitionFacts DEF Disciplined
  <2>3. r[1] = "value" /\ r[3] >= 0 /\ (~over => Told(BegunAt(t)["value"], Text(t, r)))
    BY <1>8, <1>12, <2>1, <2>2
  <2>4. r[3] = call.p - q.mark BY <1>12
  <2> QED BY <1>2, <1>7, <2>1, <2>3, <2>4 DEF SaidRight
<1>13. CASE act = "done" /\ (q.xml_sent \/ q.json_sent) /\ r = <<"data", q.mark, call.p - q.mark + 1>>
  <2>1. r[1] = "data" /\ r[2] = q.mark /\ r[3] = call.p - q.mark + 1 BY <1>13
  <2>2. "data" \in Tokens \ {"colon"} /\ "data" \notin Parts BY DEF Tokens, Parts
  <2>3. ~(r[3] < 0) BY <1>7, <2>1
  <2>4. ASSUME ~over PROVE Told(BegunAt(t)["data"], Text(t, r))
    <3>1. ~parser.xml_sent /\ ~parser.json_sent BY <2>4 DEF IInv, Body, Bodiless
    <3>2. Did(t.do, n - 1, "xml") \/ Did(t.do, n - 1, "json") BY <1>6, <1>13, <3>1 DEF Effect
    <3>3. Does(t, "xml") \/ Does(t, "json") BY <1>4, <1>5, <3>2 DEF Does, Did
    <3>4. Marked(call.cs, t, n - 1, "data") BY <1>13, <2>4, <3>3, TransitionFacts DEF Disciplined
    <3>5. BegunAt(t)["data"] = q.mark \/ (BegunAt(t)["data"] = Earlier /\ q.mark = 0)
      BY <1>5, <1>6, <2>2, <2>4, <3>4, MarkPlace
    <3> DEFINE e == call.p + 1
    <3>6. e \in Int /\ q.mark \in Nat /\ call.p - q.mark + 1 = e - q.mark BY <1>7
    <3>7. Text(t, r) = TextOf(BegunAt(t)["data"], q.mark, e - q.mark, e)
      BY <2>1, <3>6 DEF Text, End
    <3> HIDE DEF e
    <3> QED BY <3>5, <3>6, <3>7, TextTold
  <2> QED BY <1>2, <2>1, <2>2, <2>3, <2>4 DEF SaidRight
<1> QED BY <1>1, <1>9, <1>10, <1>11, <1>12, <1>13, ReportCases DEF q

\* Every action that ends a part of the request reports it.
LEMMA SaidWhen ==
    ASSUME NEW t, NEW a \in DOMAIN PartOf, Does(t, a)
    PROVE  \E r \in Said(t) : r[1] = PartOf[a]
<1>1. PICK n \in 1..Len(t.do) : t.do[n] = a BY DEF Does, Did
<1> DEFINE q == Applied(t.do, call.p)[n - 1]
<1>2. Reports(a, q, call.p) \subseteq Said(t) BY <1>1 DEF Said, Reported
<1>3. a \in DOMAIN FromMark \cup {"query_string", "write_value"} BY DEF PartOf, FromMark
<1> HIDE DEF q
<1>4. CASE a \in DOMAIN FromMark
  <2>1. a \notin {"query_string", "write_value", "done"} BY <1>4 DEF FromMark
  <2>2. Reports(a, q, call.p) = {<<FromMark[a], q.mark, LEN(q.mark, call.p)>>}
    BY <1>4, <2>1 DEF Reports
  <2>3. FromMark[a] = PartOf[a] BY <1>4 DEF FromMark, PartOf
  <2> QED BY <1>2, <2>2, <2>3
<1>5. CASE a = "query_string"
  <2>1. <<"query", q.query_start, LEN(q.query_start, call.p)>> \in Said(t)
    BY <1>2, <1>5 DEF Reports, FromMark
  <2> QED BY <1>5, <2>1 DEF PartOf
<1>6. CASE a = "write_value"
  <2>1. <<"field", q.field_start, q.field_len>> \in Said(t) BY <1>2, <1>6 DEF Reports, FromMark
  <2> QED BY <1>6, <2>1 DEF PartOf
<1> QED BY <1>3, <1>4, <1>5, <1>6

\* The parts of the request that a transition reports.
New(t) == {PartOf[a] : a \in {x \in DOMAIN PartOf : Does(t, x)}}

\* The same for the texts that Scan works with.
LEMMA TextsFacts ==
    ASSUME IInv, call.pc = "scan", call.p < MaxLen, NEW t \in Transitions(call.cs)
    PROVE  /\ DOMAIN SaidTexts(t) \cap Parts = New(t)
           /\ \A k \in DOMAIN SaidTexts(t) :
                /\ k \in Tokens /\ SaidTexts(t)[k] \in Texts
                /\ ~over => IF k = "query" THEN BegunAt(t)[k] = Earlier \/ SaidTexts(t)[k] = "whole"
                            ELSE Told(BegunAt(t)[k], SaidTexts(t)[k])
<1> DEFINE texts == SaidTexts(t)
<1>1. DOMAIN texts = {r[1] : r \in Said(t)} BY DEF SaidTexts
<1>2. ASSUME NEW k \in DOMAIN texts
      PROVE  \E r \in Said(t) : r[1] = k /\ texts[k] = Text(t, r)
  <2>1. \E r \in Said(t) : r[1] = k BY <1>1
  <2>2. texts[k] = Text(t, CHOOSE r \in Said(t) : r[1] = k) BY <1>1 DEF SaidTexts
  <2> QED BY <2>1, <2>2
<1> HIDE DEF texts
<1>3. ASSUME NEW k \in DOMAIN texts
      PROVE  /\ k \in Tokens /\ texts[k] \in Texts
             /\ k \in Parts => k \in New(t)
             /\ ~over => IF k = "query" THEN BegunAt(t)[k] = Earlier \/ texts[k] = "whole"
                         ELSE Told(BegunAt(t)[k], texts[k])
  <2>1. PICK r \in Said(t) : r[1] = k /\ texts[k] = Text(t, r) BY <1>2
  <2>2. SaidRight(t, r) BY SaidFacts
  <2> QED BY <2>1, <2>2 DEF SaidRight, New
<1>4. ASSUME NEW k \in New(t) PROVE k \in DOMAIN texts /\ k \in Parts
  <2>1. PICK a \in DOMAIN PartOf : Does(t, a) /\ k = PartOf[a] BY DEF New
  <2>2. PICK r \in Said(t) : r[1] = k BY <2>1, SaidWhen
  <2>3. k \in Parts BY <2>1 DEF PartOf, Parts
  <2> QED BY <1>1, <2>2, <2>3
<1> QED BY <1>3, <1>4 DEF texts

----------------------------------------------------------------------------
(* The steps.                                                                 *)

\* The structure, the position and the state after a character.
LEMMA ScanEffect ==
    ASSUME IInv, NEW t \in Transitions(call.cs), Scan(t)
    PROVE  /\ Effect(parser', parser, t.do, Len(t.do), call.p)
           /\ call.pc = "scan" /\ call.p \in 0..(MaxLen - 1) /\ call' \in Call
           /\ Throws(t) => call'.pc = "thrown" /\ call'.cs = call.cs
           /\ ~Throws(t) => /\ call'.cs = t.to /\ call'.p = call.p + 1
                            /\ call'.pc = IF t.to \in Final THEN "end" ELSE "scan"
<1>1. call.pc = "scan" /\ call.p < MaxLen BY ScanParts
<1>2. call \in Call BY DEF IInv, Positions
<1>3. WellFormed(t) BY <1>1, TransitionFacts
<1>4. Len(t.do) \in 0..Len(t.do) BY <1>3 DEF WellFormed
<1>5. Effect(parser', parser, t.do, Len(t.do), call.p)
  <2>1. parser' = Applied(t.do, call.p)[Len(t.do)] BY ScanParts
  <2>2. Effect(Applied(t.do, call.p)[Len(t.do)], parser, t.do, Len(t.do), call.p)
    BY <1>1, <1>4, StepFacts
  <2> QED BY <2>1, <2>2
<1>6. call.p \in 0..(MaxLen - 1) /\ call.p + 1 \in 0..MaxLen
  BY <1>1, <1>2, MaxLenAssumption DEF Call
<1>7. t.to \in DOMAIN RequestTable BY <1>3 DEF WellFormed
<1>8. CASE Throws(t)
  <2>1. call' = [call EXCEPT !.pc = "thrown"] BY <1>8, ScanParts
  <2>2. call' \in Call /\ call'.pc = "thrown" /\ call'.cs = call.cs BY <1>2, <2>1 DEF Call
  <2> QED BY <1>1, <1>5, <1>6, <1>8, <2>2
<1>9. CASE ~Throws(t)
  <2> DEFINE pc == IF t.to \in Final THEN "end" ELSE "scan"
  <2>1. call' = [call EXCEPT !.cs = t.to, !.p = call.p + 1, !.pc = pc] BY <1>9, ScanParts
  <2>2. pc \in {"end", "scan"} OBVIOUS
  <2> HIDE DEF pc
  <2>3. call' \in Call /\ call'.cs = t.to /\ call'.p = call.p + 1 /\ call'.pc = pc
    BY <1>2, <1>6, <1>7, <2>1, <2>2 DEF Call
  <2> QED BY <1>1, <1>5, <1>6, <1>9, <2>3 DEF pc
<1> QED BY <1>8, <1>9

LEMMA ScanPositions ==
    ASSUME IInv, NEW t \in Transitions(call.cs), Scan(t)
    PROVE  Positions' /\ Body'
<1> DEFINE e == Does(t, "done")
<1>1. /\ Effect(parser', parser, t.do, Len(t.do), call.p)
      /\ call.pc = "scan" /\ call.p \in 0..(MaxLen - 1) /\ call' \in Call
      /\ Throws(t) => call'.pc = "thrown" /\ call'.cs = call.cs
      /\ ~Throws(t) => /\ call'.cs = t.to /\ call'.p = call.p + 1
                       /\ call'.pc = IF t.to \in Final THEN "end" ELSE "scan"
  BY ScanEffect
<1>2. /\ e <=> t.to \in Final
      /\ Does(t, "xml") \/ Does(t, "json") => e
  BY <1>1, TransitionFacts DEF WellFormed
<1>3. call.cs # Error BY DEF Transitions
<1>4. /\ parser \in Parser /\ parser.body_start \in 0..MaxLen
      /\ parser.mark \in 0..call.p /\ parser.field_start \in 0..call.p
      /\ parser.field_len \in 0..call.p /\ parser.nread = 0
      /\ parser.cs # Error /\ (~over => parser.cs \notin Final)
  BY <1>1, <1>3 DEF IInv, Positions, Parser, Inside, Idle
<1>5. ~over => Bodiless BY <1>1 DEF IInv, Body
<1>6. over' = over BY ScanParts
<1>7. /\ parser' \in Parser /\ parser'.cs = parser.cs
      /\ parser'.mark \in {call.p, parser.mark}
      /\ parser'.field_start \in {call.p, parser.field_start}
      /\ parser'.field_len \in {call.p - parser.field_start, parser.field_len}
      /\ parser'.nread = parser.nread
  BY <1>1 DEF Effect, Does
<1>8. /\ ~e => parser'.body_start = parser.body_start /\ parser'.content_len = parser.content_len
      /\ e => /\ parser'.body_start \in 0..(call.p + 1)
              /\ parser.content_len = 0 => parser'.body_start + parser'.content_len = call.p + 1
      /\ ~e => /\ parser'.xml_sent <=> parser.xml_sent
               /\ parser'.json_sent <=> parser.json_sent
  BY <1>1, <1>2 DEF Effect, Does
<1> HIDE DEF e
<1>9. /\ parser'.mark \in 0..MaxLen /\ parser'.mark < call.p + 1
      /\ parser'.field_start \in 0..MaxLen /\ parser'.field_start < call.p + 1
      /\ parser'.field_len \in 0..MaxLen /\ parser'.field_len <= call.p + 1
      /\ parser'.body_start \in 0..MaxLen /\ parser'.nread = 0
  <2>1. MaxLen \in Nat /\ call.p \in Nat /\ call.p < MaxLen BY <1>1, MaxLenAssumption
  <2>2. parser'.mark \in 0..MaxLen /\ parser'.mark < call.p + 1 BY <1>4, <1>7, <2>1
  <2>3. parser'.field_start \in 0..MaxLen /\ parser'.field_start < call.p + 1 BY <1>4, <1>7, <2>1
  <2>4. parser'.field_len \in 0..MaxLen /\ parser'.field_len <= call.p + 1 BY <1>4, <1>7, <2>1
  <2>5. parser'.body_start \in 0..MaxLen /\ parser'.nread = 0 BY <1>4, <1>7, <1>8, <2>1
  <2> QED BY <2>2, <2>3, <2>4, <2>5
<1>10. \A f \in {"mark", "field_start", "field_len", "body_start"} : parser'[f] \in 0..MaxLen
  BY <1>9
<1>11. CASE Throws(t)
  <2>1. call'.pc = "thrown" BY <1>1, <1>11
  <2>2. Positions' BY <1>1, <1>4, <1>6, <1>7, <1>10, <2>1 DEF Positions, Idle
  <2> QED BY <2>1, <2>2 DEF Body
<1>12. CASE ~Throws(t)
  <2>1. /\ call'.cs = t.to /\ call'.p = call.p + 1
        /\ call'.pc = IF e THEN "end" ELSE "scan"
    BY <1>1, <1>2, <1>12
  <2>2. Positions'
    BY <1>1, <1>2, <1>4, <1>6, <1>7, <1>9, <1>10, <2>1 DEF Positions, Inside, Idle
  <2>3. ASSUME ~over, e PROVE /\ parser'.body_start + parser'.content_len = call'.p
                              /\ parser'.body_start <= call'.p
    <3>1. parser'.body_start \in 0..(call.p + 1) BY <1>8, <2>3
    <3>2. parser'.body_start + parser'.content_len = call.p + 1 BY <1>5, <1>8, <2>3 DEF Bodiless
    <3> QED BY <1>1, <2>1, <3>1, <3>2
  <2>4. ~over /\ ~e => Bodiless' BY <1>5, <1>8 DEF Bodiless
  <2> QED BY <1>2, <1>6, <2>1, <2>2, <2>3, <2>4 DEF Body, Idle
<1> QED BY <1>11, <1>12

LEMMA ScanGhosts ==
    ASSUME IInv, NEW t \in Transitions(call.cs), Scan(t)
    PROVE  Ghosts' /\ CallbacksExact'
<1>1. call.pc = "scan" /\ call.p < MaxLen /\ over' = over BY ScanParts
<1>2. over \in BOOLEAN /\ req \subseteq Parts
      /\ begun \in [Tokens -> {Closed, Earlier} \cup 0..(MaxLen - 1)]
  BY DEF IInv, Ghosts
<1>3. "query" \in Tokens BY DEF Tokens
<1>4. CASE Throws(t)
  <2>1. /\ cb' = {Thrown(t)} /\ req' = req /\ begun' = begun /\ call'.pc = "thrown"
    BY <1>4, ScanParts, ScanEffect
  <2>2. PICK r \in Said(t) : r[3] < 0 BY <1>4 DEF Throws
  <2>3. BegunAt(t)["query"] = Earlier BY <1>1, <2>2, SaidFacts DEF SaidRight
  <2>4. Thrown(t).token = "query" /\ Thrown(t).text = "thrown" /\ Thrown(t).cut
    BY <2>3 DEF Thrown
  <2>5. Ghosts' BY <1>1, <1>2, <1>3, <2>1, <2>4 DEF Ghosts, Idle
  <2> QED BY <2>1, <2>4, <2>5 DEF CallbacksExact
<1>5. CASE ~Throws(t)
  <2>1. /\ begun' = [k \in Tokens |-> IF k \in Closes(t.do) THEN Closed ELSE BegunAt(t)[k]]
        /\ call'.pc \in {"scan", "end"} /\ req' \subseteq Parts
    BY <1>2, <1>5, ScanParts, ScanEffect
  <2>2. begun' \in [Tokens -> {Closed, Earlier} \cup 0..(MaxLen - 1)] BY <1>1, <2>1, StartFacts
  <2> DEFINE dom == DOMAIN SaidTexts(t)
  <2>3. cb' = {Callback(t, k) : k \in dom} BY <1>5, ScanParts
  <2> HIDE DEF dom
  <2>4. ASSUME NEW r \in cb'
        PROVE  /\ r.token \in Tokens /\ r.text \in Texts
               /\ ~over => /\ ~r.cut => r.text = "whole"
                           /\ r.cut /\ r.token # "query" => r.text \in {"rest", "empty"}
    <3>1. PICK k \in dom : r = Callback(t, k) BY <2>3, <2>4
    <3> USE DEF dom
    <3>2. r.token = k /\ r.text = SaidTexts(t)[k] /\ r.cut = (BegunAt(t)[k] = Earlier)
      BY <3>1 DEF Callback
    <3>3. k \in Tokens /\ r.text \in Texts BY <1>1, <3>2, TextsFacts
    <3>4. ~over => IF k = "query" THEN BegunAt(t)[k] = Earlier \/ r.text = "whole"
                   ELSE Told(BegunAt(t)[k], r.text)
      BY <1>1, <3>2, TextsFacts
    <3> QED BY <3>2, <3>3, <3>4 DEF Told
  <2>5. Ghosts' BY <1>1, <1>2, <2>1, <2>2, <2>4 DEF Ghosts, Idle
  <2>6. CallbacksExact' BY <1>1, <2>4 DEF CallbacksExact
  <2> QED BY <2>5, <2>6
<1> QED BY <1>4, <1>5

LEMMA ScanDiscipline ==
    ASSUME IInv, NEW t \in Transitions(call.cs), Scan(t)
    PROVE  Discipline'
<1>1. call.pc = "scan" /\ call.p < MaxLen /\ over' = over BY ScanParts
<1>2. /\ Effect(parser', parser, t.do, Len(t.do), call.p) /\ call.p \in Nat
      /\ Throws(t) => call'.pc = "thrown"
      /\ ~Throws(t) => /\ call'.cs = t.to /\ call'.p = call.p + 1
                       /\ call'.pc = IF t.to \in Final THEN "end" ELSE "scan"
  BY ScanEffect
<1>3. Len(t.do) \in 0..Len(t.do) BY <1>1, TransitionFacts DEF WellFormed
<1> SUFFICES ASSUME ~Throws(t) PROVE Discipline' BY <1>2 DEF Discipline
<1>4. ASSUME NEW k \in Tokens, k \notin Closes(t.do) PROVE begun'[k] = BegunAt(t)[k]
  <2>1. begun' = [j \in Tokens |-> IF j \in Closes(t.do) THEN Closed ELSE BegunAt(t)[j]] BY ScanParts
  <2> QED BY <1>4, <2>1
<1>5. call'.cs = t.to /\ call'.p = call.p + 1 /\ ~Idle' /\ ~Idle BY <1>1, <1>2 DEF Idle
<1>6. ASSUME t.to \in QueryStates PROVE AtQuery'
  <2>1. /\ Stored(call.cs, t, Len(t.do), "start_query", "query", call.cs \in QueryStates)
        /\ "query" \notin Closes(t.do)
    BY <1>1, <1>6, TransitionFacts DEF Queried
  <2>2. \/ BegunAt(t)["query"] = Earlier
        \/ BegunAt(t)["query"] = parser'.query_start /\ parser'.query_start \in 0..call.p
    BY <1>1, <1>2, <1>3, <2>1, QueryPlace
  <2>3. begun'["query"] = BegunAt(t)["query"] BY <1>4, <2>1 DEF Tokens
  <2> QED BY <1>2, <1>5, <2>2, <2>3 DEF AtQuery
<1> SUFFICES ASSUME ~over PROVE
      /\ \A k \in MarkTokens(t.to) : At(k, parser.mark)'
      /\ t.to \in NameStates => At("field", parser.field_start)'
      /\ t.to \in LineStates => At("field", parser.field_start)' /\ AtColon'
  BY <1>1, <1>5, <1>6 DEF Discipline
<1>7. Disciplined(call.cs, t) BY <1>1, TransitionFacts
<1>8. ASSUME NEW k \in MarkTokens(t.to) PROVE At(k, parser.mark)'
  <2>1. Marked(call.cs, t, Len(t.do), k) /\ k \notin Closes(t.do) BY <1>7 DEF Disciplined
  <2>2. k \in Tokens \ {"colon"} BY DEF MarkTokens, Tokens
  <2>3. begun'[k] = BegunAt(t)[k] BY <1>4, <2>1, <2>2
  <2>4. BegunAt(t)[k] = parser'.mark \/ (BegunAt(t)[k] = Earlier /\ parser'.mark = 0)
    BY <1>1, <1>2, <1>3, <2>1, <2>2, MarkPlace
  <2> QED BY <1>5, <2>3, <2>4 DEF At
<1>9. "field" \in Tokens \ {"colon"} /\ "colon" \in Tokens BY DEF Tokens
<1>10. ASSUME "field" \notin Begins(call.cs, t.to) \cup Closes(t.do), ~Does(t, "start_field"),
              At("field", parser.field_start)
       PROVE  begun'["field"] = begun["field"] /\ parser'.field_start = parser.field_start
              /\ At("field", parser.field_start)'
  <2>1. BegunAt(t)["field"] = begun["field"] BY <1>1, <1>9, <1>10, StartFacts
  <2>2. parser'.field_start = parser.field_start BY <1>2, <1>10 DEF Effect, Does
  <2>3. begun'["field"] = begun["field"] BY <1>4, <1>9, <1>10, <2>1
  <2> QED BY <1>5, <1>10, <2>2, <2>3 DEF At
<1>11. ASSUME t.to \in NameStates PROVE At("field", parser.field_start)'
  <2>1. "field" \notin Closes(t.do)
        /\ Stored(call.cs, t, Len(t.do), "start_field", "field", call.cs \in NameStates)
    BY <1>7, <1>11 DEF Disciplined
  <2>2. CASE Does(t, "start_field")
    <3>1. "field" \in Begins(call.cs, t.to) BY <2>1, <2>2 DEF Stored, Does
    <3>2. begun'["field"] = call.p BY <1>1, <1>4, <1>9, <2>1, <3>1, StartFacts
    <3>3. parser'.field_start = call.p BY <1>2, <2>2 DEF Effect, Does
    <3> QED BY <1>5, <3>2, <3>3 DEF At
  <2>3. CASE ~Does(t, "start_field")
    <3>1. call.cs \in NameStates /\ "field" \notin Begins(call.cs, t.to)
      BY <2>1, <2>3 DEF Stored, Does
    <3>2. At("field", parser.field_start) BY <1>1, <3>1 DEF IInv, Discipline
    <3> QED BY <1>10, <2>1, <2>3, <3>1, <3>2
  <2> QED BY <2>2, <2>3
<1>12. ASSUME t.to \in LineStates PROVE At("field", parser.field_start)' /\ AtColon'
  <2>1. /\ ~Does(t, "start_field") /\ "field" \notin Begins(call.cs, t.to) \cup Closes(t.do)
        /\ "colon" \notin Closes(t.do)
        /\ IF Does(t, "write_field") THEN call.cs \in NameStates ELSE call.cs \in LineStates
    BY <1>7, <1>12 DEF Disciplined
  <2>2. At("field", parser.field_start) BY <1>1, <2>1 DEF IInv, Discipline
  <2>3. begun'["field"] = begun["field"] /\ parser'.field_start = parser.field_start
        /\ At("field", parser.field_start)'
    BY <1>10, <2>1, <2>2
  <2>4. begun'["colon"] = BegunAt(t)["colon"] BY <1>4, <1>9, <2>1
  <2>5. CASE Does(t, "write_field")
    <3>1. begun'["colon"] = call.p BY <1>1, <2>4, <2>5, StartFacts
    <3>2. parser'.field_len = call.p - parser.field_start BY <1>2, <2>5 DEF Effect, Does
    <3> QED BY <1>2, <1>5, <2>3, <3>1, <3>2 DEF AtColon
  <2>6. CASE ~Does(t, "write_field")
    <3>1. begun'["colon"] = begun["colon"] BY <1>1, <2>4, <2>6, StartFacts
    <3>2. parser'.field_len = parser.field_len BY <1>2, <2>6 DEF Effect, Does
    <3>3. AtColon BY <1>1, <2>1, <2>6 DEF IInv, Discipline
    <3> QED BY <1>5, <2>3, <3>1, <3>2, <3>3 DEF AtColon
  <2> QED BY <2>3, <2>5, <2>6
<1> QED BY <1>8, <1>11, <1>12

\* What a step reports comes in the order of the request.
InOrder ==
    \A r \in cb' : ~over =>
        /\ r.token \in Parts \ {"field"} => r.token \notin req
        /\ r.token \in {"query", "fragment", "version"} => "path" \in req \/ \E o \in cb' : o.token = "path"
        /\ r.token = "version" => "method" \in req
        /\ r.token = "query" => req \cap {"fragment", "version"} = {}
        /\ r.token = "fragment" => "version" \notin req
        /\ r.token = "field" => "version" \in req

LEMMA ScanOrder ==
    ASSUME IInv, NEW t \in Transitions(call.cs), Scan(t)
    PROVE  Order' /\ InOrder
<1>1. call.pc = "scan" /\ call.p < MaxLen /\ over' = over BY ScanParts
<1>2. /\ Throws(t) => call'.cs = call.cs
      /\ ~Throws(t) => call'.cs = t.to
  BY ScanEffect
<1> SUFFICES ASSUME ~over
             PROVE  /\ Must(call'.cs) \subseteq req' /\ req' \subseteq May(call'.cs)
                    /\ InOrder
  BY <1>1 DEF Order, InOrder
<1>3. Must(call.cs) \subseteq req /\ req \subseteq May(call.cs) BY DEF IInv, Order
<1>4. /\ Must(t.to) \subseteq Must(call.cs) \cup New(t)
      /\ May(call.cs) \cup New(t) \subseteq May(t.to)
      /\ New(t) \cap May(call.cs) \subseteq {"field"}
      /\ New(t) \cap {"query", "fragment", "version"} # {} => "path" \in Must(call.cs)
      /\ "version" \in New(t) => "method" \in Must(call.cs)
      /\ "query" \in New(t) => May(call.cs) \cap {"fragment", "version"} = {}
      /\ "fragment" \in New(t) => "version" \notin May(call.cs)
      /\ "field" \in New(t) => "version" \in Must(call.cs)
  BY <1>1, TransitionFacts DEF Ordered, New
<1>5. ASSUME \A r \in cb' : r.token \in Parts => r.token \in New(t) PROVE InOrder
  <2> SUFFICES ASSUME NEW r \in cb'
               PROVE  /\ r.token \in Parts \ {"field"} => r.token \notin req
                      /\ r.token \in {"query", "fragment", "version"} => "path" \in req
                      /\ r.token = "version" => "method" \in req
                      /\ r.token = "query" => req \cap {"fragment", "version"} = {}
                      /\ r.token = "fragment" => "version" \notin req
                      /\ r.token = "field" => "version" \in req
    BY DEF InOrder
  <2>1. r.token \in {"query", "fragment", "version", "field"} => r.token \in New(t)
    BY <1>5 DEF Parts
  <2>2. r.token \in Parts => r.token \in New(t) BY <1>5
  <2> QED BY <1>3, <1>4, <2>1, <2>2
<1>6. CASE Throws(t)
  <2>1. cb' = {Thrown(t)} /\ req' = req BY <1>6, ScanParts
  <2>2. PICK r \in Said(t) : r[3] < 0 BY <1>6 DEF Throws
  <2>3. SaidRight(t, r) BY <1>1, SaidFacts
  <2>4. r[1] = "query" /\ "query" \in Parts BY <2>2, <2>3 DEF SaidRight, Parts
  <2>5. "query" \in New(t) BY <2>3, <2>4 DEF SaidRight, New
  <2>6. Thrown(t).token = "query" BY DEF Thrown
  <2>7. InOrder BY <1>5, <2>1, <2>5, <2>6
  <2> QED BY <1>2, <1>3, <1>6, <2>1, <2>7
<1>7. CASE ~Throws(t)
  <2> DEFINE dom == DOMAIN SaidTexts(t)
  <2>1. req' = req \cup (dom \cap Parts) /\ cb' = {Callback(t, k) : k \in dom} BY <1>7, ScanParts
  <2>2. dom \cap Parts = New(t) BY <1>1, TextsFacts
  <2> HIDE DEF dom
  <2>3. ASSUME NEW r \in cb' PROVE r.token \in dom
    <3>1. PICK k \in dom : r = Callback(t, k) BY <2>1
    <3> QED BY <3>1 DEF Callback
  <2>4. InOrder BY <1>5, <2>2, <2>3
  <2> QED BY <1>2, <1>3, <1>4, <1>7, <2>1, <2>2, <2>4
<1> QED BY <1>6, <1>7

\* A character preserves the invariant.
LEMMA ScanInv ==
    ASSUME IInv, NEW t \in Transitions(call.cs), Scan(t)
    PROVE  IInv' /\ CallbacksExact' /\ InOrder
BY ScanPositions, ScanGhosts, ScanDiscipline, ScanOrder DEF IInv

\* So does the start of a call, which forgets the positions.
LEMMA ExecuteInv ==
    ASSUME IInv, Execute
    PROVE  IInv' /\ CallbacksExact' /\ InOrder
<1>1. call.pc = "idle" /\ parser.cs = call.cs BY DEF Execute, IInv, Positions, Idle
<1>2. parser \in Parser /\ call \in Call /\ parser.body_start \in 0..MaxLen BY DEF IInv, Positions
<1>3. parser' = [parser EXCEPT !.nread = 0, !.mark = 0, !.field_len = 0, !.field_start = 0]
  BY DEF Execute, Reset
<1>4. parser' \in Parser
  <2> DEFINE q == [parser EXCEPT !.nread = 0, !.mark = 0]
  <2>1. q \in Parser BY <1>2 DEF Parser
  <2> DEFINE r == [q EXCEPT !.field_len = 0]
  <2>2. parser' = [r EXCEPT !.field_start = 0] BY <1>3
  <2> HIDE DEF q
  <2>3. r \in Parser BY <2>1 DEF Parser
  <2> HIDE DEF r
  <2> QED BY <2>2, <2>3 DEF Parser
<1>5. /\ parser'.nread = 0 /\ parser'.mark = 0 /\ parser'.field_len = 0 /\ parser'.field_start = 0
      /\ parser'.cs = parser.cs /\ parser'.body_start = parser.body_start
  BY <1>2, <1>3 DEF Parser
<1>6. /\ parser'.content_len = parser.content_len /\ parser'.query_start = parser.query_start
      /\ parser'.xml_sent = parser.xml_sent /\ parser'.json_sent = parser.json_sent
  BY <1>2, <1>3 DEF Parser
<1>7. call' = [pc |-> "scan", cs |-> parser.cs, p |-> 0] BY DEF Execute
<1>8. call' \in Call /\ call'.pc = "scan" /\ call'.cs = call.cs /\ call'.p = 0
  BY <1>1, <1>2, <1>7, MaxLenAssumption DEF Call
<1>9. over' = (over \/ call.cs \in Final) /\ cb' = {} /\ req' = req /\ begun' = begun
  BY <1>1 DEF Execute
<1>10. Positions'
  <2>1. 0 \in 0..MaxLen /\ call'.p \in Nat BY <1>8, MaxLenAssumption
  <2>2. \A f \in {"mark", "field_start", "field_len", "body_start"} : parser'[f] \in 0..MaxLen
    BY <1>2, <1>5, <2>1
  <2>3. ~over' => parser'.cs \notin Final BY <1>1, <1>5, <1>9
  <2> QED BY <1>1, <1>4, <1>5, <1>8, <2>1, <2>2, <2>3 DEF Positions, Inside, Idle
<1>11. Body' BY <1>1, <1>5, <1>6, <1>8, <1>9 DEF IInv, Body, Bodiless, Idle
<1>12. Ghosts' BY <1>8, <1>9 DEF IInv, Ghosts, Idle
<1>13. Discipline'
  <2>1. call.cs \in QueryStates => begun["query"] = Earlier
    BY <1>1 DEF IInv, Discipline, AtQuery, Idle
  <2>2. call'.cs \in QueryStates => AtQuery' BY <1>8, <1>9, <2>1 DEF AtQuery, Idle
  <2>3. ASSUME ~over
        PROVE  /\ \A k \in MarkTokens(call.cs) : begun[k] = Earlier
               /\ call.cs \in NameStates \cup LineStates => begun["field"] = Earlier
               /\ call.cs \in LineStates => begun["colon"] = Earlier
    BY <1>1, <2>3 DEF IInv, Discipline, At, AtColon, Idle
  <2> QED BY <1>5, <1>8, <1>9, <2>2, <2>3 DEF Discipline, At, AtColon, Idle
<1>14. Order' BY <1>8, <1>9 DEF IInv, Order
<1>15. CallbacksExact' /\ InOrder BY <1>9 DEF CallbacksExact, InOrder
<1> QED BY <1>10, <1>11, <1>12, <1>13, <1>14, <1>15 DEF IInv

\* A character that does not fit: the error state says nothing.
LEMMA RejectInv ==
    ASSUME IInv, Reject
    PROVE  IInv' /\ CallbacksExact' /\ InOrder
<1>1. call.pc = "scan" /\ call \in Call BY DEF Reject, IInv, Positions
<1>2. call' = [call EXCEPT !.cs = Error, !.pc = "end"] BY DEF Reject
<1>3. call' \in Call /\ call'.pc = "end" /\ call'.cs = Error /\ call'.p = call.p
  BY <1>1, <1>2 DEF Call
<1>4. parser' = parser /\ over' = over /\ cb' = {} /\ req' = req /\ begun' = begun BY DEF Reject
<1>5. /\ Error \notin Final /\ Error \notin QueryStates \cup NameStates \cup LineStates
      /\ MarkTokens(Error) = {} /\ Must(Error) = {} /\ May(Error) = Parts
  BY DEF Error, Final, QueryStates, NameStates, LineStates, MarkTokens, Must, May
<1>6. Positions' BY <1>1, <1>3, <1>4 DEF IInv, Positions, Inside, Idle
<1>7. Body' BY <1>1, <1>3, <1>4, <1>5 DEF IInv, Body, Bodiless, Idle
<1>8. Ghosts' BY <1>3, <1>4 DEF IInv, Ghosts, Idle
<1>9. Discipline' BY <1>3, <1>4, <1>5 DEF Discipline
<1>10. Order' BY <1>3, <1>4, <1>5 DEF IInv, Ghosts, Order
<1>11. CallbacksExact' /\ InOrder BY <1>4 DEF CallbacksExact, InOrder
<1> QED BY <1>6, <1>7, <1>8, <1>9, <1>10, <1>11 DEF IInv

\* So does the end of a call, which moves every open token to an earlier buffer.
LEMMA ReturnInv ==
    ASSUME IInv, NEW len \in 1..MaxLen, Return(len)
    PROVE  IInv' /\ CallbacksExact' /\ InOrder
<1> DEFINE cs == IF parser.cs = Error THEN parser.cs ELSE call.cs
           q == [parser EXCEPT !.cs = IF @ = Error THEN @ ELSE call.cs, !.nread = @ + call.p]
<1>1. /\ parser \in Parser /\ call \in Call /\ call.pc \in {"scan", "end"} /\ len >= call.p
      /\ parser.nread = 0 /\ Inside(parser.mark) /\ Inside(parser.field_start)
      /\ parser.field_len \in 0..MaxLen /\ parser.field_len <= call.p /\ cs = call.cs
  <2>1. call.pc \in {"scan", "end"} /\ len \in Nat BY MaxLenAssumption DEF Return
  <2>2. call \in Call /\ parser \in Parser BY DEF IInv, Positions
  <2>3. call.p \in Nat BY <2>2 DEF Call
  <2>4. len >= call.p BY <2>1, <2>3 DEF Return
  <2>5. cs = call.cs BY <2>1 DEF IInv, Positions
  <2> QED BY <2>1, <2>2, <2>4, <2>5 DEF IInv, Positions
<1>2. parser' = q BY DEF Return
<1>3. /\ parser' \in Parser /\ parser'.cs = call.cs /\ parser'.nread = call.p
      /\ parser'.mark = parser.mark /\ parser'.field_start = parser.field_start
      /\ parser'.field_len = parser.field_len /\ parser'.body_start = parser.body_start
      /\ parser'.content_len = parser.content_len
      /\ parser'.xml_sent = parser.xml_sent /\ parser'.json_sent = parser.json_sent
  <2> DEFINE r == [parser EXCEPT !.cs = call.cs]
  <2>1. r \in Parser /\ r.nread = 0 BY <1>1 DEF Parser, Call
  <2>2. call.p \in Nat BY <1>1 DEF Call
  <2>3. parser' = [r EXCEPT !.nread = call.p]
    <3>1. parser.nread + call.p = call.p BY <1>1, <2>2
    <3>2. parser' = [parser EXCEPT !.cs = cs, !.nread = parser.nread + call.p]
      BY <1>1, <1>2 DEF Parser
    <3>3. parser' = [parser EXCEPT !.cs = call.cs, !.nread = call.p] BY <1>1, <3>1, <3>2
    <3> QED BY <3>3
  <2> HIDE DEF r
  <2>4. parser' \in Parser BY <2>1, <2>2, <2>3 DEF Parser
  <2> USE DEF r
  <2>5. /\ parser'.cs = call.cs /\ parser'.nread = call.p /\ parser'.mark = parser.mark
        /\ parser'.field_start = parser.field_start
    BY <1>1, <2>3 DEF Parser
  <2>6. /\ parser'.field_len = parser.field_len /\ parser'.body_start = parser.body_start
        /\ parser'.content_len = parser.content_len
    BY <1>1, <2>3 DEF Parser
  <2>7. parser'.xml_sent = parser.xml_sent /\ parser'.json_sent = parser.json_sent
    BY <1>1, <2>3 DEF Parser
  <2> QED BY <2>4, <2>5, <2>6, <2>7
<1> HIDE DEF q, cs
<1>4. /\ call'.pc = IF Asserts(q, len) THEN "idle" ELSE "aborted"
      /\ call'.cs = call.cs /\ call'.p = 0 /\ call' \in Call
  <2> DEFINE pc == IF Asserts(q, len) THEN "idle" ELSE "aborted"
  <2>1. call' = [pc |-> pc, cs |-> q.cs, p |-> 0] BY DEF Return, q
  <2>2. q.cs = call.cs BY <1>2, <1>3
  <2>3. pc \in {"idle", "aborted"} OBVIOUS
  <2> HIDE DEF pc
  <2>4. call' \in Call /\ call'.cs = call.cs /\ call'.p = 0 /\ call'.pc = pc
    BY <1>1, <2>1, <2>2, <2>3, MaxLenAssumption DEF Call
  <2> QED BY <2>4 DEF pc
<1>5. begun' = [k \in Tokens |-> IF begun[k] = Closed THEN Closed ELSE Earlier]
      /\ cb' = {} /\ req' = req /\ over' = over
  BY DEF Return
<1>6. call.p \in Nat /\ len \in Nat /\ len >= 1 BY <1>1, MaxLenAssumption DEF Call
<1>7. ~over => Asserts(q, len)
  <2>1. parser.body_start \in Nat /\ parser.mark \in Nat /\ parser.field_start \in Nat
    BY <1>1 DEF Parser
  <2>2. ~over => parser.body_start <= call.p
    BY <1>1, <1>6 DEF IInv, Body, Bodiless
  <2> QED BY <1>1, <1>2, <1>3, <1>6, <2>1, <2>2 DEF Asserts, Inside
<1>8. Positions'
  <2>1. \A f \in {"mark", "field_start", "field_len", "body_start"} : parser'[f] \in 0..MaxLen
    BY <1>3 DEF IInv, Positions
  <2> QED BY <1>3, <1>4, <1>5, <1>7, <2>1 DEF Positions, Idle
<1>9. Body' BY <1>1, <1>3, <1>4, <1>5, <1>7 DEF IInv, Body, Bodiless, Idle
<1>10. Ghosts' BY <1>4, <1>5 DEF IInv, Ghosts, Idle
<1>11. Discipline'
  <2>1. Closed # Earlier /\ Closed \notin Nat /\ parser.mark \in Nat /\ parser.field_start \in Nat
        /\ parser.query_start \in Nat
    BY <1>1 DEF Closed, Earlier, Parser
  <2>2. ~Idle BY <1>1 DEF Idle
  <2>3. ASSUME NEW k \in Tokens, NEW pos \in Nat, At(k, pos) PROVE begun'[k] = Earlier
    BY <1>5, <2>1, <2>2, <2>3 DEF At
  <2>4. AtColon => begun'["colon"] = Earlier BY <1>5, <2>1, <2>2 DEF AtColon, Tokens
  <2>5. AtQuery => begun'["query"] = Earlier BY <1>5, <2>1, <2>2 DEF AtQuery, Tokens
  <2>6. "field" \in Tokens /\ MarkTokens(call.cs) \subseteq Tokens BY DEF Tokens, MarkTokens
  <2>7. call.cs \in QueryStates => begun'["query"] = Earlier BY <1>1, <2>5 DEF IInv, Discipline
  <2>8. ASSUME ~over
        PROVE  /\ \A k \in MarkTokens(call.cs) : begun'[k] = Earlier
               /\ call.cs \in NameStates => begun'["field"] = Earlier
               /\ call.cs \in LineStates => begun'["field"] = Earlier /\ begun'["colon"] = Earlier
    BY <1>1, <2>1, <2>3, <2>4, <2>6, <2>8 DEF IInv, Discipline
  <2>9. ~over => Idle' BY <1>4, <1>7 DEF Idle
  <2>10. call.cs \in QueryStates => AtQuery' BY <2>7 DEF AtQuery
  <2> QED BY <1>4, <1>5, <2>8, <2>9, <2>10 DEF Discipline, At, AtColon
<1>12. Order' BY <1>4, <1>5 DEF IInv, Order
<1>13. CallbacksExact' /\ InOrder BY <1>5 DEF CallbacksExact, InOrder
<1> QED BY <1>8, <1>9, <1>10, <1>11, <1>12, <1>13 DEF IInv

LEMMA InitInv == Init => IInv /\ CallbacksExact
<1> SUFFICES ASSUME Init PROVE IInv /\ CallbacksExact OBVIOUS
<1>1. parser \in Parser /\ call \in Call
  <2> DEFINE S == DOMAIN RequestTable \cup {Error}
  <2>1. 1 \in S BY TableFacts
  <2>2. Unset \in Nat BY MaxLenAssumption DEF Unset
  <2>3. parser \in Parser
    <3> HIDE DEF S
    <3>1. {1} \subseteq S /\ {Unset} \subseteq Nat /\ {0} \subseteq Nat /\ {0} \subseteq Int
      BY <2>1, <2>2
    <3>2. {FALSE} \subseteq BOOLEAN OBVIOUS
    <3> QED BY <3>1, <3>2 DEF Init, Parser, S
  <2>4. call \in Call BY <2>1, MaxLenAssumption DEF Init, Call
  <2> QED BY <2>3, <2>4
<1>2. Positions BY <1>1, MaxLenAssumption DEF Init, Positions, Idle, Final
<1>3. Body
  <2>1. parser.body_start = 0 /\ parser.content_len = 0 BY DEF Init
  <2>2. parser.xml_sent = FALSE /\ parser.json_sent = FALSE BY DEF Init
  <2>3. Bodiless BY <2>1, <2>2 DEF Bodiless
  <2>4. call.pc = "idle" /\ call.cs \notin Final BY DEF Init, Final
  <2> QED BY <2>3, <2>4 DEF Body
<1>4. Ghosts BY DEF Init, Ghosts, Idle
<1>5. MarkTokens(1) = {} /\ 1 \notin QueryStates \cup NameStates \cup LineStates
  BY DEF MarkTokens, QueryStates, NameStates, LineStates
<1>6. Discipline BY <1>5 DEF Init, Discipline
<1>7. Must(1) = {} BY DEF Must
<1>8. Order BY <1>7 DEF Init, Order
<1>9. CallbacksExact BY DEF Init, CallbacksExact
<1> QED BY <1>2, <1>3, <1>4, <1>6, <1>8, <1>9 DEF IInv

LEMMA NextInv ==
    IInv /\ CallbacksExact /\ [Next]_vars => IInv' /\ CallbacksExact' /\ [InOrder]_vars
<1> SUFFICES ASSUME IInv, CallbacksExact, [Next]_vars
             PROVE  IInv' /\ CallbacksExact' /\ [InOrder]_vars
  OBVIOUS
<1>1. CASE Next
  <2>1. IInv' /\ CallbacksExact' /\ InOrder BY <1>1, ExecuteInv, ScanInv, RejectInv, ReturnInv DEF Next
  <2> QED BY <2>1
<1>2. CASE UNCHANGED vars
  BY <1>2 DEF vars, IInv, Positions, Inside, Body, Bodiless, Ghosts, Discipline, At, AtQuery, AtColon,
              Order, Idle, CallbacksExact
<1> QED BY <1>1, <1>2

LEMMA RequestInv == Spec => [](IInv /\ CallbacksExact)
BY InitInv, NextInv, PTL DEF Spec

----------------------------------------------------------------------------
\* However a request is cut into buffers, and however long these are: every
\* callback is given exactly its token when the token lies in one buffer, and
\* its rest or nothing when a call of execute cut it, but for a query, whose
\* query_start is still a position of the old buffer.
THEOREM CallbacksTheorem == Spec => []CallbacksExact
BY RequestInv, PTL

\* The scanner leaves by an exception only for a query that a call cut, its
\* asserts fail only when a finished parser is used again, and no position is
\* behind the buffer.
THEOREM StopsTheorem == Spec => []StopsOnlyWhenMisused
<1>1. IInv => StopsOnlyWhenMisused
  <2> SUFFICES ASSUME IInv PROVE StopsOnlyWhenMisused OBVIOUS
  <2>1. parser.cs \in DOMAIN RequestTable \cup {Error} BY DEF IInv, Positions, Parser
  <2>2. /\ call.cs \in DOMAIN RequestTable \cup {Error} /\ call.p \in 0..MaxLen
        /\ call.pc \in {"idle", "scan", "end", "thrown", "aborted"}
    BY DEF IInv, Positions, Call
  <2>3. TypeOK BY <2>1, <2>2 DEF IInv, Positions, Ghosts, TypeOK
  <2> QED BY <2>3 DEF IInv, Positions, Ghosts, StopsOnlyWhenMisused
<1> QED BY <1>1, RequestInv, PTL

\* A parser that ended the head of a request has reported method, path and
\* version; one that ended an XML or JSON message, the path alone; the body
\* begins behind the last byte that execute consumed, a message ends there.
THEOREM HeadTheorem == Spec => []HeadComplete
<1>1. IInv => HeadComplete
  <2> SUFFICES ASSUME IInv, ~over PROVE HeadComplete BY DEF HeadComplete
  <2>1. parser.cs \in Final => Idle BY DEF IInv, Positions
  <2>2. Idle => parser.cs = call.cs BY DEF IInv, Positions
  <2>3. Final = {348, 349} BY DEF Final
  <2>4. /\ Must(348) = {"method", "path", "version"}
        /\ Must(349) = {"path"} /\ May(349) = {"path"}
    BY DEF Must, May, Error
  <2>5. Must(call.cs) \subseteq req /\ req \subseteq May(call.cs) BY DEF IInv, Order
  <2>6. parser.cs = 348 => {"method", "path", "version"} \subseteq req BY <2>1, <2>2, <2>3, <2>4, <2>5
  <2>7. parser.cs = 349 => req = {"path"} BY <2>1, <2>2, <2>3, <2>4, <2>5
  <2>8. Idle /\ parser.cs \in Final => parser.body_start + parser.content_len = parser.nread
    BY <2>2 DEF IInv, Body, Idle
  <2> QED BY <2>6, <2>7, <2>8 DEF HeadComplete
<1> QED BY <1>1, RequestInv, PTL

\* The parts of the request line are reported once and in their order, however
\* the line is cut into buffers: method and path before the version, the path
\* before the query, the query before the fragment, the fields after all.
THEOREM OrderTheorem == Spec => PartsInOrder
BY RequestInv, NextInv, PTL DEF Spec, PartsInOrder, InOrder
=============================================================================
