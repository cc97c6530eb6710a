------------------------------- MODULE Config -------------------------------
(***************************************************************************)
(* tadpole::Config and ConfigVar (src/src/config.h, config.cc): variables  *)
(* registered under a name, and files that change them.                    *)
(*                                                                         *)
(* A name is a sequence of words, "tcp.address" being <<"tcp", "address">>;*)
(* a key of a YAML map is a non-empty sequence of words too, since it may  *)
(* hold dots.  A file is the sequence of its nodes, each after the nodes   *)
(* it holds, so that the root is the last one.  A node has its tag, its    *)
(* number if it is a scalar (-1 for a text that is none) and its kids in   *)
(* the order of the text, each with its place in the file and, in a map,   *)
(* its key.  The text of a node, which is converted to a variable's type,  *)
(* is its place in the file: what it converts to is the matter.            *)
(***************************************************************************)
EXTENDS Integers, Sequences, SequencesExt

CONSTANTS
    Files,    \* YAML files
    Names,    \* names that are looked up
    MaxVars,  \* bound: calls of Lookup
    MaxLoads  \* bound: files loaded

VARIABLES
    var,    \* the ConfigVar objects, in the order Lookup made them; the
            \* callers of Lookup keep them
    data,   \* GetData(): for each registered name the place of its variable
    loaded  \* files loaded so far

vars == <<var, data, loaded>>

Init ==
    /\ var = << >>
    /\ data = << >>
    /\ loaded = << >>

-----------------------------------------------------------------------------
\* LexicalCast from a text to T: empty if it throws, else the value.  A scalar
\* type takes a number only.  A container stops at the first element that does
\* not convert and keeps those before it; a text that is not a sequence has no
\* elements.
Scalar(file, i) == IF file[i].tag = "scalar" /\ file[i].v # -1 THEN {file[i].v} ELSE {}

Elements(file, i) ==
    LET kids == IF file[i].tag = "seq" THEN file[i].kids ELSE << >>
        good == {n \in 0..Len(kids) : \A k \in 1..n : Scalar(file, kids[k].at) # {}}
        n == CHOOSE n \in good : \A m \in good : m <= n
    IN  [k \in 1..n |-> file[kids[k].at].v]

LexicalCast(type, file, i) == IF type = "int" THEN Scalar(file, i) ELSE {Elements(file, i)}

\* Lookup: a new variable with the value given, which takes the place of the
\* one registered under the name.
DefaultValue(type) == IF type = "int" THEN 0 ELSE << >>

NewVar(name, type) ==
    [name |-> name, type |-> type, val |-> DefaultValue(type), m_cb |-> "none",
     calls |-> << >>, refused |-> {}, born |-> Len(loaded)]

Put(f, x, y) == [z \in DOMAIN f \cup {x} |-> IF z = x THEN y ELSE f[z]]

Lookup(name, type) ==
    /\ Len(var) < MaxVars
    /\ var' = Append(var, NewVar(name, type))
    /\ data' = Put(data, name, Len(var) + 1)
    /\ UNCHANGED loaded

\* addListener, with a callback that returns or one that throws; it takes the
\* place of the one before it.
addListener(x, cb) ==
    /\ var[x].m_cb # cb
    /\ var' = [var EXCEPT ![x].m_cb = cb]
    /\ UNCHANGED <<data, loaded>>

-----------------------------------------------------------------------------
\* What InitFromYaml inserts from a node on, in that order, relative to the
\* prefix it is called with: pairs of a name and a node.  The value of a key is
\* inserted before what it holds, and the elements of a sequence have the name of
\* the sequence.  below has the visits of the nodes before this one.
Below(key, visits) == [j \in DOMAIN visits |-> <<key \o visits[j][1], visits[j][2]>>]

Visit(file, i, below) ==
    LET kids == file[i].kids IN
    CASE file[i].tag = "map" ->
           FlattenSeq([k \in DOMAIN kids |->
               <<<<kids[k].key, kids[k].at>>>> \o Below(kids[k].key, below[kids[k].at])])
      [] file[i].tag = "seq" -> FlattenSeq([k \in DOMAIN kids |-> below[kids[k].at]])
      [] file[i].tag = "scalar" -> <<<<<< >>, i>>>>
      [] OTHER -> << >>

Visits(file) ==
    LET visits[i \in DOMAIN file] == Visit(file, i, visits)
    IN  visits[Len(file)]

\* Faulty variant: a later entry replaces the one that is there.
InsertLast(items, name, i) == Put(items, name, i)

\* map::insert keeps an entry that is there.
Insert(items, name, i) == IF name \in DOMAIN items THEN items ELSE Put(items, name, i)

\* InitFromYaml of the root, with an empty prefix and no items: the names under
\* which the file has texts.
InitFromYaml(file) ==
    LET visits == Visits(file)
        items[n \in 0..Len(visits)] ==
            IF n = 0 THEN << >> ELSE Insert(items[n - 1], visits[n][1], visits[n][2])
    IN  items[Len(visits)]

\* Faulty variant: the value is changed before the callback is called.
fromStringEarly(x, file, i) ==
    LET new == LexicalCast(x.type, file, i) IN
    IF new = {} THEN x
    ELSE LET v == CHOOSE v \in new : TRUE IN
         IF x.m_cb = "none" THEN [x EXCEPT !.val = v]
         ELSE [x EXCEPT !.val = v, !.calls = Append(@, <<v, v>>)]

\* fromString: convert, call the callback with the old and the new value,
\* assign.  Whatever throws, the variable keeps its value; refused records the
\* files whose value the callback did not let through.
fromString(x, file, i) ==
    LET new == LexicalCast(x.type, file, i) IN
    IF new = {} THEN x
    ELSE LET v == CHOOSE v \in new : TRUE IN
         CASE x.m_cb = "none" -> [x EXCEPT !.val = v]
           [] x.m_cb = "returns" -> [x EXCEPT !.val = v, !.calls = Append(@, <<x.val, v>>)]
           [] x.m_cb = "throws" -> [x EXCEPT !.refused = @ \cup {Len(loaded) + 1}]

\* LookupData: every registered variable that has an item.
LookupData(file, items) ==
    [x \in DOMAIN var |->
        IF data[var[x].name] = x /\ var[x].name \in DOMAIN items
        THEN fromString(var[x], file, items[var[x].name]) ELSE var[x]]

\* LoadFromYaml of a file that can be read; of any other it returns false.
LoadFromYaml(file) ==
    /\ Len(loaded) < MaxLoads
    /\ var' = LookupData(file, InitFromYaml(file))
    /\ loaded' = Append(loaded, file)
    /\ UNCHANGED data

Next ==
    \/ \E name \in Names, type \in {"int", "vector"} : Lookup(name, type)
    \/ \E x \in DOMAIN var, cb \in {"returns", "throws"} : addListener(x, cb)
    \/ \E file \in Files : LoadFromYaml(file)

Spec == Init /\ [][Next]_vars

-----------------------------------------------------------------------------
\* Type invariant, with the registry: a registered variable has the name it is
\* registered under, and is the last one that was looked up by it.
TypeOK ==
    /\ DOMAIN data = {var[x].name : x \in DOMAIN var}
    /\ \A name \in DOMAIN data :
         /\ data[name] \in DOMAIN var
         /\ var[data[name]].name = name
         /\ \A x \in DOMAIN var : var[x].name = name => x <= data[name]
    /\ \A x \in DOMAIN var : var[x].born <= Len(loaded)

\* What a file says about a name: the text found first, if it converts.
Says(file, name, type) ==
    LET visits == Visits(file)
        hits == {k \in DOMAIN visits : visits[k][1] = name}
    IN  IF hits = {} THEN {} ELSE LexicalCast(type, file, visits[Min(hits)][2])

\* Files loaded when another Lookup took the variable's place, if one did.
Retired(x) ==
    LET later == {y \in DOMAIN var : y > x /\ var[y].name = var[x].name} IN
    IF later = {} THEN Len(loaded) ELSE var[Min(later)].born

\* A variable has the value of the last file, from its Lookup to the one that
\* takes its place, that has a text for its name that converts to its type and
\* that its callback did not refuse by throwing, and the default if there is
\* none: a bad text or a refusal of one variable never disturbs another, nor a
\* later file, and a variable that was replaced no longer follows the files.
LastFileWins ==
    \A x \in DOMAIN var :
        LET saying == {k \in ((var[x].born + 1)..Retired(x)) \ var[x].refused :
                         Says(loaded[k], var[x].name, var[x].type) # {}}
        IN  IF saying = {} THEN var[x].val = DefaultValue(var[x].type)
            ELSE Says(loaded[Max(saying)], var[x].name, var[x].type) = {var[x].val}

\* The callbacks see every change since one was set, in order and with the value
\* before and after it: each call starts where the one before it ended, and
\* the last one ends at the value the variable has.
CallsChained ==
    \A x \in DOMAIN var : LET calls == var[x].calls IN
        /\ \A k \in 1..(Len(calls) - 1) : calls[k][2] = calls[k + 1][1]
        /\ calls # << >> => Last(calls)[2] = var[x].val

=============================================================================
