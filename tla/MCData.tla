------------------------------- MODULE MCData -------------------------------
(* The byte array, the coding of values and the configuration variables for   *)
(* TLC.  None uses another's state, so a behaviour moves one of them (`part') *)
(* and leaves the others in an initial state.                                 *)
EXTENDS ByteArray

CONSTANTS
    P, Width, Values, Chars, MaxLen, MaxItems,   \* of ByteArrayCodec; Width is its W
    Files, Names, MaxVars, MaxLoads              \* of Config

ASSUME CodecAssumption ==
    /\ P \in Nat \ {0}
    /\ Width \in {2 * (P + 1), 4 * (P + 1)}
    /\ Values \subseteq Int
    /\ Chars \subseteq 0..(2 ^ (P + 1) - 1)
    /\ MaxLen \in Nat /\ MaxLen < 2 ^ Width   \* a length is a uint32_t
    /\ MaxItems \in Nat

ASSUME BoundsAssumption == {MaxVars, MaxLoads} \subseteq Nat

\* A configuration file lists a node after the nodes it holds.
YamlNode ==
    [tag : {"map", "seq", "scalar", "null"}, v : Int, kids : Seq([key : Seq(STRING), at : Nat])]

ASSUME FilesAssumption ==
    \A file \in Files :
        /\ file \in Seq(YamlNode) /\ file # << >>
        /\ \A i \in DOMAIN file : \A k \in DOMAIN file[i].kids : file[i].kids[k].at \in 1..(i - 1)

VARIABLES part, data, pending, last, count, synced, status, var, registered, loaded

arrayVars == <<chain, w, wpos, rpos, m_size, m_capcity, live, op, buf, size, out, ret, total>>
codecVars == <<data, pending, last, count, synced, status>>
configVars == <<var, registered, loaded>>

Codec == INSTANCE ByteArrayCodec WITH W <- Width

\* The values next to a power of two.
MCValues == UNION {{2 ^ k - 1, 2 ^ k, -(2 ^ k), -(2 ^ k) - 1} : k \in 0..(2 * Width)}

\* Configuration files: a list with a bad element, a name that occurs twice
\* (once as a key with a dot), a map under a sequence, and texts of the wrong
\* kind.
Num(n) == [tag |-> "scalar", v |-> n, kids |-> << >>]
Bad == Num(-1)
Null == [tag |-> "null", v |-> -1, kids |-> << >>]
List(places) ==
    [tag |-> "seq", v |-> -1, kids |-> [k \in DOMAIN places |-> [key |-> << >>, at |-> places[k]]]]
Map(kids) ==
    [tag |-> "map", v |-> -1, kids |-> [k \in DOMAIN kids |-> [key |-> kids[k][1], at |-> kids[k][2]]]]

Tcp == <<"tcp">>
AddressKey == <<"config">>
PortKey == <<"port">>

MCNames == {Tcp \o AddressKey, PortKey}

MCFiles == {
    <<Num(1), Num(2), List(<<1, 2>>), Map(<<<<AddressKey, 3>>>>), Map(<<<<Tcp, 4>>, <<PortKey, 1>>>>)>>,
    <<Num(1), Bad, Num(2), List(<<1, 2, 3>>), Map(<<<<AddressKey, 4>>>>), Map(<<<<Tcp, 5>>, <<PortKey, 2>>>>)>>,
    <<Num(3), Num(4), Map(<<<<AddressKey, 2>>>>), Null,
      Map(<<<<Tcp \o AddressKey, 1>>, <<Tcp, 3>>, <<PortKey, 4>>>>)>>,
    <<Num(5), Map(<<<<PortKey, 1>>>>), Num(6), Bad, List(<<4>>), Map(<<<<PortKey, 3>>, <<Tcp, 5>>>>), List(<<2, 6>>)>>}

Cfg == INSTANCE Config WITH data <- registered

MCInit ==
    /\ part \in {"array", "codec", "config"}
    /\ Init /\ Codec!Init /\ Cfg!Init

MCNext ==
    \/ part = "array" /\ Next /\ UNCHANGED <<part, codecVars, configVars>>
    \/ part = "codec" /\ Codec!Next /\ UNCHANGED <<part, arrayVars, configVars>>
    \/ part = "config" /\ Cfg!Next /\ UNCHANGED <<part, arrayVars, codecVars>>

MCSpec == MCInit /\ [][MCNext]_<<part, arrayVars, codecVars, configVars>>

----------------------------------------------------------------------------
\* A value that is read back is the value that was written, wherever the code
\* of byteArray.cc can do it.
RoundTrip == part = "codec" => Codec!TypeOK /\ Codec!RoundTrip

\* Reading the values that were written consumes exactly their bytes.
Framed == part = "codec" => Codec!Framed

\* The last configuration file that holds a value a ConfigVar can convert is
\* the one the variable has.
LastFileWins == part = "config" => Cfg!TypeOK /\ Cfg!LastFileWins

\* The callbacks of a ConfigVar are called once for each change, and each call's
\* old value is the new value of the call before.
CallsChained == part = "config" => Cfg!CallsChained
=============================================================================
