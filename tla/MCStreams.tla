----------------------------- MODULE MCStreams -----------------------------
(* A small instance of Streams: symbols 4 "a", 5 "A", 6 "b", 8 an IP address,  *)
(* 12 and 13 "a" and "A" with an accent.                                      *)
EXTENDS Streams

MCTiers == <<10, 100, 1000>>
MCAccents == [c \in {12, 13} |-> c - 8]

Str(s) == [k |-> "str", v |-> s]
Whole(n) == [k |-> "int", v |-> <<2 * n>>]
Half(h) == [k |-> "float", v |-> <<h>>]
Flag(b) == [k |-> "bool", v |-> <<b>>]
Arr(items) == [k |-> "arr", items |-> items]
Obj(m) == [k |-> "obj", m |-> m]
Numeral(n) == Str(<<20 + 4 * n>>)

Plain(declared) ==
    [declared |-> declared, normalizer |-> <<>>, ignoreAbove |-> -1, ignoreMalformed |-> FALSE, fields |-> <<>>]
Body(properties, normalizers) == [properties |-> properties, normalizers |-> normalizers]
Svc(def) == Body([svc |-> def], {})

Lowered == [Plain("keyword") EXCEPT !.normalizer = <<"uppercase", "lowercase">>]
Trimmed == [Plain("keyword") EXCEPT !.normalizer = <<"trim", "asciifolding", "uppercase">>]
Short == [Plain("keyword") EXCEPT !.ignoreAbove = 1]
Texty == [Plain("text") EXCEPT !.fields = [keyword |-> Short, n |-> [Plain("long") EXCEPT !.ignoreMalformed = TRUE]]]

AllBodies ==
    [kw |-> Body([svc |-> Lowered], {<<"uppercase", "lowercase">>}),
     fold |-> Body([svc |-> Trimmed], {<<"trim", "asciifolding", "uppercase">>}),
     bare |-> Svc(Lowered),
     under |-> Body([_svc |-> Plain("byte")], {}),
     txt |-> Svc(Texty),
     lng |-> Svc(Plain("integer")),
     dbl |-> Svc(Plain("half_float")),
     boo |-> Svc(Plain("boolean")),
     dat |-> Svc(Plain("date")),
     ip |-> Svc(Plain("ip")),
     bad |-> Svc([Plain("boolean") EXCEPT !.ignoreMalformed = TRUE])]

MCBodies == [b \in {"kw", "txt", "lng", "bad", "under"} |-> AllBodies[b]]

Values ==
    {Null, Str(<<>>), Str(<<4>>), Str(<<5, 6>>), Str(<<4, 6, 5>>), Str(<<8>>), Str(<<2>>), Str(<<3>>),
     Numeral(3), Whole(3), Whole(30), Whole(300), Whole(3000), Whole(600), Whole(9), Half(3), Half(19), Half(25), Half(2001), Flag(1), Flag(0),
     Str(<<Blank, 12>>), Str(<<5, Blank, 13>>), Arr(<<Str(<<5>>), Str(<<6>>)>>), Arr(<<Whole(3), Str(<<4>>)>>),
     Obj([in |-> Str(<<4>>)])}

Stamps == {Whole(4), Whole(40), Whole(9), Numeral(50), Half(5), Half(25)}

Doc(v) == [svc |-> v]
Stamped(v, t) == [svc |-> v] @@ ("@timestamp" :> t)

Writable ==
    {Doc(Str(<<5, 6>>)), Doc(Whole(3)), Stamped(Arr(<<Whole(3), Str(<<4>>)>>), Whole(40))}

History ==
    {[doc |-> Doc(v), mapping |-> m, version |-> 2]
        : v \in Values, m \in {EmptyMapping} \cup {AllBodies[b] : b \in DOMAIN AllBodies \ {"bad", "bare", "under"}}}
    \cup {[doc |-> Stamped(Str(<<5, 6>>), t), mapping |-> m, version |-> v]
        : t \in Stamps, m \in {EmptyMapping, AllBodies["txt"]}, v \in 0..2}

MCStarts ==
    {[written |-> {}, puts |-> 2, writes |-> 1]}
    \cup {[written |-> {h}, puts |-> 1, writes |-> 0] : h \in History}

Incl(v) == <<[incl |-> TRUE, v |-> v]>>
Excl(v) == <<[incl |-> FALSE, v |-> v]>>
NoBound == <<>>
During(lo, hi) == [q |-> "range", f |-> <<"timestamp">>, lower |-> lo, upper |-> hi]
All == [q |-> "all"]
BoolQuery(must, filter, should, mustNot) ==
    [q |-> "bool", must |-> must, filter |-> filter, should |-> should, mustNot |-> mustNot]

Ranges ==
    {During(Incl(Whole(40)), NoBound), During(NoBound, Excl(Whole(40))), During(Excl(Whole(4)), Incl(Numeral(50))),
     During(Incl(Half(5)), Incl(Half(5))), During(Excl(Whole(4)) \o Incl(Whole(40)), NoBound)}

MCQueries ==
    Ranges
    \cup {BoolQuery({r}, {}, {}, {}) : r \in Ranges}
    \cup {BoolQuery({}, {s}, {r}, {}) : r \in Ranges, s \in Ranges}
    \cup {BoolQuery({}, {}, {r, s}, {}) : r \in Ranges, s \in Ranges}
    \cup {BoolQuery({All}, {}, {}, {r}) : r \in Ranges}
    \cup {BoolQuery({BoolQuery({}, {}, {r}, {s})}, {}, {}, {}) : r \in Ranges, s \in Ranges}
    \cup {BoolQuery({}, {}, {}, {BoolQuery({r}, {}, {}, {})}) : r \in Ranges}
==============================================================================
