------------------------------ MODULE MCSearch ------------------------------
(* A small instance of Search: eight documents in up to four splits, two sort *)
(* fields (a keyword and a long), page sizes 0 to 2.                          *)
EXTENDS Search

Doc(n, ts, seq, kw, long, m) == [n |-> n, ts |-> ts, seq |-> seq, keys |-> [kw |-> kw, num |-> long, tag |-> kw], m |-> m]

MCLibrary ==
    << Doc(1, 1, 1, {1, 3}, {2}, TRUE),
       Doc(2, 2, 2, {}, {1}, TRUE),
       Doc(3, 2, 3, {2}, {}, FALSE),
       Doc(4, 2, 4, {3}, {2, 4}, TRUE),
       Doc(5, 3, 5, {2}, {}, TRUE),
       Doc(6, 2, NoSeq, {2}, {}, TRUE),
       Doc(7, 2, 7, {1}, {2}, TRUE),
       Doc(8, 2, NoSeq, {2}, {}, TRUE) >>

Segment(ns) == [i \in DOMAIN ns |-> MCLibrary[ns[i]]]
Split(segments) == [g \in DOMAIN segments |-> Segment(segments[g])]

Two == Split(<<<<1, 2>>, <<3>>>>)
Later == Split(<<<<4, 5>>>>)
Legacy == Split(<<<<6>>, <<8>>>>)
Arriving == <<Split(<<<<7>>>>)>>

MCMapped == [kw |-> "keyword", msg |-> "text"]
MCDynamicTypes == [num |-> {"long"}, tag |-> {"string", "long"}]

Entry(field, desc) ==
    [field |-> field, raw |-> FALSE, desc |-> desc, mode |-> "none", missing |-> "none",
     substitute |-> Missing, unmapped |-> "none"]
First(entry) == [entry EXCEPT !.missing = "_first"]
Instead(entry, v) == [entry EXCEPT !.missing = "value", !.substitute = v]

ByTime(desc) == <<Entry("_score", TRUE), Entry("@timestamp", desc)>>
Sorts ==
    {<<Entry("kw", FALSE), First(Entry("num", TRUE))>>,
     <<First(Entry("num", FALSE)), [Entry("tag", TRUE) EXCEPT !.raw = TRUE, !.mode = "min"]>>,
     <<Instead(Entry("num", TRUE), 2), [First(Entry("kw", TRUE)) EXCEPT !.mode = "max"]>>,
     <<[Entry("gone", TRUE) EXCEPT !.unmapped = "keyword"], First(Entry("@timestamp", FALSE)), Entry("_seq", FALSE)>>}
Unsortable == {<<Entry("msg", TRUE)>>, <<Entry("tag", TRUE)>>, <<Entry("gone", TRUE)>>}

Request(mode, sort, size, track, limit, all, aggs) ==
    [mode |-> mode, sort |-> sort, size |-> size, track |-> track, limit |-> limit, all |-> all, aggs |-> aggs]
Start(splits, coming, rebuilds, deletes, request) ==
    [published |-> splits, arriving |-> coming,
     left |-> [rebuilds |-> rebuilds, deletes |-> deletes], req |-> request]

MCStarts ==
    {Start({Two, Later, Legacy}, Arriving, 1, 0, Request("after", ByTime(TRUE), 2, "number", 2, FALSE, FALSE)),
     Start({Two, Later, Legacy}, Arriving, 0, 1, Request("after", ByTime(FALSE), 2, "false", 0, TRUE, FALSE)),
     Start({Two, Legacy}, Arriving, 1, 0, Request("after", ByTime(FALSE), 1, "number", 2, FALSE, FALSE)),
     Start({Two, Legacy}, <<>>, 1, 1, Request("scroll", ByTime(FALSE), 2, "absent", 0, TRUE, FALSE)),
     Start({Two, Later}, Arriving, 1, 1, Request("scroll", ByTime(FALSE), 2, "absent", 0, TRUE, FALSE)),
     Start({Two, Later}, Arriving, 1, 0, Request("from", <<>>, 2, "number", Unlimited, FALSE, FALSE)),
     Start({Two, Later, Legacy}, Arriving, 0, 1, Request("after", ByTime(TRUE), 0, "number", 1, FALSE, TRUE)),
     Start({Two, Later}, Arriving, 0, 1, Request("count", <<>>, 0, "true", 0, FALSE, FALSE)),
     Start({Two, Later, Legacy}, Arriving, 1, 1, Request("alert", <<>>, 0, "absent", 0, FALSE, FALSE))}
    \cup {Start({Two, Later}, Arriving, 1, 0, Request("after", sort, 1, "number", 2, FALSE, FALSE)) : sort \in Sorts}
    \cup {Start({Later, Legacy}, <<>>, 1, 0, Request("after", sort, 1, "false", 0, TRUE, FALSE)) : sort \in Sorts}
    \cup {Start({Two, Later}, <<>>, 1, 1, Request("scroll", sort, 2, "true", 0, TRUE, FALSE)) : sort \in Sorts}
    \cup {Start({Two, Later, Legacy}, <<>>, 0, 0, Request("from", sort, 2, "absent", 0, TRUE, FALSE))
            : sort \in Sorts \cup Unsortable}
==============================================================================
