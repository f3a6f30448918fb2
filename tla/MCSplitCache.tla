---------------------------- MODULE MCSplitCache ----------------------------
(* A split of two bundled files and four blocks of at most two bytes, two threads. *)
EXTENDS SplitCache

MCContents == <<<<11, 12, 13, 14, 15>>, <<21>>>>
MCRanges   == {[file |-> 1, from |-> 1, to |-> 5], [file |-> 1, from |-> 2, to |-> 3],
               [file |-> 2, from |-> 0, to |-> 1], [file |-> 2, from |-> 0, to |-> 2],
               [file |-> 1, from |-> 2, to |-> 2]}

\* Searches through the shared cache, with and without faults, the scan of a
\* merge through its private memory cache, and an object that lacks its end.
MCModes ==
    {[readers |-> {1, 2}, disk |-> TRUE, ahead |-> 0, cut |-> 0,
      reads |-> 3, faults |-> 0, unlinks |-> 0, restarts |-> 0],
     [readers |-> {1, 2}, disk |-> TRUE, ahead |-> 0, cut |-> 0,
      reads |-> 2, faults |-> 1, unlinks |-> 0, restarts |-> 1],
     [readers |-> {1, 2}, disk |-> TRUE, ahead |-> 0, cut |-> 0,
      reads |-> 2, faults |-> 1, unlinks |-> 1, restarts |-> 0],
     [readers |-> {1}, disk |-> FALSE, ahead |-> 1, cut |-> 0,
      reads |-> 3, faults |-> 1, unlinks |-> 0, restarts |-> 0]}
    \cup {[readers |-> {1, 2}, disk |-> TRUE, ahead |-> 0, cut |-> cut,
           reads |-> 2, faults |-> 0, unlinks |-> 0, restarts |-> 0] : cut \in {1, Len(WriteBundle) - 1}}
=============================================================================
