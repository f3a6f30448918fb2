---------------------------- MODULE MCDocuments ----------------------------
(* Instances of Documents for TLC. *)
EXTENDS Documents, TLC

\* Nodes are numbered; a node's number is its salt.
NodeSalt == [n \in Nodes |-> n]

\* Calls fail while two nodes take writes, and one of them crashes.
WritesPlans ==
    {[rotates |-> FALSE, kinds |-> {"bounds", "append", "saturated", "delete"}, faults |-> 1,
      crashes |-> 1, handovers |-> 0, merges |-> 0]}

\* A leader merges and compacts while another takes over; or a job step or a replacement's
\* tombstone fails and segments of the log are deleted.
ErasurePlans ==
    {[rotates |-> FALSE, kinds |-> {}, faults |-> 0, crashes |-> 0, handovers |-> 2, merges |-> 1],
     [rotates |-> TRUE, kinds |-> {"job", "replace"}, faults |-> 1, crashes |-> 0, handovers |-> 1,
      merges |-> 0]}

\* A node crashes once its log segments have been deleted.
LostPlans ==
    {[rotates |-> TRUE, kinds |-> {}, faults |-> 0, crashes |-> 1, handovers |-> 0, merges |-> 0]}

Symmetry == Permutations(Ops) \cup Permutations(Ids)
=============================================================================
