--------------------------- MODULE MCObjectStore ----------------------------
(* Settings and bounds for ObjectStore: copies and quorum; other keys that are *)
(* stuck; crashes, disks lost, drain requests, requests taken back, failed      *)
(* calls, splits marked.                                                        *)
EXTENDS ObjectStore

Plan(copies, quorum, stuck, c, l, d, x, f, m) ==
    [copies |-> copies, quorum |-> quorum, stuck |-> stuck,
     left |-> [crash |-> c, loss |-> l, drain |-> d, clear |-> x, fault |-> f, mark |-> m]]

MCPlans ==
    {Plan(2, 2, 1, 1, 1, 0, 0, 0, 0), Plan(2, 2, 3, 1, 0, 0, 0, 0, 1), Plan(2, 2, 2, 1, 0, 1, 0, 0, 0),
     Plan(2, 2, 0, 1, 0, 1, 0, 0, 0), Plan(2, 2, 0, 0, 0, 1, 0, 1, 0), Plan(2, 2, 2, 0, 0, 1, 1, 1, 0),
     Plan(2, 2, 0, 0, 0, 0, 0, 1, 1), Plan(3, 3, 1, 0, 0, 0, 0, 2, 0)}
=============================================================================
