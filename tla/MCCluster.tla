----------------------------- MODULE MCCluster ------------------------------
(* Situations for Cluster: two nodes, two clients, two documents. *)
EXTENDS Cluster, TLC

CONSTANTS c1, c2

Op(kind, docs)  == [kind |-> kind, docs |-> docs, refresh |-> FALSE]
Now(kind, docs) == [kind |-> kind, docs |-> docs, refresh |-> TRUE]
Plan(balance, pub, first, second, faults, lapses, drains) ==
    [balance |-> balance, published |-> pub, todo |-> (c1 :> first @@ c2 :> second),
     left |-> [faults |-> faults, lapses |-> lapses, drains |-> drains], spent |-> {}]

MCPlans ==
    {\* writes and refreshes, handed off, with a failure or a drain
     Plan(TRUE, {}, <<Op("write", {1, 2}), Op("refresh", {})>>, <<>>, 1, 1, 0),
     Plan(TRUE, {}, <<Op("write", {1}), Op("refresh", {})>>, <<Now("write", {2})>>, 0, 0, 1),
     \* deletes and searches
     Plan(TRUE, {1, 2}, <<Op("delete", {1}), Op("delete", {2})>>, <<Op("search", {}), Op("search", {})>>, 0, 0, 0),
     Plan(TRUE, {1, 2}, <<Op("search", {}), Op("delete", {1})>>, <<Op("delete", {2}), Op("search", {})>>, 0, 0, 0),
     \* delete_by_query in two rounds, while a document is written or deleted
     Plan(TRUE, {1, 2}, <<Op("byQuery", {})>>, <<>>, 1, 0, 1),
     Plan(FALSE, {1}, <<Op("byQuery", {})>>, <<Now("write", {2})>>, 1, 0, 0)}
=============================================================================
