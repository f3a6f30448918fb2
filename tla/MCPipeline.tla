----------------------------- MODULE MCPipeline -----------------------------
(* Instances of Pipeline for TLC. *)
EXTENDS Pipeline

CONSTANTS d1, d2

\* A backend call of a write or a flush fails once, around one crash.
Faults ==
    [refreshing |-> {d2}, poison |-> {}, capacity |-> 1, batch |-> 2,
     kinds |-> {"put", "stage", "publish", "reply", "lookup"},
     faults |-> 1, deletes |-> 0, retires |-> 0, crashes |-> 1]

\* The index is deleted twice while documents are on their way.
Deletes ==
    [refreshing |-> {}, poison |-> {}, capacity |-> 2, batch |-> 2, kinds |-> {},
     faults |-> 0, deletes |-> 2, retires |-> 0, crashes |-> 0]

\* Idle workers are retired twice, around one failing call; d2 is skipped.
Retires ==
    [refreshing |-> {d1}, poison |-> {d2}, capacity |-> 1, batch |-> 2,
     kinds |-> {"publish", "put", "sweep", "resolve"},
     faults |-> 1, deletes |-> 0, retires |-> 2, crashes |-> 0]

MCPlans == {Faults, Deletes, Retires}
=============================================================================
