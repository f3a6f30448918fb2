------------------------- MODULE ObjectStoreProofs --------------------------
(***************************************************************************)
(* The replicated store keeps a published object findable for any number   *)
(* of nodes, copies, drains, failed calls and lost disks, while fewer      *)
(* nodes crash than the write quorum counts copies (Findable).             *)
(*                                                                         *)
(* The argument follows the set D of nodes that have crashed since the put *)
(* began: a crashed node may lose its disk, its row, or both, at any later *)
(* time.  Of the others, the ones with a file and a row that no reconcile  *)
(* pass is about to remove, together with D, number at least the quorum    *)
(* (Laid).  Only the end of a drain removes such a node, after it counted  *)
(* as many others (Counts).                                                *)
(***************************************************************************)
EXTENDS ObjectStore, FiniteSetTheorems, WellFoundedInduction, TLAPS

Ages   == {"none", "new", "old"}
Puts   == {"idle", "local", "recorded", "fanout", "acked", "rollback", "staged", "failed"}
Pushes == {"none", "sent", "lateSent", "filed", "lateFiled", "ok", "err"}
Jobs   == {"idle", "delete", "deleteRows", "deleteSplit", "repair", "drain"}

JobType  == [kind : Jobs, by : Nodes \cup {0}, todo : SUBSET Nodes, cur : Nodes \cup {0},
             src : Nodes \cup {0}, safe : Nat, off : Nodes \cup {0}]
PullType == [at : {"none", "asked", "filed"}, src : Nodes \cup {0}]

TypeOK ==
    /\ file \in [Nodes -> Ages] /\ row \in [Nodes -> Ages]
    /\ split \in {"none", "present", "marked", "gone"}
    /\ node \in [Nodes -> {"up", "down", "dead", "expired"}] /\ draining \in SUBSET Nodes
    /\ put \in Puts /\ push \in [Nodes -> Pushes]
    /\ rec \in [Nodes -> {"idle", "tracked", "phantom"}]
    /\ job \in JobType /\ pull \in [Nodes -> PullType]
    /\ plan \in [copies : Nat \ {0}, quorum : Nat, stuck : Nat, left : [Bounds -> Nat]]

----------------------------------------------------------------------------
(* The invariant *)

\* From the writer's row to the mark on the split the object has to be kept.
Active == put \in {"recorded", "fanout", "acked"} \/ split = "present"

\* Before that nothing but the writer's file is there.
Quiet ==
    /\ row = NoRows /\ job.kind = "idle"
    /\ \A n \in Nodes : push[n] = "none" /\ pull[n].at = "none" /\ rec[n] = "idle"
    /\ \A n \in Nodes : file[n] = IF n = Writer /\ put = "local" THEN "new" ELSE "none"

Before == put \in {"idle", "local"} => Quiet

\* A put that has not succeeded has published nothing.  While the object has to
\* be kept no delete runs, and no node takes it for an orphan.
Order ==
    /\ put # "staged" => split = "none"
    /\ put \in {"recorded", "fanout", "acked"} => \A n \in Nodes : row[n] # "old"
    /\ push[Writer] = "none"
    /\ Active => job.kind \in {"idle", "repair", "drain"}
    /\ Active => \A n \in Nodes : rec[n] # "tracked"

\* A row, or a row about to be written, has its file, and is not going to be
\* removed as a phantom.
Sound(n) ==
    /\ row[n] # "none" => file[n] # "none"
    /\ rec[n] # "phantom"
    /\ push[n] \in {"filed", "lateFiled"} => file[n] # "none"
    /\ pull[n].at = "filed" => file[n] # "none"

\* The nodes a running drain still has to ask, or waits for.
Open == IF job.kind = "drain" THEN job.todo \cup ({job.cur} \ {0}) ELSE {}

\* The nodes whose rows a drain may trust.
Trusted == (Nodes \ draining) \cup Open

\* The nodes that have the object for a reader, and the crashed ones.
Firm(D) == D \cup {n \in Sources : rec[n] # "phantom"}

Laid(D)   == Cardinality(Firm(D)) >= Quorum
Laying(D) == (\A n \in Nodes \ D : Sound(n)) /\ {Writer} \cup Pushed \subseteq Firm(D)

\* A drain counts copies that will stay.
Counts(D) ==
    job.kind = "drain" =>
        /\ job.off \in Nodes /\ job.off \notin Open /\ job.cur \notin job.todo
        /\ job.off \in draining \cup D
        /\ job.safe <= Cardinality((Firm(D) \ {job.off}) \ Open)

Crashed(D) ==
    /\ \A n \in Nodes : node[n] # "up" => n \in D
    /\ put \in {"local", "recorded", "fanout", "acked"} => Writer \notin D

Safe(D) ==
    Active =>
        /\ \A n \in Trusted \ D : Sound(n)
        /\ put \in {"recorded", "fanout"} => Laying(D) \/ Laid(D)
        /\ (put = "acked" \/ split = "present") => Laid(D)
        /\ Counts(D)

\* A node that was draining may have a row without a file, which a drain would
\* trust if the request were taken back.
StoreInv(D) ==
    /\ Before /\ Order /\ Crashed(D) /\ Safe(D)
    /\ plan.left["crash"] + Cardinality(D) < Quorum /\ plan.left["clear"] = 0

Inv == \E D \in SUBSET Nodes : StoreInv(D)

----------------------------------------------------------------------------
(* Numbers *)

\* A set of node ids that is not empty has a least one (ORDER BY ... LIMIT 1).
LEMMA MinIn ==
    ASSUME NEW S, S \subseteq Nat, S # {}
    PROVE  Min(S) \in S
<1> DEFINE R == OpToRel(<, Nat)
<1>1. IsWellFoundedOn(R, Nat)
  BY NatLessThanWellFounded, ZenonT(30)
<1>2. \A a, b \in Nat : a < b => <<a, b>> \in R
  BY ZenonT(30) DEF OpToRel
<1> HIDE DEF R
<1>3. \E d \in S : \A e \in S : ~(<<e, d>> \in R)
  BY <1>1, WFMin, ZenonT(30)
<1>4. PICK d \in S : \A e \in S : ~(<<e, d>> \in R)
  BY <1>3, ZenonT(30)
<1>5. ASSUME NEW e \in S PROVE d <= e
  <2>1. d \in Nat /\ e \in Nat /\ ~(e < d)
    BY <1>2, <1>4, Zenon
  <2> QED  BY <2>1
<1> QED  BY <1>5, Zenon DEF Min

\* The smaller and the larger of two numbers (usize::min, usize::max).
LEMMA Pair ==
    ASSUME NEW a \in Int, NEW b \in Int
    PROVE  /\ Min({a, b}) = IF a <= b THEN a ELSE b
           /\ Max({a, b}) = IF a <= b THEN b ELSE a
<1>1. \E x \in {a, b} : \A y \in {a, b} : x =< y
  OBVIOUS
<1>2. Min({a, b}) \in {a, b} /\ \A y \in {a, b} : Min({a, b}) =< y
  BY <1>1, Zenon DEF Min
<1>3. \E x \in {a, b} : \A y \in {a, b} : x >= y
  OBVIOUS
<1>4. Max({a, b}) \in {a, b} /\ \A y \in {a, b} : Max({a, b}) >= y
  BY <1>3, Zenon DEF Max
<1> QED  BY <1>2, <1>4

\* The write quorum is a number of copies that can be written
\* (replicated.rs: write_quorum.min(replication_factor).max(1)).
LEMMA QuorumRange ==
    ASSUME TypeOK
    PROVE  Quorum \in Nat /\ 1 <= Quorum /\ Quorum <= Factor /\ Factor \in Nat
<1>1. plan.quorum \in Nat /\ Factor \in Nat \ {0}
  BY ZenonT(30) DEF TypeOK, Factor
<1>2. Min({plan.quorum, Factor}) = IF plan.quorum <= Factor THEN plan.quorum ELSE Factor
  BY <1>1, Pair
<1>3. Min({plan.quorum, Factor}) \in Int
  BY <1>1, <1>2
<1>4. Quorum = IF 1 <= Min({plan.quorum, Factor}) THEN Min({plan.quorum, Factor}) ELSE 1
  BY <1>3, Pair DEF Quorum
<1> QED  BY <1>1, <1>2, <1>4

\* Spending a bound leaves the settings and the other bounds alone.
LEMMA Spent ==
    ASSUME TypeOK, NEW what \in Bounds, Spend(what)
    PROVE  /\ plan'.copies = plan.copies /\ plan'.quorum = plan.quorum
           /\ plan' \in [copies : Nat \ {0}, quorum : Nat, stuck : Nat, left : [Bounds -> Nat]]
           /\ \A b \in Bounds : plan'.left[b] = IF b = what THEN plan.left[b] - 1 ELSE plan.left[b]
<1> DEFINE left == [plan.left EXCEPT ![what] = @ - 1]
<1>1. plan.left \in [Bounds -> Nat] /\ plan.left[what] > 0
  BY ZenonT(30) DEF TypeOK, Spend
<1>2. left \in [Bounds -> Nat] /\ \A b \in Bounds : left[b] = IF b = what THEN plan.left[b] - 1 ELSE plan.left[b]
  BY <1>1
<1>3. plan' = [plan EXCEPT !.left = left]
  BY ZenonT(30) DEF Spend
<1> HIDE DEF left
<1> QED  BY <1>2, <1>3, ZenonT(30) DEF TypeOK

----------------------------------------------------------------------------
(* Types *)

\* Nodes are finitely many, and 0 stands for none.
LEMMA NodesFinite == IsFiniteSet(Nodes) /\ 0 \notin Nodes
BY StoreAssumption, ZenonT(30)

\* A replicate target, a repair target and a source are nodes.
LEMMA NodeSets ==
    /\ \A X, k, b : \A T \in Targets(X, k, b) : T \subseteq Live \ X
    /\ \A T \in RepairTargets : T \subseteq Nodes
    /\ Holders # {} => Min(Holders) \in Nodes
    /\ IsFiniteSet(Nodes) /\ 0 \notin Nodes
<1>1. \A X, k, b : \A T \in Targets(X, k, b) : T \subseteq Live \ X
  BY Zenon DEF Targets
<1>2. Live \subseteq Nodes /\ Holders \subseteq Nodes /\ Nodes \subseteq Nat
  BY StoreAssumption, ZenonT(30) DEF Live, Holders, Located
<1>3. ASSUME NEW U \in RepairTargets PROVE U \subseteq Nodes
  <2> DEFINE missing == Factor - Cardinality(Holders)
  <2>1. \E T \in Targets(Holders, missing, FALSE) :
           \E F \in Targets(Holders \cup T, missing - Cardinality(T), TRUE) : U = T \cup F
    BY Zenon DEF RepairTargets
  <2> HIDE DEF missing
  <2>2. PICK T \in Targets(Holders, missing, FALSE) :
           \E F \in Targets(Holders \cup T, missing - Cardinality(T), TRUE) : U = T \cup F
    BY <2>1, ZenonT(30)
  <2>3. PICK F \in Targets(Holders \cup T, missing - Cardinality(T), TRUE) : U = T \cup F
    BY <2>2, ZenonT(30)
  <2>4. T \subseteq Live /\ F \subseteq Live
    BY <1>1, Zenon
  <2> QED  BY <1>2, <2>3, <2>4, ZenonT(30)
<1>4. Holders # {} => Min(Holders) \in Nodes
  BY <1>2, MinIn, ZenonT(30)
<1> QED  BY <1>1, <1>3, <1>4, StoreAssumption, ZenonT(30)

\* What the bounds and settings may become.
PlanKept == /\ plan'.copies = plan.copies /\ plan'.quorum = plan.quorum
            /\ plan' \in [copies : Nat \ {0}, quorum : Nat, stuck : Nat, left : [Bounds -> Nat]]

\* Only a crash uses up a crash, and no drain request is taken back when none
\* may be.
LEMMA PlanStep ==
    ASSUME TypeOK, [Next]_vars
    PROVE  /\ PlanKept
           /\ (\E n \in Nodes : Crash(n)) \/ plan'.left["crash"] = plan.left["crash"]
           /\ plan.left["clear"] = 0 => plan'.left["clear"] = 0
<1> DEFINE Kept == plan.left["clear"] = 0 => plan'.left["clear"] = 0
<1>1. ASSUME UNCHANGED plan PROVE PlanKept /\ plan'.left["crash"] = plan.left["crash"] /\ Kept
  BY <1>1, ZenonT(30) DEF PlanKept, TypeOK
<1>2. ASSUME NEW b \in Bounds, b # "crash", Spend(b)
      PROVE  PlanKept /\ plan'.left["crash"] = plan.left["crash"] /\ Kept
  <2>1. PlanKept /\ plan'.left["crash"] = plan.left["crash"]
    BY <1>2, Spent, ZenonT(30) DEF PlanKept, Bounds
  <2>2. plan.left["clear"] = 0 => b # "clear"
    BY <1>2 DEF Spend
  <2>3. Kept
    BY <1>2, <2>2, Spent, ZenonT(30) DEF Bounds
  <2> QED  BY <2>1, <2>3, Zenon
<1>3. ASSUME NEW n \in Nodes, Crash(n) PROVE PlanKept /\ Kept
  BY <1>3, Spent, ZenonT(30) DEF PlanKept, Crash, Bounds
<1>4. \/ (\E n \in Nodes : Crash(n)) \/ UNCHANGED plan
      \/ Spend("loss") \/ Spend("drain") \/ Spend("clear") \/ Fault \/ Spend("mark")
  BY Zenon DEF Next, vars, NoFault, PeerDelete, PutLocal, RecordLocal, FanOut, PutAck, RollbackLocal,
     RollbackRows, StageSplit, MarkSplit, DeleteLocal, DeleteRows, DeleteSplitRow, AskTimeout, EndRepair,
     EndDrain, StartRepair, HourPasses, ExpireDeadNodes, PushWrite, PushRecord, PushFail, PushTimeout,
     RollbackPeer, StartDelete, DeletePeer, StartDrain, Ask, Download, RecordPull, Announce, SweepOrphan,
     RestoreRow, VerifyPlacement, RemovePhantom, DiskLoss, HeartbeatLapse, Restart, SetDraining
<1> HIDE DEF Kept
<1>5. "loss" \in Bounds /\ "drain" \in Bounds /\ "clear" \in Bounds /\ "fault" \in Bounds /\ "mark" \in Bounds
  BY ZenonT(30) DEF Bounds
<1>6. "loss" # "crash" /\ "drain" # "crash" /\ "clear" # "crash" /\ "fault" # "crash" /\ "mark" # "crash"
  OBVIOUS
<1>7. PlanKept /\ Kept /\ ((\E n \in Nodes : Crash(n)) \/ plan'.left["crash"] = plan.left["crash"])
  BY <1>1, <1>2, <1>3, <1>4, <1>5, <1>6, Zenon DEF Fault
<1> QED  BY <1>7, Zenon DEF Kept

\* The files, rows and calls of the object, apart from the transfers.
StoreType ==
    /\ file \in [Nodes -> Ages] /\ row \in [Nodes -> Ages]
    /\ split \in {"none", "present", "marked", "gone"}
    /\ node \in [Nodes -> {"up", "down", "dead", "expired"}] /\ draining \in SUBSET Nodes
    /\ put \in Puts /\ push \in [Nodes -> Pushes]
    /\ rec \in [Nodes -> {"idle", "tracked", "phantom"}]
WorkType == job \in JobType /\ pull \in [Nodes -> PullType]

\* Every step keeps the types of the files, rows and calls.
LEMMA StoreTypeStep ==
    ASSUME TypeOK, [Next]_vars
    PROVE  StoreType'
<1> USE DEF TypeOK, StoreType, Ages, storeVars, clusterVars
<1>1. ASSUME PutLocal PROVE StoreType'
  BY <1>1, StoreAssumption, ZenonT(30) DEF PutLocal, Puts
<1>2. ASSUME RecordLocal PROVE StoreType'
  BY <1>2, StoreAssumption, ZenonT(30) DEF RecordLocal, Recorded, Puts
<1>3. ASSUME FanOut PROVE StoreType'
  BY <1>3 DEF FanOut, Puts, Pushes
<1>4. ASSUME PutAck PROVE StoreType'
  BY <1>4, ZenonT(30) DEF PutAck, Puts
<1>5. ASSUME RollbackLocal PROVE StoreType'
  BY <1>5, ZenonT(30) DEF RollbackLocal, Puts
<1>6. ASSUME RollbackRows PROVE StoreType'
  BY <1>6, ZenonT(30) DEF RollbackRows, Puts, NoRows
<1>7. ASSUME StageSplit PROVE StoreType'
  BY <1>7, ZenonT(30) DEF StageSplit, Puts
<1>8. ASSUME MarkSplit PROVE StoreType'
  BY <1>8, ZenonT(30) DEF MarkSplit
<1>9. ASSUME DeleteLocal PROVE StoreType'
  BY <1>9, ZenonT(30) DEF DeleteLocal
<1>10. ASSUME DeleteRows PROVE StoreType'
  BY <1>10 DEF DeleteRows, NoRows
<1>11. ASSUME DeleteSplitRow PROVE StoreType'
  BY <1>11, ZenonT(30) DEF DeleteSplitRow
<1>12. ASSUME AskTimeout PROVE StoreType'
  BY <1>12, ZenonT(30) DEF AskTimeout
<1>13. ASSUME EndRepair PROVE StoreType'
  BY <1>13, ZenonT(30) DEF EndRepair
<1>14. ASSUME EndDrain PROVE StoreType'
  BY <1>14 DEF EndDrain, PeerDelete
<1>15. ASSUME StartRepair PROVE StoreType'
  BY <1>15, ZenonT(30) DEF StartRepair
<1>16. ASSUME HourPasses PROVE StoreType'
  BY <1>16, ZenonT(30) DEF HourPasses, Older
<1>17. ASSUME NEW E \in SUBSET Nodes, ExpireDeadNodes(E) PROVE StoreType'
  BY <1>17, ZenonT(30) DEF ExpireDeadNodes
<1>18. ASSUME NEW n \in Nodes, PushWrite(n) PROVE StoreType'
  BY <1>18, ZenonT(30) DEF PushWrite, Pushes
<1>19. ASSUME NEW n \in Nodes, PushRecord(n) PROVE StoreType'
  BY <1>19, ZenonT(30) DEF PushRecord, Pushes, Recorded
<1>20. ASSUME NEW n \in Nodes, PushFail(n) PROVE StoreType'
  BY <1>20, ZenonT(30) DEF PushFail, Pushes
<1>21. ASSUME NEW n \in Nodes, PushTimeout(n) PROVE StoreType'
  BY <1>21, ZenonT(30) DEF PushTimeout, Pushes
<1>22. ASSUME NEW n \in Nodes, RollbackPeer(n) PROVE StoreType'
  BY <1>22, ZenonT(30) DEF RollbackPeer, Pushes, PeerDelete
<1>23. ASSUME NEW n \in Nodes, StartDelete(n) PROVE StoreType'
  BY <1>23, ZenonT(30) DEF StartDelete
<1>24. ASSUME NEW n \in Nodes, DeletePeer(n) PROVE StoreType'
  BY <1>24, ZenonT(30) DEF DeletePeer, PeerDelete
<1>25. ASSUME NEW n \in Nodes, StartDrain(n) PROVE StoreType'
  BY <1>25, ZenonT(30) DEF StartDrain
<1>26. ASSUME NEW n \in Nodes, Ask(n) PROVE StoreType'
  BY <1>26, ZenonT(30) DEF Ask
<1>27. ASSUME NEW n \in Nodes, Download(n) PROVE StoreType'
  BY <1>27, ZenonT(30) DEF Download
<1>28. ASSUME NEW n \in Nodes, RecordPull(n) PROVE StoreType'
  BY <1>28, ZenonT(30) DEF RecordPull, Recorded
<1>29. ASSUME NEW n \in Nodes, Announce(n) PROVE StoreType'
  BY <1>29, ZenonT(30) DEF Announce, Recorded
<1>30. ASSUME NEW n \in Nodes, SweepOrphan(n) PROVE StoreType'
  BY <1>30, ZenonT(30) DEF SweepOrphan
<1>31. ASSUME NEW n \in Nodes, RestoreRow(n) PROVE StoreType'
  BY <1>31, ZenonT(30) DEF RestoreRow, Recorded
<1>32. ASSUME NEW n \in Nodes, VerifyPlacement(n) PROVE StoreType'
  BY <1>32, ZenonT(30) DEF VerifyPlacement
<1>33. ASSUME NEW n \in Nodes, RemovePhantom(n) PROVE StoreType'
  BY <1>33, ZenonT(30) DEF RemovePhantom
<1>34. ASSUME NEW n \in Nodes, Crash(n) PROVE StoreType'
  BY <1>34, ZenonT(30) DEF Crash, Pushes, Puts
<1>35. ASSUME NEW n \in Nodes, DiskLoss(n) PROVE StoreType'
  BY <1>35, ZenonT(30) DEF DiskLoss
<1>36. ASSUME NEW n \in Nodes, HeartbeatLapse(n) PROVE StoreType'
  BY <1>36, ZenonT(30) DEF HeartbeatLapse
<1>37. ASSUME NEW n \in Nodes, Restart(n) PROVE StoreType'
  BY <1>37, ZenonT(30) DEF Restart
<1>38. ASSUME NEW n \in Nodes, SetDraining(n) PROVE StoreType'
  BY <1>38, ZenonT(30) DEF SetDraining
<1>39. ASSUME UNCHANGED vars PROVE StoreType'
  BY <1>39, ZenonT(30) DEF vars
<1> QED
  BY <1>1, <1>2, <1>3, <1>4, <1>5, <1>6, <1>7, <1>8, <1>9, <1>10, <1>11, <1>12, <1>13, <1>14, <1>15, <1>16, <1>17, <1>18, <1>19, <1>20, <1>21, <1>22, <1>23, <1>24, <1>25, <1>26, <1>27, <1>28, <1>29, <1>30, <1>31, <1>32, <1>33, <1>34, <1>35, <1>36, <1>37, <1>38, <1>39, Zenon DEF Next

\* Every step keeps the types of the leader's job and of the transfers.
LEMMA WorkTypeStep ==
    ASSUME TypeOK, [Next]_vars
    PROVE  WorkType'
<1> USE DEF TypeOK, WorkType, JobType, PullType, Jobs
<1>0. Idle \in JobType /\ NoPull \in PullType /\ Holders \subseteq Nodes
  BY ZenonT(30) DEF Idle, NoPull, Holders, Located
<1>1. ASSUME UNCHANGED <<job, pull>> PROVE WorkType'
  BY <1>1, ZenonT(30)
<1>2. ASSUME job' = Idle, UNCHANGED pull PROVE WorkType'
  BY <1>0, <1>2, ZenonT(30)
<1>3. ASSUME NEW l \in Nodes, StartDelete(l) PROVE WorkType'
  BY <1>0, <1>3, ZenonT(30) DEF StartDelete, Idle
<1>4. ASSUME NEW n \in Nodes, DeletePeer(n) PROVE WorkType'
  BY <1>4, ZenonT(30) DEF DeletePeer
<1>5. ASSUME DeleteLocal PROVE WorkType'
  BY <1>5, ZenonT(30) DEF DeleteLocal
<1>6. ASSUME DeleteRows PROVE WorkType'
  BY <1>0, <1>6 DEF DeleteRows
<1>7. ASSUME AskTimeout PROVE WorkType'
  BY <1>7, ZenonT(30) DEF AskTimeout
<1>8. ASSUME StartRepair PROVE WorkType'
  <2>1. PICK T \in RepairTargets : job' = [Idle EXCEPT !.kind = "repair", !.todo = T, !.src = Min(Holders)]
    BY <1>8, ZenonT(30) DEF StartRepair
  <2>2. T \subseteq Nodes /\ Min(Holders) \in Nodes
    BY <1>8, NodeSets, ZenonT(30) DEF StartRepair
  <2>3. UNCHANGED pull
    BY <1>8, ZenonT(30) DEF StartRepair
  <2> QED  BY <2>1, <2>2, <2>3, ZenonT(30) DEF Idle
<1>9. ASSUME NEW d \in Nodes, StartDrain(d) PROVE WorkType'
  <2> DEFINE safe == Cardinality(Holders \ draining)
  <2>1. PICK T \in Targets(Holders, Factor - safe, FALSE) :
           job' = [Idle EXCEPT !.kind = "drain", !.todo = T, !.src = Min(Holders), !.safe = safe, !.off = d]
    BY <1>9, ZenonT(30) DEF StartDrain
  <2>2. T \subseteq Nodes /\ Min(Holders) \in Nodes
    <3>1. T \subseteq Live \ Holders
      BY Zenon DEF Targets
    <3>2. Holders # {}
      BY <1>9, Zenon DEF StartDrain
    <3> QED  BY <3>1, <3>2, NodeSets, ZenonT(30) DEF Live
  <2>3. safe \in Nat
    BY <1>0, NodesFinite, FS_Subset, FS_CardinalityType, ZenonT(30)
  <2>4. UNCHANGED pull
    BY <1>9, ZenonT(30) DEF StartDrain
  <2> HIDE DEF safe
  <2> QED  BY <2>1, <2>2, <2>3, <2>4, ZenonT(30) DEF Idle
<1>10. ASSUME NEW n \in Nodes, Ask(n) PROVE WorkType'
  BY <1>10, ZenonT(30) DEF Ask
<1>11. ASSUME NEW n \in Nodes, NEW ok \in BOOLEAN, Answer(n, ok) PROVE job' \in JobType
  <2> DEFINE safe == IF ok THEN job.safe + 1 ELSE job.safe
  <2>1. safe \in Nat
    OBVIOUS
  <2>2. job' = job \/ job' = [job EXCEPT !.cur = 0, !.safe = safe]
    BY <1>11, Zenon DEF Answer
  <2> HIDE DEF safe
  <2> QED  BY <2>1, <2>2, ZenonT(30)
<1>12. ASSUME NEW n \in Nodes, Download(n) PROVE WorkType'
  <2>1. pull' \in [Nodes -> PullType]
    <3>1. pull' \in {[pull EXCEPT ![n].at = "filed"], [pull EXCEPT ![n] = NoPull]}
      BY <1>12, Zenon DEF Download
    <3>2. pull[n] \in PullType
      OBVIOUS
    <3>3. [pull[n] EXCEPT !.at = "filed"] \in PullType
      BY <3>2, ZenonT(30)
    <3>4. [pull EXCEPT ![n].at = "filed"] = [pull EXCEPT ![n] = [pull[n] EXCEPT !.at = "filed"]]
      OBVIOUS
    <3> QED  BY <1>0, <3>1, <3>3, <3>4
  <2>2. UNCHANGED job \/ Answer(n, FALSE)
    BY <1>12, Zenon DEF Download
  <2> QED  BY <1>11, <2>1, <2>2, ZenonT(30)
<1>13. ASSUME NEW n \in Nodes, RecordPull(n) PROVE WorkType'
  <2>1. pull' \in [Nodes -> PullType]
    BY <1>0, <1>13, ZenonT(30) DEF RecordPull
  <2>2. Answer(n, FALSE) \/ Answer(n, TRUE)
    BY <1>13, Zenon DEF RecordPull
  <2> QED  BY <1>11, <2>1, <2>2, ZenonT(30)
<1>14. ASSUME NEW n \in Nodes, Crash(n) PROVE WorkType'
  <2>1. pull' \in [Nodes -> PullType]
    BY <1>0, <1>14, ZenonT(30) DEF Crash
  <2>2. job' \in {job, Idle, [job EXCEPT !.cur = 0]}
    BY <1>14, Zenon DEF Crash
  <2> QED  BY <1>0, <2>1, <2>2
<1>15. ASSUME DeleteSplitRow \/ EndRepair \/ EndDrain PROVE job' = Idle /\ UNCHANGED pull
  BY <1>15, Zenon DEF DeleteSplitRow, EndRepair, EndDrain
<1>16. ASSUME \/ PutLocal \/ RecordLocal \/ FanOut \/ PutAck \/ RollbackLocal \/ RollbackRows
              \/ StageSplit \/ MarkSplit \/ HourPasses \/ \E E \in SUBSET Nodes : ExpireDeadNodes(E)
       PROVE  UNCHANGED <<job, pull>>
  BY <1>16, Zenon DEF PutLocal, RecordLocal, FanOut, PutAck, RollbackLocal, RollbackRows, StageSplit,
     MarkSplit, HourPasses, ExpireDeadNodes
<1>17. ASSUME NEW n \in Nodes,
              \/ PushWrite(n) \/ PushRecord(n) \/ PushFail(n) \/ PushTimeout(n) \/ RollbackPeer(n)
              \/ Announce(n) \/ SweepOrphan(n) \/ RestoreRow(n) \/ VerifyPlacement(n) \/ RemovePhantom(n)
              \/ DiskLoss(n) \/ HeartbeatLapse(n) \/ Restart(n) \/ SetDraining(n)
       PROVE  UNCHANGED <<job, pull>>
  BY <1>17, Zenon DEF PushWrite, PushRecord, PushFail, PushTimeout, RollbackPeer, Announce, SweepOrphan,
     RestoreRow, VerifyPlacement, RemovePhantom, DiskLoss, HeartbeatLapse, Restart, SetDraining
<1>18. ASSUME UNCHANGED vars PROVE UNCHANGED <<job, pull>>
  BY <1>18, Zenon DEF vars
<1> QED
  BY <1>1, <1>2, <1>3, <1>4, <1>5, <1>6, <1>7, <1>8, <1>9, <1>10, <1>12, <1>13, <1>14, <1>15, <1>16,
     <1>17, <1>18, Zenon DEF Next

\* The types are inductive.
LEMMA TypeStep == TypeOK /\ [Next]_vars => TypeOK'
BY StoreTypeStep, WorkTypeStep, PlanStep, Zenon DEF TypeOK, StoreType, WorkType, PlanKept

----------------------------------------------------------------------------
(* Before the writer's row *)

\* Who moves the put.
LEMMA PutWriters ==
    ASSUME [Next]_vars
    PROVE  \/ UNCHANGED put \/ PutLocal \/ RecordLocal \/ FanOut \/ PutAck \/ RollbackLocal
           \/ RollbackRows \/ StageSplit \/ \E n \in Nodes : Crash(n)
BY Zenon DEF Next, vars, MarkSplit, DeleteLocal, DeleteRows, DeleteSplitRow, AskTimeout, EndRepair,
   EndDrain, StartRepair, HourPasses, ExpireDeadNodes, PushWrite, PushRecord, PushFail, PushTimeout,
   RollbackPeer, StartDelete, DeletePeer, StartDrain, Ask, Download, RecordPull, Announce, SweepOrphan,
   RestoreRow, VerifyPlacement, RemovePhantom, DiskLoss, HeartbeatLapse, Restart, SetDraining

\* A put that has passed its first write does not go back to it.
LEMMA PutForward ==
    ASSUME TypeOK, [Next]_vars, put' \in {"idle", "local"}
    PROVE  put \in {"idle", "local"} /\ (put' = put \/ PutLocal)
<1>1. ASSUME NEW n \in Nodes, Crash(n) PROVE put' = put
  BY <1>1, ZenonT(30) DEF Crash
<1> QED  BY <1>1, PutWriters, ZenonT(30) DEF PutLocal, RecordLocal, FanOut, PutAck, RollbackLocal, RollbackRows, StageSplit

\* With the object unknown to the tables and to every call, only the writer, the
\* environment and the expiry of other nodes do anything.
LEMMA QuietSteps ==
    ASSUME TypeOK, [Next]_vars, Quiet, split = "none", put \in {"idle", "local"}
    PROVE  \/ UNCHANGED vars \/ PutLocal \/ RecordLocal \/ AskTimeout \/ HourPasses
           \/ \E E \in SUBSET Nodes : ExpireDeadNodes(E)
           \/ \E n \in Nodes : \/ SweepOrphan(n) \/ Crash(n) \/ DiskLoss(n) \/ HeartbeatLapse(n)
                               \/ Restart(n) \/ SetDraining(n)
<1>1. Located = {}
  BY ZenonT(30) DEF Quiet, NoRows, Located
<1>2. ~Known /\ ~Stray /\ ~UnderReplicated
  BY <1>1, ZenonT(30) DEF Known, Stray, UnderReplicated
<1>3. \A n \in Nodes : row[n] = "none"
  BY ZenonT(30) DEF Quiet, NoRows
<1>4. ~FanOut /\ ~PutAck /\ ~RollbackLocal /\ ~RollbackRows /\ ~StageSplit
  BY ZenonT(30) DEF FanOut, PutAck, RollbackLocal, RollbackRows, StageSplit
<1>5. ~DeleteLocal /\ ~DeleteRows /\ ~DeleteSplitRow /\ ~EndRepair /\ ~EndDrain
  BY ZenonT(30) DEF Quiet, DeleteLocal, DeleteRows, DeleteSplitRow, EndRepair, EndDrain
<1>6. ~MarkSplit /\ ~StartRepair
  BY <1>2, ZenonT(30) DEF MarkSplit, StartRepair
<1>7. ASSUME NEW n \in Nodes PROVE ~PushWrite(n) /\ ~PushRecord(n) /\ ~PushFail(n) /\ ~PushTimeout(n)
  BY ZenonT(30) DEF Quiet, PushWrite, PushRecord, PushFail, PushTimeout
<1>8. ASSUME NEW n \in Nodes PROVE ~RollbackPeer(n) /\ ~StartDelete(n) /\ ~DeletePeer(n) /\ ~StartDrain(n) /\ ~Ask(n)
  BY <1>1, <1>2, ZenonT(30) DEF Quiet, RollbackPeer, StartDelete, DeletePeer, StartDrain, Ask
<1>9. ASSUME NEW n \in Nodes PROVE ~Download(n) /\ ~RecordPull(n)
  BY ZenonT(30) DEF Quiet, Download, RecordPull
<1>10. ASSUME NEW n \in Nodes PROVE ~Announce(n) /\ ~RestoreRow(n) /\ ~VerifyPlacement(n) /\ ~RemovePhantom(n)
  BY <1>2, <1>3, ZenonT(30) DEF Quiet, Announce, RestoreRow, VerifyPlacement, RemovePhantom
<1> QED  BY <1>4, <1>5, <1>6, <1>7, <1>8, <1>9, <1>10, Zenon DEF Next

\* What a crash of node n makes of a push: its own handler ends, and the
\* writer's death leaves the others to themselves.
LEMMA CrashedPushes ==
    ASSUME TypeOK, NEW n \in Nodes, Crash(n), NEW m \in Nodes
    PROVE  \/ push'[m] = push[m]
           \/ push[m] \notin {"none", "ok", "err"} /\ m = n /\ push'[m] = "err"
           \/ push[m] = "sent" /\ push'[m] = "lateSent"
           \/ push[m] = "filed" /\ push'[m] = "lateFiled"
BY ZenonT(30) DEF TypeOK, Pushes, Crash

\* Until its row is written the object is only in the writer's file.
LEMMA BeforeStep ==
    ASSUME TypeOK, [Next]_vars, NEW D \in SUBSET Nodes, Before, Order, Crashed(D)
    PROVE  Before'
<1> SUFFICES ASSUME put' \in {"idle", "local"} PROVE Quiet'
  BY Zenon DEF Before
<1>1. put \in {"idle", "local"} /\ (put' = put \/ PutLocal)
  BY PutForward, ZenonT(30)
<1>2. Quiet /\ split = "none"
  BY <1>1, ZenonT(30) DEF Before, Order
<1> USE DEF TypeOK
<1>3. CASE UNCHANGED vars
  BY <1>2, <1>3, Zenon DEF vars, storeVars, Quiet, NoRows
<1>4. CASE PutLocal
  BY <1>2, <1>4, StoreAssumption, ZenonT(30) DEF PutLocal, Quiet, clusterVars, NoRows
<1>5. CASE RecordLocal
  BY <1>5, ZenonT(30) DEF RecordLocal
<1>6. CASE AskTimeout
  BY <1>2, <1>6, ZenonT(30) DEF AskTimeout, Quiet, storeVars, clusterVars, NoRows, JobType
<1>7. CASE HourPasses
  BY <1>1, <1>2, <1>7, ZenonT(30) DEF HourPasses, Quiet, Settled, Older, NoRows, PutLocal
<1>8. ASSUME NEW E \in SUBSET Nodes, ExpireDeadNodes(E) PROVE Quiet'
  BY <1>1, <1>2, <1>8, ZenonT(30) DEF ExpireDeadNodes, Quiet, NoRows
<1>9. ASSUME NEW n \in Nodes, SweepOrphan(n) PROVE Quiet'
  BY <1>1, <1>2, <1>9 DEF SweepOrphan, Quiet, NoRows, SplitRow
<1>10. ASSUME NEW n \in Nodes, Crash(n) PROVE Quiet'
  <2>1. put' = put /\ row' = NoRows /\ file' = file
    BY <1>1, <1>2, <1>10, ZenonT(30) DEF Crash, Quiet, storeVars, PutLocal, NoRows
  <2>2. job'.kind = "idle"
    BY <1>2, <1>10 DEF Crash, Quiet, Idle, JobType
  <2>3. \A m \in Nodes : push'[m] = "none" /\ pull'[m].at = "none" /\ rec'[m] = "idle"
    <3>1. \A m \in Nodes : push'[m] = "none"
      BY <1>2, <1>10, CrashedPushes DEF Quiet
    <3>2. \A m \in Nodes : pull'[m].at = "none" /\ rec'[m] = "idle"
      BY <1>2, <1>10 DEF Crash, Quiet, NoPull
    <3> QED  BY <3>1, <3>2, ZenonT(30)
  <2> QED  BY <1>2, <2>1, <2>2, <2>3, Zenon DEF Quiet, NoRows
<1>11. ASSUME NEW n \in Nodes, DiskLoss(n) PROVE Quiet'
  <2>1. n \in D
    BY <1>11, ZenonT(30) DEF DiskLoss, Crashed, Up
  <2>2. put = "local" => n # Writer
    BY <2>1, ZenonT(30) DEF Crashed
  <2> QED  BY <1>1, <1>2, <1>11, <2>2, ZenonT(30) DEF DiskLoss, Quiet, NoRows, clusterVars
<1>12. ASSUME NEW n \in Nodes, HeartbeatLapse(n) \/ Restart(n) \/ SetDraining(n) PROVE Quiet'
  <2>1. UNCHANGED <<file, row, put, push, job, pull, rec>>
    BY <1>12, Zenon DEF HeartbeatLapse, Restart, SetDraining, storeVars
  <2> QED  BY <1>2, <2>1, Zenon DEF Quiet, NoRows
<1> QED
  BY <1>1, <1>2, <1>3, <1>4, <1>5, <1>6, <1>7, <1>8, <1>9, <1>10, <1>11, <1>12, QuietSteps, Zenon

----------------------------------------------------------------------------
(* While the object has to be kept *)

\* Who changes the split row.
LEMMA SplitWriters ==
    ASSUME [Next]_vars
    PROVE  UNCHANGED split \/ StageSplit \/ MarkSplit \/ DeleteSplitRow
BY Zenon DEF Next, vars, storeVars, PutLocal, RecordLocal, FanOut, PutAck, RollbackLocal, RollbackRows,
   DeleteLocal, DeleteRows, AskTimeout, EndRepair, EndDrain, StartRepair, HourPasses, ExpireDeadNodes,
   PushWrite, PushRecord, PushFail, PushTimeout, RollbackPeer, StartDelete, DeletePeer, StartDrain, Ask,
   Download, RecordPull, Announce, SweepOrphan, RestoreRow, VerifyPlacement, RemovePhantom, Crash,
   DiskLoss, HeartbeatLapse, Restart, SetDraining

\* What may become of the put.
LEMMA PutMoves ==
    ASSUME TypeOK, [Next]_vars
    PROVE  \/ put' = put
           \/ PutLocal /\ put = "idle" /\ put' = "local"
           \/ RecordLocal /\ put = "local" /\ put' \in {"recorded", "failed"}
           \/ FanOut /\ put = "recorded" /\ put' \in {"fanout", "failed"}
           \/ PutAck /\ put = "fanout" /\ put' = "acked"
           \/ StageSplit /\ put = "acked" /\ put' \in {"staged", "failed"}
           \/ put \notin {"idle", "staged"} /\ put' \in {"rollback", "failed"}
<1>1. ASSUME NEW n \in Nodes, Crash(n) PROVE put' = put \/ (put \notin {"idle", "staged"} /\ put' = "failed")
  <2>1. put' = IF n = Writer /\ put \notin {"idle", "staged"} THEN "failed" ELSE put
    BY <1>1, Zenon DEF Crash
  <2> QED  BY <2>1, ZenonT(30)
<1>2. CASE PutLocal
  BY <1>2, Zenon DEF PutLocal
<1>3. CASE RecordLocal
  BY <1>3, Zenon DEF RecordLocal
<1>4. CASE FanOut
  BY <1>4, Zenon DEF FanOut
<1>5. CASE PutAck
  BY <1>5, Zenon DEF PutAck
<1>6. CASE RollbackLocal
  BY <1>6, ZenonT(30) DEF RollbackLocal
<1>7. CASE RollbackRows
  BY <1>7, ZenonT(30) DEF RollbackRows
<1>8. CASE StageSplit
  BY <1>8, Zenon DEF StageSplit
<1> QED  BY <1>1, <1>2, <1>3, <1>4, <1>5, <1>6, <1>7, <1>8, PutWriters, Zenon

\* What may become of the split row.
LEMMA SplitMoves ==
    ASSUME TypeOK, [Next]_vars, Order
    PROVE  \/ split' = split
           \/ StageSplit /\ put' = "staged" /\ split' = "present"
           \/ put = "staged" /\ put' = "staged" /\ split' \in {"marked", "gone"}
<1>1. CASE StageSplit
  BY <1>1, ZenonT(30) DEF StageSplit
<1>2. CASE MarkSplit
  BY <1>2, ZenonT(30) DEF MarkSplit, Order
<1>3. CASE DeleteSplitRow
  BY <1>3, ZenonT(30) DEF DeleteSplitRow, Order
<1> QED  BY <1>1, <1>2, <1>3, SplitWriters, ZenonT(30)

\* The object has to be kept from the writer's row on.
LEMMA Enters ==
    ASSUME TypeOK, [Next]_vars, Order, Active'
    PROVE  Active \/ (RecordLocal /\ put = "local" /\ put' = "recorded" /\ split' = "none")
<1> USE DEF Active, Order
<1>1. CASE split' = "present"
  BY <1>1, SplitMoves, ZenonT(30) DEF StageSplit
<1>2. CASE put' \in {"recorded", "fanout", "acked"}
  <2>1. split' = split
    BY <1>2, SplitMoves, ZenonT(30)
  <2> QED  BY <1>2, <2>1, PutMoves, ZenonT(30)
<1> QED  BY <1>1, <1>2, ZenonT(30)

\* A node outside D has the object for a reader.
LEMMA Present ==
    ASSUME TypeOK, NEW D \in SUBSET Nodes, StoreInv(D), Active
    PROVE  Sources # {}
<1>1. IsFiniteSet(D) /\ Cardinality(D) \in Nat /\ plan.left["crash"] \in Nat /\ Quorum \in Nat
  BY NodesFinite, FS_Subset, FS_CardinalityType, QuorumRange, ZenonT(30) DEF TypeOK, Bounds
<1>2. Cardinality(D) < Quorum
  BY <1>1 DEF StoreInv
<1>3. ASSUME Laid(D) PROVE Sources # {}
  <2>1. Firm(D) # D
    BY <1>1, <1>2, <1>3 DEF Laid
  <2> QED  BY <2>1, ZenonT(30) DEF Firm
<1>4. ASSUME Laying(D), Writer \notin D PROVE Sources # {}
  BY <1>4, ZenonT(30) DEF Laying, Firm
<1> QED  BY <1>3, <1>4, ZenonT(30) DEF StoreInv, Safe, Active, Crashed

\* While it is kept, and will be after the step, nothing deletes it.
LEMMA ActiveSteps ==
    ASSUME TypeOK, [Next]_vars, NEW D \in SUBSET Nodes, StoreInv(D), Active, Active'
    PROVE  \/ UNCHANGED vars \/ FanOut \/ PutAck \/ StageSplit \/ AskTimeout \/ EndRepair
           \/ EndDrain \/ StartRepair \/ HourPasses
           \/ \E E \in SUBSET Nodes : ExpireDeadNodes(E)
           \/ \E n \in Nodes :
                 \/ PushWrite(n) \/ PushRecord(n) \/ PushFail(n) \/ PushTimeout(n)
                 \/ StartDrain(n) \/ Ask(n) \/ Download(n) \/ RecordPull(n)
                 \/ Announce(n) \/ VerifyPlacement(n) \/ RemovePhantom(n)
                 \/ Crash(n) \/ DiskLoss(n) \/ HeartbeatLapse(n) \/ Restart(n) \/ SetDraining(n)
<1>1. Order /\ Known
  BY Present, ZenonT(30) DEF StoreInv, Known, Sources
<1>2. job.kind \in {"idle", "repair", "drain"} /\ \A n \in Nodes : rec[n] # "tracked"
  BY <1>1, ZenonT(30) DEF Order
<1>3. put \in {"recorded", "fanout", "acked", "staged"} /\ (put = "staged" => split = "present")
  BY <1>1, ZenonT(30) DEF Active, Order
<1>4. ~PutLocal /\ ~RecordLocal /\ ~RollbackRows
  BY <1>3, ZenonT(30) DEF PutLocal, RecordLocal, RollbackRows
<1>5. ~RollbackLocal
  BY <1>1, ZenonT(30) DEF RollbackLocal, Active, Order
<1>6. ~MarkSplit
  BY <1>1, ZenonT(30) DEF MarkSplit, Active, Order
<1>7. ~DeleteLocal /\ ~DeleteRows /\ ~DeleteSplitRow
  BY <1>2, ZenonT(30) DEF DeleteLocal, DeleteRows, DeleteSplitRow
<1>8. split # "marked" /\ ~Stray
  <2>1. split # "marked"
    BY <1>1, ZenonT(30) DEF Active, Order
  <2>2. CASE split = "present"
    BY <2>2, ZenonT(30) DEF Stray, SplitRow
  <2>3. CASE split # "present"
    BY <1>1, <2>3, ZenonT(30) DEF Active, Order, Stray, Known, Located
  <2> QED  BY <2>1, <2>2, <2>3, ZenonT(30)
<1>9. ASSUME NEW n \in Nodes PROVE ~RollbackPeer(n) /\ ~StartDelete(n) /\ ~DeletePeer(n) /\ ~SweepOrphan(n) /\ ~RestoreRow(n)
  BY <1>1, <1>2, <1>3, <1>8, ZenonT(30) DEF RollbackPeer, StartDelete, DeletePeer, SweepOrphan, RestoreRow
<1> QED  BY <1>4, <1>5, <1>6, <1>7, <1>9, Zenon DEF Next

\* A row ages only when an hour passes.
LEMMA RowAges ==
    ASSUME TypeOK, [Next]_vars, ~HourPasses, NEW m \in Nodes
    PROVE  row'[m] \in {row[m], "none", "new"}
<1> USE DEF TypeOK
<1>1. ASSUME NEW n \in Nodes, row' = Recorded(n) PROVE row'[m] \in {row[m], "none", "new"}
  BY <1>1, ZenonT(30) DEF Recorded
<1>2. ASSUME NEW n, row' = [row EXCEPT ![n] = "none"] PROVE row'[m] \in {row[m], "none", "new"}
  BY <1>2, ZenonT(30)
<1>3. ASSUME row' = NoRows PROVE row'[m] \in {row[m], "none", "new"}
  BY <1>3, ZenonT(30) DEF NoRows
<1>4. ASSUME NEW n, NEW ok, PeerDelete(n, ok) PROVE row'[m] \in {row[m], "none", "new"}
  BY <1>2, <1>4, Zenon DEF PeerDelete
<1>5. ASSUME NEW E \in SUBSET Nodes, ExpireDeadNodes(E) PROVE row'[m] \in {row[m], "none", "new"}
  BY <1>5, ZenonT(30) DEF ExpireDeadNodes
<1>6. ASSUME EndDrain PROVE row'[m] \in {row[m], "none", "new"}
  BY <1>2, <1>4, <1>6, Zenon DEF EndDrain
<1>7. ASSUME NEW n \in Nodes, RollbackPeer(n) \/ DeletePeer(n) PROVE row'[m] \in {row[m], "none", "new"}
  BY <1>4, <1>7, Zenon DEF RollbackPeer, DeletePeer
<1>8. ASSUME NEW n \in Nodes, \/ PushRecord(n) \/ RecordPull(n) \/ Announce(n) \/ RestoreRow(n)
      PROVE  row'[m] \in {row[m], "none", "new"}
  BY <1>1, <1>8, Zenon DEF PushRecord, RecordPull, Announce, RestoreRow
<1>9. ASSUME NEW n \in Nodes, RemovePhantom(n) PROVE row'[m] \in {row[m], "none", "new"}
  BY <1>2, <1>9, Zenon DEF RemovePhantom
<1>10. ASSUME RecordLocal PROVE row'[m] \in {row[m], "none", "new"}
  BY <1>1, <1>10, StoreAssumption, Zenon DEF RecordLocal
<1>11. ASSUME RollbackRows \/ DeleteRows PROVE row'[m] \in {row[m], "none", "new"}
  BY <1>3, <1>11, Zenon DEF RollbackRows, DeleteRows
<1>12. ASSUME UNCHANGED row PROVE row'[m] \in {row[m], "none", "new"}
  BY <1>12, ZenonT(30)
<1> QED
  BY <1>5, <1>6, <1>7, <1>8, <1>9, <1>10, <1>11, <1>12, Zenon
     DEF Next, vars, storeVars, PutLocal, FanOut, PutAck, RollbackLocal, StageSplit, MarkSplit,
     DeleteLocal, DeleteSplitRow, AskTimeout, EndRepair, StartRepair, PushWrite, PushFail, PushTimeout,
     StartDelete, StartDrain, Ask, Download, SweepOrphan, VerifyPlacement, Crash, DiskLoss,
     HeartbeatLapse, Restart, SetDraining

\* The writer pushes to nobody but others.
LEMMA WriterNotPushed ==
    ASSUME TypeOK, [Next]_vars, push[Writer] = "none"
    PROVE  push'[Writer] = "none"
<1> USE StoreAssumption DEF TypeOK
<1>1. ASSUME NEW n \in Nodes, \/ PushWrite(n) \/ PushRecord(n) \/ PushFail(n) \/ PushTimeout(n) \/ RollbackPeer(n)
      PROVE  push'[Writer] = "none"
  <2>1. n # Writer
    BY <1>1, ZenonT(30) DEF PushWrite, PushRecord, PushFail, PushTimeout, RollbackPeer, Pushed
  <2>2. \E v : push' = [push EXCEPT ![n] = v]
    BY <1>1, Zenon DEF PushWrite, PushRecord, PushFail, PushTimeout, RollbackPeer
  <2> QED  BY <2>1, <2>2, ZenonT(30)
<1>2. ASSUME FanOut PROVE push'[Writer] = "none"
  <2>1. CASE UNCHANGED push
    BY <2>1, ZenonT(30)
  <2>2. CASE \E T \in Targets({Writer}, Factor - 1, FALSE) :
                push' = [n \in Nodes |-> IF n \in T THEN "sent" ELSE "none"]
    <3>1. PICK T \in Targets({Writer}, Factor - 1, FALSE) :
                push' = [n \in Nodes |-> IF n \in T THEN "sent" ELSE "none"]
      BY <2>2, ZenonT(30)
    <3>2. Writer \notin T
      BY Zenon DEF Targets
    <3> QED  BY <3>1, <3>2, ZenonT(30)
  <2> QED  BY <1>2, <2>1, <2>2, Zenon DEF FanOut
<1>3. ASSUME NEW n \in Nodes, Crash(n) PROVE push'[Writer] = "none"
  BY <1>3, CrashedPushes, ZenonT(30)
<1>4. ASSUME UNCHANGED push PROVE push'[Writer] = "none"
  BY <1>4, ZenonT(30)
<1> QED
  BY <1>1, <1>2, <1>3, <1>4, Zenon DEF Next, vars, PutLocal, RecordLocal, PutAck, RollbackLocal,
     RollbackRows, StageSplit, MarkSplit, DeleteLocal, DeleteRows, DeleteSplitRow, AskTimeout, EndRepair,
     EndDrain, StartRepair, HourPasses, ExpireDeadNodes, StartDelete, DeletePeer, StartDrain, Ask,
     Download, RecordPull, Announce, SweepOrphan, RestoreRow, VerifyPlacement, RemovePhantom, DiskLoss,
     HeartbeatLapse, Restart, SetDraining

\* Who starts and ends a job; what a job becomes otherwise keeps its kind.
LEMMA ActiveJob ==
    ASSUME TypeOK, [Next]_vars, NEW D \in SUBSET Nodes, StoreInv(D), Active, Active'
    PROVE  /\ job'.kind \in {"idle", "repair", "drain"}
           /\ \A n \in Nodes : rec'[n] # "tracked"
<1>0. job.kind \in {"idle", "repair", "drain"} /\ \A n \in Nodes : rec[n] # "tracked"
  BY ZenonT(30) DEF StoreInv, Order
<1>1. ASSUME UNCHANGED <<job, rec>> PROVE job'.kind \in {"idle", "repair", "drain"} /\ \A n \in Nodes : rec'[n] # "tracked"
  BY <1>0, <1>1, ZenonT(30)
<1> USE DEF TypeOK, JobType
<1>2. ASSUME AskTimeout \/ EndRepair \/ EndDrain \/ StartRepair
      PROVE  job'.kind \in {"idle", "repair", "drain"} /\ UNCHANGED rec
  <2>1. CASE AskTimeout
    BY <1>0, <2>1, ZenonT(30) DEF AskTimeout
  <2>2. CASE EndRepair \/ EndDrain
    <3>1. job' = Idle /\ UNCHANGED rec
      BY <2>2, Zenon DEF EndRepair, EndDrain
    <3> QED  BY <3>1, ZenonT(30) DEF Idle
  <2>3. CASE StartRepair
    BY <2>3, ZenonT(30) DEF StartRepair, Idle
  <2> QED  BY <1>2, <2>1, <2>2, <2>3, ZenonT(30)
<1>3. ASSUME NEW n \in Nodes, StartDrain(n) \/ Ask(n)
      PROVE  job'.kind \in {"idle", "repair", "drain"} /\ UNCHANGED rec
  BY <1>0, <1>3, ZenonT(30) DEF StartDrain, Ask, Idle
<1>4. ASSUME NEW n \in Nodes, Download(n) \/ RecordPull(n)
      PROVE  job'.kind \in {"idle", "repair", "drain"} /\ UNCHANGED rec
  BY <1>0, <1>4, ZenonT(30) DEF Download, RecordPull, Answer
<1>5. ASSUME NEW n \in Nodes, Crash(n)
      PROVE  job'.kind \in {"idle", "repair", "drain"} /\ \A m \in Nodes : rec'[m] # "tracked"
  <2>1. job' \in {job, Idle, [job EXCEPT !.cur = 0]}
    BY <1>5, Zenon DEF Crash
  <2>2. rec' = [rec EXCEPT ![n] = "idle"]
    BY <1>5, ZenonT(30) DEF Crash
  <2> QED  BY <1>0, <2>1, <2>2 DEF Idle
<1>6. ASSUME NEW n \in Nodes, VerifyPlacement(n) \/ RemovePhantom(n)
      PROVE  UNCHANGED job /\ \A m \in Nodes : rec'[m] # "tracked"
  BY <1>0, <1>6, ZenonT(30) DEF VerifyPlacement, RemovePhantom
<1>7. ASSUME \/ UNCHANGED vars \/ FanOut \/ PutAck \/ StageSplit \/ HourPasses
             \/ \E E \in SUBSET Nodes : ExpireDeadNodes(E)
             \/ \E n \in Nodes : \/ PushWrite(n) \/ PushRecord(n) \/ PushFail(n) \/ PushTimeout(n)
                                 \/ Announce(n) \/ DiskLoss(n) \/ HeartbeatLapse(n) \/ Restart(n)
                                 \/ SetDraining(n)
      PROVE  UNCHANGED <<job, rec>>
  BY <1>7, Zenon DEF vars, FanOut, PutAck, StageSplit, HourPasses, ExpireDeadNodes, PushWrite, PushRecord,
     PushFail, PushTimeout, Announce, DiskLoss, HeartbeatLapse, Restart, SetDraining
<1> QED  BY <1>0, <1>1, <1>2, <1>3, <1>4, <1>5, <1>6, <1>7, ActiveSteps, Zenon

\* Every step keeps the order of the put, the split and the jobs.
LEMMA OrderStep ==
    ASSUME TypeOK, [Next]_vars, NEW D \in SUBSET Nodes, StoreInv(D)
    PROVE  Order'
<1> USE DEF StoreInv
<1>1. put' # "staged" => split' = "none"
  BY PutMoves, SplitMoves, ZenonT(30) DEF Order
<1>2. put' \in {"recorded", "fanout", "acked"} => \A n \in Nodes : row'[n] # "old"
  <2> SUFFICES ASSUME put' \in {"recorded", "fanout", "acked"} PROVE \A n \in Nodes : row'[n] # "old"
    OBVIOUS
  <2>1. put \in {"local", "recorded", "fanout", "acked"}
    BY PutMoves, ZenonT(30)
  <2>2. \A n \in Nodes : row[n] # "old"
    <3>1. CASE put = "local"
      BY <3>1, ZenonT(30) DEF Before, Quiet, NoRows
    <3>2. CASE put # "local"
      BY <2>1, <3>2, ZenonT(30) DEF Order
    <3> QED  BY <3>1, <3>2, ZenonT(30)
  <2>3. ~HourPasses
    BY <2>1, ZenonT(30) DEF HourPasses, Settled
  <2> QED  BY <2>2, <2>3, RowAges, ZenonT(30)
<1>3. push'[Writer] = "none"
  BY WriterNotPushed, ZenonT(30) DEF Order
<1>4. ASSUME Active'
      PROVE  job'.kind \in {"idle", "repair", "drain"} /\ \A n \in Nodes : rec'[n] # "tracked"
  <2>1. CASE Active
    BY <1>4, <2>1, ActiveJob, ZenonT(30)
  <2>2. CASE RecordLocal /\ put = "local"
    <3>1. UNCHANGED <<job, rec>> /\ Quiet
      BY <2>2, ZenonT(30) DEF RecordLocal, Before
    <3> QED  BY <3>1, ZenonT(30) DEF Quiet
  <2> QED  BY <1>4, <2>1, <2>2, Enters, ZenonT(30)
<1> QED  BY <1>1, <1>2, <1>3, <1>4, ZenonT(30) DEF Order

----------------------------------------------------------------------------
(* What a step keeps *)

\* Outside E nothing that was there is lost, and E takes in what D had.
Steady(D, E) ==
    /\ \A n \in Nodes \ E : Sound(n) => Sound(n)'
    /\ Firm(D) \subseteq Firm(E)'
    /\ Laying(D) => Pushed' \subseteq Firm(E)'

\* A drain that goes on has the same counts, and nobody new to ask.
DrainKept ==
    job'.kind = "drain" =>
        /\ job.kind = "drain" /\ job'.off = job.off /\ job'.safe = job.safe
        /\ Open' \subseteq Open /\ job'.cur \notin job'.todo

\* The quorum is a setting.
LEMMA SameQuorum ==
    ASSUME PlanKept
    PROVE  Quorum' = Quorum /\ Factor' = Factor
BY ZenonT(30) DEF PlanKept, Quorum, Factor

\* What a drain has counted stays counted.
LEMMA CountsKept ==
    ASSUME TypeOK, TypeOK', NEW D \in SUBSET Nodes, NEW E \in SUBSET Nodes, D \subseteq E,
           Counts(D), DrainKept, draining \subseteq draining' \cup E, Firm(D) \subseteq Firm(E)'
    PROVE  Counts(E)'
<1> SUFFICES ASSUME job'.kind = "drain"
             PROVE  /\ job'.off \in Nodes /\ job'.off \notin Open' /\ job'.cur \notin job'.todo
                    /\ job'.off \in draining' \cup E
                    /\ job'.safe <= Cardinality((Firm(E)' \ {job'.off}) \ Open')
  BY ZenonT(30) DEF Counts
<1> DEFINE before == (Firm(D) \ {job.off}) \ Open
<1> DEFINE after == (Firm(E)' \ {job'.off}) \ Open'
<1>1. /\ job.kind = "drain" /\ job'.off = job.off /\ job'.safe = job.safe
      /\ Open' \subseteq Open /\ job'.cur \notin job'.todo
  BY ZenonT(30) DEF DrainKept
<1>2. /\ job.off \in Nodes /\ job.off \notin Open /\ job.off \in draining \cup D
      /\ job.safe <= Cardinality(before)
  BY <1>1, ZenonT(30) DEF Counts
<1>3. before \subseteq after
  BY <1>1, ZenonT(30)
<1>4. IsFiniteSet(Firm(E)')
  <2>1. Firm(E)' \subseteq Nodes
    BY ZenonT(30) DEF Firm, Sources, Located
  <2> QED  BY <2>1, NodesFinite, FS_Subset, ZenonT(30)
<1>5. IsFiniteSet(after)
  BY <1>4, FS_Subset, ZenonT(30)
<1>6. Cardinality(before) <= Cardinality(after) /\ Cardinality(before) \in Nat /\ Cardinality(after) \in Nat
  BY <1>3, <1>5, FS_Subset, FS_CardinalityType, ZenonT(30)
<1>7. job.safe \in Nat
  BY ZenonT(30) DEF TypeOK, JobType
<1>8. job.safe <= Cardinality(after)
  BY <1>2, <1>6, <1>7
<1> HIDE DEF before
<1> QED  BY <1>1, <1>2, <1>8, ZenonT(30)

\* A step that keeps the copies keeps the object safe.
LEMMA Carried ==
    ASSUME TypeOK, TypeOK', NEW D \in SUBSET Nodes, NEW E \in SUBSET Nodes, D \subseteq E,
           Safe(D), Active, PlanKept, Steady(D, E), Trusted' \ E \subseteq Trusted, Counts(E)',
           put' \in {"recorded", "fanout"} => put \in {"recorded", "fanout"},
           put' = "acked" \/ split' = "present" => put = "acked" \/ split = "present"
    PROVE  Safe(E)'
<1>1. Trusted' \subseteq Nodes
  BY DEF TypeOK, JobType, Trusted, Open
<1>2. \A n \in Trusted' \ E : Sound(n)'
  BY <1>1, ZenonT(30) DEF Safe, Steady
<1>3. ASSUME Laid(D) PROVE Laid(E)'
  <2>1. Firm(E)' \subseteq Nodes
    BY ZenonT(30) DEF Firm, Sources, Located
  <2>2. IsFiniteSet(Firm(E)')
    BY <2>1, NodesFinite, FS_Subset, ZenonT(30)
  <2>3. Cardinality(Firm(D)) <= Cardinality(Firm(E)') /\ Cardinality(Firm(D)) \in Nat /\ Cardinality(Firm(E)') \in Nat
    BY <2>2, FS_Subset, FS_CardinalityType, ZenonT(30) DEF Steady
  <2>4. Quorum' = Quorum /\ Quorum \in Nat
    BY SameQuorum, QuorumRange, ZenonT(30)
  <2> QED  BY <1>3, <2>3, <2>4 DEF Laid
<1>4. ASSUME Laying(D) PROVE Laying(E)'
  BY <1>4, ZenonT(30) DEF Laying, Steady
<1> QED  BY <1>2, <1>3, <1>4, ZenonT(30) DEF Safe

\* A step that leaves the jobs, the put and the drains alone.
LEMMA CarriedPlain ==
    ASSUME TypeOK, TypeOK', NEW D \in SUBSET Nodes, Safe(D), Active, PlanKept, Steady(D, D),
           UNCHANGED <<put, split, job, draining>>
    PROVE  Safe(D)'
<1>1. Open' = Open /\ Trusted' = Trusted
  BY Zenon DEF Open, Trusted
<1>2. Counts(D)
  BY ZenonT(30) DEF Safe
<1>3. DrainKept
  BY <1>1, <1>2, ZenonT(30) DEF DrainKept, Counts
<1>4. Counts(D)'
  BY <1>2, <1>3, CountsKept, ZenonT(30) DEF Steady
<1> QED  BY <1>1, <1>4, Carried, ZenonT(30)

\* At most node n is touched.
Elsewhere(n) ==
    \A m \in Nodes \ {n} :
        /\ file'[m] = file[m] /\ row'[m] = row[m] /\ rec'[m] = rec[m]
        /\ push'[m] = push[m] /\ pull'[m] = pull[m]

\* A handler on one node (Elsewhere) is steady when that node is.
LEMMA SteadyAt ==
    ASSUME NEW D \in SUBSET Nodes, NEW n \in Nodes, Elsewhere(n),
           n \notin D /\ Sound(n) => Sound(n)',
           n \in Firm(D) => n \in Firm(D)',
           Laying(D) /\ push'[n] = "ok" => n \in Firm(D)'
    PROVE  Steady(D, D)
<1>1. ASSUME NEW m \in Nodes \ D, Sound(m) PROVE Sound(m)'
  <2>1. CASE m = n
    BY <1>1, <2>1, ZenonT(30)
  <2>2. CASE m # n
    BY <1>1, <2>2, ZenonT(30) DEF Elsewhere, Sound
  <2> QED  BY <2>1, <2>2, ZenonT(30)
<1>2. ASSUME NEW m \in Firm(D) PROVE m \in Firm(D)'
  <2>1. CASE m = n
    BY <1>2, <2>1, ZenonT(30)
  <2>2. CASE m # n
    BY <1>2, <2>2, ZenonT(30) DEF Elsewhere, Firm, Sources, Located
  <2> QED  BY <2>1, <2>2, ZenonT(30)
<1>3. ASSUME Laying(D), NEW m \in Pushed' PROVE m \in Firm(D)'
  <2>1. CASE m = n
    BY <1>3, <2>1, ZenonT(30) DEF Pushed
  <2>2. CASE m # n
    BY <1>2, <1>3, <2>2, ZenonT(30) DEF Elsewhere, Laying, Pushed
  <2> QED  BY <2>1, <2>2, ZenonT(30)
<1> QED  BY <1>1, <1>2, <1>3, Zenon DEF Steady

----------------------------------------------------------------------------
(* Steps of one node *)

\* A push keeps the copies: the receiver's row comes after its file, and only a
\* row that was written is counted as pushed.
LEMMA SafePush ==
    ASSUME TypeOK, TypeOK', PlanKept, NEW D \in SUBSET Nodes, StoreInv(D), Active, NEW n \in Nodes,
           PushWrite(n) \/ PushRecord(n) \/ PushFail(n) \/ PushTimeout(n)
    PROVE  Safe(D)'
<1> USE DEF TypeOK
<1>1. UNCHANGED <<put, split, job, draining>> /\ Safe(D)
  BY Zenon DEF PushWrite, PushRecord, PushFail, PushTimeout, clusterVars, storeVars, StoreInv
<1>2. CASE PushWrite(n)
  <2>1. file'[n] = "new" /\ push'[n] # "ok" /\ UNCHANGED <<row, rec, pull>>
    BY <1>2, ZenonT(30) DEF PushWrite
  <2>2. Elsewhere(n)
    BY <1>2, ZenonT(30) DEF PushWrite, Elsewhere
  <2>3. Sound(n) => Sound(n)'
    BY <2>1, ZenonT(30) DEF Sound
  <2>4. n \in Firm(D) => n \in Firm(D)'
    BY <2>1, ZenonT(30) DEF Firm, Sources, Located
  <2>5. Steady(D, D)
    BY <2>1, <2>2, <2>3, <2>4, SteadyAt, ZenonT(30)
  <2> QED  BY <1>1, <2>5, CarriedPlain, ZenonT(30)
<1>3. CASE PushRecord(n)
  <2>1. /\ push'[n] = "ok" \/ row[n] # "none" => row'[n] # "none"
        /\ push[n] \in {"filed", "lateFiled"} /\ push'[n] \in {"ok", "err"}
        /\ UNCHANGED <<file, rec, pull>>
    <3>1. CASE row' = Recorded(n)
      BY <1>3, <3>1 DEF PushRecord, Recorded
    <3>2. CASE UNCHANGED row /\ push' = [push EXCEPT ![n] = "err"]
      BY <1>3, <3>2, ZenonT(30) DEF PushRecord
    <3> QED  BY <1>3, <3>1, <3>2, Zenon DEF PushRecord
  <2>2. Elsewhere(n)
    BY <1>3 DEF PushRecord, Recorded, Elsewhere
  <2>3. Sound(n) => Sound(n)'
    BY <2>1, ZenonT(30) DEF Sound
  <2>4. n \in Firm(D) => n \in Firm(D)'
    BY <2>1, ZenonT(30) DEF Firm, Sources, Located
  <2>5. ASSUME Laying(D), push'[n] = "ok" PROVE n \in Firm(D)'
    <3>1. CASE n \in D
      BY <3>1, ZenonT(30) DEF Firm
    <3>2. CASE n \notin D
      BY <2>1, <2>5, <3>2, ZenonT(30) DEF Laying, Sound, Firm, Sources, Located
    <3> QED  BY <3>1, <3>2, ZenonT(30)
  <2>6. Steady(D, D)
    BY <2>2, <2>3, <2>4, <2>5, SteadyAt, ZenonT(30)
  <2> QED  BY <1>1, <2>6, CarriedPlain, ZenonT(30)
<1>4. CASE PushFail(n) \/ PushTimeout(n)
  <2>1. /\ UNCHANGED <<file, row, rec, pull>> /\ push'[n] # "ok"
        /\ push'[n] \in {"filed", "lateFiled"} => push[n] \in {"filed", "lateFiled"}
    BY <1>4 DEF PushFail, PushTimeout, storeVars
  <2>2. Elsewhere(n)
    BY <1>4, ZenonT(30) DEF PushFail, PushTimeout, storeVars, Elsewhere
  <2>3. Sound(n) => Sound(n)'
    BY <2>1, ZenonT(30) DEF Sound
  <2>4. n \in Firm(D) => n \in Firm(D)'
    BY <2>1, ZenonT(30) DEF Firm, Sources, Located
  <2>5. Steady(D, D)
    BY <2>1, <2>2, <2>3, <2>4, SteadyAt, ZenonT(30)
  <2> QED  BY <1>1, <2>5, CarriedPlain, ZenonT(30)
<1> QED  BY <1>2, <1>3, <1>4, ZenonT(30)

\* A reconcile pass adds rows of files, and removes rows without one.
LEMMA SafeReconcile ==
    ASSUME TypeOK, TypeOK', PlanKept, NEW D \in SUBSET Nodes, StoreInv(D), Active, NEW n \in Nodes,
           Announce(n) \/ VerifyPlacement(n) \/ RemovePhantom(n)
    PROVE  Safe(D)'
<1> USE DEF TypeOK
<1>1. UNCHANGED <<put, split, job, draining, push>> /\ Safe(D)
  BY Zenon DEF Announce, VerifyPlacement, RemovePhantom, clusterVars, storeVars, StoreInv
<1>2. CASE Announce(n)
  <2>1. row'[n] # "none" /\ file[n] # "none" /\ UNCHANGED <<file, rec, pull>>
    BY <1>2, ZenonT(30) DEF Announce, Recorded
  <2>2. Elsewhere(n)
    BY <1>2, ZenonT(30) DEF Announce, Recorded, Elsewhere
  <2>3. Sound(n) => Sound(n)'
    BY <1>1, <2>1, ZenonT(30) DEF Sound
  <2>4. n \in Firm(D) => n \in Firm(D)'
    BY <2>1, ZenonT(30) DEF Firm, Sources, Located
  <2>5. Laying(D) /\ push'[n] = "ok" => n \in Firm(D)'
    BY <1>1, <2>4, ZenonT(30) DEF Laying, Pushed
  <2>6. Steady(D, D)
    BY <2>2, <2>3, <2>4, <2>5, SteadyAt, ZenonT(30)
  <2> QED  BY <1>1, <2>6, CarriedPlain, ZenonT(30)
<1>3. CASE VerifyPlacement(n)
  <2>1. row[n] = "old" /\ file[n] = "none" /\ UNCHANGED <<file, row, pull>>
    BY <1>3, ZenonT(30) DEF VerifyPlacement, storeVars
  <2>2. Elsewhere(n)
    BY <1>3, ZenonT(30) DEF VerifyPlacement, storeVars, Elsewhere
  <2>3. ~Sound(n)
    BY <2>1, ZenonT(30) DEF Sound
  <2>4. n \in Firm(D) => n \in Firm(D)'
    BY <2>1, ZenonT(30) DEF Firm, Sources, Located
  <2>5. Laying(D) /\ push'[n] = "ok" => n \in Firm(D)'
    BY <1>1, <2>4, ZenonT(30) DEF Laying, Pushed
  <2>6. Steady(D, D)
    BY <2>2, <2>3, <2>4, <2>5, SteadyAt, ZenonT(30)
  <2> QED  BY <1>1, <2>6, CarriedPlain, ZenonT(30)
<1>4. CASE RemovePhantom(n)
  <2>1. rec[n] = "phantom"
    BY <1>4, ZenonT(30) DEF RemovePhantom
  <2>2. Elsewhere(n)
    BY <1>4, ZenonT(30) DEF RemovePhantom, Elsewhere
  <2>3. ~Sound(n)
    BY <2>1, ZenonT(30) DEF Sound
  <2>4. n \in Firm(D) => n \in Firm(D)'
    BY <2>1, ZenonT(30) DEF Firm
  <2>5. Laying(D) /\ push'[n] = "ok" => n \in Firm(D)'
    BY <1>1, <2>4, ZenonT(30) DEF Laying, Pushed
  <2>6. Steady(D, D)
    BY <2>2, <2>3, <2>4, <2>5, SteadyAt, ZenonT(30)
  <2> QED  BY <1>1, <2>6, CarriedPlain, ZenonT(30)
<1> QED  BY <1>2, <1>3, <1>4, ZenonT(30)

----------------------------------------------------------------------------
(* The environment *)

\* A lost disk was the disk of a crashed node.
LEMMA SafeDiskLoss ==
    ASSUME TypeOK, TypeOK', PlanKept, NEW D \in SUBSET Nodes, StoreInv(D), Active, NEW n \in Nodes, DiskLoss(n)
    PROVE  Safe(D)'
<1> USE DEF TypeOK
<1>1. UNCHANGED <<put, split, job, draining, push>> /\ Safe(D)
  BY Zenon DEF DiskLoss, clusterVars, StoreInv
<1>2. n \in D
  BY ZenonT(30) DEF DiskLoss, StoreInv, Crashed, Up
<1>3. Elsewhere(n)
  BY ZenonT(30) DEF DiskLoss, Elsewhere
<1>4. n \in Firm(D)'
  BY <1>2, ZenonT(30) DEF Firm
<1>5. Steady(D, D)
  BY <1>2, <1>3, <1>4, SteadyAt, ZenonT(30)
<1> QED  BY <1>1, <1>5, CarriedPlain, ZenonT(30)

\* Time changes ages, not what is there.
LEMMA SafeHour ==
    ASSUME TypeOK, TypeOK', PlanKept, NEW D \in SUBSET Nodes, StoreInv(D), Active, HourPasses
    PROVE  Safe(D)'
<1> USE DEF TypeOK
<1>1. UNCHANGED <<put, split, job, draining, push, pull, rec>> /\ Safe(D)
  BY Zenon DEF HourPasses, clusterVars, StoreInv
<1>2. \A n \in Nodes : (file'[n] = "none" <=> file[n] = "none") /\ (row'[n] = "none" <=> row[n] = "none")
  BY ZenonT(30) DEF HourPasses, Older
<1>3. \A n \in Nodes : Sound(n) => Sound(n)'
  BY <1>1, <1>2, ZenonT(30) DEF Sound
<1>4. Firm(D) \subseteq Firm(D)'
  BY <1>1, <1>2, ZenonT(30) DEF Firm, Sources, Located
<1>5. Steady(D, D)
  BY <1>1, <1>3, <1>4, ZenonT(30) DEF Steady, Laying, Pushed
<1> QED  BY <1>1, <1>5, CarriedPlain, ZenonT(30)

\* A step that leaves files, rows, calls and passes alone is steady.
LEMMA SteadyStill ==
    ASSUME NEW D \in SUBSET Nodes, UNCHANGED <<file, row, push, pull, rec>>
    PROVE  Steady(D, D)
<1>1. \A n \in Nodes : Sound(n) => Sound(n)'
  BY Zenon DEF Sound
<1>2. Firm(D)' = Firm(D) /\ Pushed' = Pushed
  BY Zenon DEF Firm, Sources, Located, Pushed
<1> QED  BY <1>1, <1>2, ZenonT(30) DEF Steady, Laying

\* A heartbeat, its lapse and a drain request touch no copy (nodes.rs).
LEMMA SafeNode ==
    ASSUME TypeOK, TypeOK', PlanKept, NEW D \in SUBSET Nodes, StoreInv(D), Active, NEW n \in Nodes,
           HeartbeatLapse(n) \/ Restart(n) \/ SetDraining(n)
    PROVE  Safe(D)'
<1>0. ~Spend("clear")
  BY DEF Spend, StoreInv
<1>1. UNCHANGED <<file, row, push, pull, rec, put, split, job>> /\ draining \subseteq draining'
  BY <1>0, ZenonT(30) DEF HeartbeatLapse, Restart, SetDraining, storeVars
<1>2. Steady(D, D)
  BY <1>1, SteadyStill, ZenonT(30)
<1>3. Open' = Open
  BY <1>1, Zenon DEF Open
<1>4. Trusted' \subseteq Trusted
  BY <1>1, <1>3, ZenonT(30) DEF Trusted
<1>5. Safe(D) /\ Counts(D)
  BY ZenonT(30) DEF StoreInv, Safe
<1>6. DrainKept
  BY <1>1, <1>3, <1>5, ZenonT(30) DEF DrainKept, Counts
<1>7. Counts(D)'
  BY <1>1, <1>2, <1>5, <1>6, CountsKept, ZenonT(30) DEF Steady
<1> QED  BY <1>1, <1>2, <1>4, <1>5, <1>7, Carried, ZenonT(30)

\* Expired nodes had crashed.
LEMMA SafeExpire ==
    ASSUME TypeOK, TypeOK', PlanKept, NEW D \in SUBSET Nodes, StoreInv(D), Active,
           NEW E \in SUBSET Nodes, ExpireDeadNodes(E)
    PROVE  Safe(D)'
<1> USE DEF TypeOK
<1>1. UNCHANGED <<file, push, pull, rec, put, split, job>> /\ draining' = draining \ E /\ job = Idle
  BY ZenonT(30) DEF ExpireDeadNodes, Leading
<1>2. E \subseteq D
  BY ZenonT(30) DEF ExpireDeadNodes, StoreInv, Crashed
<1>3. \A n \in Nodes \ D : row'[n] = row[n]
  BY <1>2, ZenonT(30) DEF ExpireDeadNodes
<1>4. \A n \in Nodes \ D : Sound(n) => Sound(n)'
  BY <1>1, <1>3, ZenonT(30) DEF Sound
<1>5. Firm(D) \subseteq Firm(D)'
  BY <1>1, <1>3, ZenonT(30) DEF Firm, Sources, Located
<1>6. Steady(D, D)
  BY <1>1, <1>4, <1>5, ZenonT(30) DEF Steady, Laying, Pushed
<1>7. Open = {} /\ Open' = {}
  BY <1>1, ZenonT(30) DEF Open, Idle
<1>8. Trusted' \ D \subseteq Trusted
  BY <1>1, <1>2, <1>7, ZenonT(30) DEF Trusted
<1>9. Counts(D)'
  BY <1>1, ZenonT(30) DEF Counts, Idle
<1> QED  BY <1>1, <1>6, <1>8, <1>9, Carried, ZenonT(30) DEF StoreInv

\* A crashed node joins D.
LEMMA SafeCrash ==
    ASSUME TypeOK, TypeOK', PlanKept, NEW D \in SUBSET Nodes, StoreInv(D), Active, Active', NEW n \in Nodes, Crash(n)
    PROVE  Safe(D \cup {n})'
<1> USE DEF TypeOK
<1> DEFINE E == D \cup {n}
<1>1. UNCHANGED <<file, row, split, draining>>
  BY Zenon DEF Crash, storeVars
<1>2. put' = put
  <2>1. put' = IF n = Writer /\ put \notin {"idle", "staged"} THEN "failed" ELSE put
    BY Zenon DEF Crash
  <2>2. CASE put' # put
    BY <1>1, <2>1, <2>2, ZenonT(30) DEF Active, StoreInv, Order
  <2> QED  BY <2>2, ZenonT(30)
<1>3. \A m \in Nodes \ {n} : /\ rec'[m] = rec[m] /\ pull'[m] = pull[m]
                             /\ push'[m] \in {"filed", "lateFiled"} => push[m] \in {"filed", "lateFiled"}
  <2> SUFFICES ASSUME NEW m \in Nodes \ {n}
               PROVE  /\ rec'[m] = rec[m] /\ pull'[m] = pull[m]
                      /\ push'[m] \in {"filed", "lateFiled"} => push[m] \in {"filed", "lateFiled"}
    OBVIOUS
  <2>1. rec'[m] = rec[m] /\ pull'[m] = pull[m]
    BY ZenonT(30) DEF Crash
  <2>2. \/ push'[m] = push[m] \/ push'[m] = "lateSent"
        \/ push[m] = "filed"
    BY CrashedPushes, ZenonT(30)
  <2> QED  BY <2>1, <2>2, ZenonT(30)
<1>4. Pushed' \subseteq Pushed
  BY CrashedPushes, ZenonT(30) DEF Pushed
<1>5. \A m \in Nodes \ E : Sound(m) => Sound(m)'
  BY <1>1, <1>3, ZenonT(30) DEF Sound
<1>6. Firm(D) \subseteq Firm(E)'
  BY <1>1, <1>3, ZenonT(30) DEF Firm, Sources, Located
<1>7. Steady(D, E)
  BY <1>4, <1>5, <1>6, Zenon DEF Steady, Laying
<1>8. Counts(D) /\ Safe(D)
  BY ZenonT(30) DEF StoreInv, Safe
<1>9. job' \in {job, Idle, [job EXCEPT !.cur = 0]}
  BY Zenon DEF Crash
<1>10. DrainKept /\ Open' \subseteq Open
  <2>1. CASE job' = job
    BY <1>8, <2>1, ZenonT(30) DEF DrainKept, Open, Counts
  <2>2. CASE job' = Idle
    BY <2>2, ZenonT(30) DEF DrainKept, Open, Idle
  <2>3. CASE job' = [job EXCEPT !.cur = 0]
    BY <2>3, NodesFinite, ZenonT(30) DEF DrainKept, Open, JobType
  <2> QED  BY <1>9, <2>1, <2>2, <2>3, ZenonT(30)
<1>11. Counts(E)'
  BY <1>1, <1>6, <1>8, <1>10, CountsKept, ZenonT(30)
<1>12. Trusted' \ E \subseteq Trusted
  BY <1>1, <1>10, ZenonT(30) DEF Trusted
<1> QED  BY <1>1, <1>2, <1>7, <1>8, <1>11, <1>12, Carried, ZenonT(30)

----------------------------------------------------------------------------
(* The put *)

\* The writer's row is the first copy.
LEMMA SafeRecordLocal ==
    ASSUME TypeOK, TypeOK', NEW D \in SUBSET Nodes, StoreInv(D), RecordLocal,
           put = "local", put' = "recorded", split' = "none"
    PROVE  Safe(D)'
<1> USE DEF TypeOK
<1>1. Quiet
  BY ZenonT(30) DEF StoreInv, Before
<1>2. row' = Recorded(Writer) /\ UNCHANGED <<file, push, pull, rec, job>>
  BY ZenonT(30) DEF RecordLocal
<1>3. Writer \in Nodes /\ file[Writer] = "new" /\ row'[Writer] = "new"
  BY <1>1, <1>2, StoreAssumption, ZenonT(30) DEF Quiet, Recorded, NoRows
<1>4. \A n \in Nodes \ {Writer} : row'[n] = "none"
  BY <1>1, <1>2, ZenonT(30) DEF Quiet, Recorded, NoRows
<1>5. \A n \in Nodes : Sound(n)'
  BY <1>1, <1>2, <1>3, <1>4, ZenonT(30) DEF Quiet, Sound
<1>6. Writer \in Firm(D)' /\ Pushed' = {}
  BY <1>1, <1>2, <1>3 DEF Quiet, Firm, Sources, Located, Pushed
<1>7. Laying(D)'
  BY <1>5, <1>6, ZenonT(30) DEF Laying
<1>8. job'.kind = "idle"
  BY <1>1, <1>2, ZenonT(30) DEF Quiet
<1>9. Counts(D)' /\ Trusted' \subseteq Nodes
  BY <1>8, ZenonT(30) DEF Counts, Trusted, Open
<1> QED  BY <1>5, <1>7, <1>9, ZenonT(30) DEF Safe

\* The fan-out begins with no copy pushed.
LEMMA SafeFanOut ==
    ASSUME TypeOK, TypeOK', PlanKept, NEW D \in SUBSET Nodes, StoreInv(D), Active, Active', FanOut
    PROVE  Safe(D)'
<1> USE DEF TypeOK
<1>1. UNCHANGED <<file, row, pull, rec, job, split, draining>> /\ put = "recorded" /\ Safe(D)
  BY Zenon DEF FanOut, storeVars, clusterVars, StoreInv
<1>2. put' = "fanout"
  <2>1. split = "none"
    BY <1>1, ZenonT(30) DEF StoreInv, Order
  <2> QED  BY <1>1, <2>1, ZenonT(30) DEF FanOut, Active
<1>3. PICK T : push' = [n \in Nodes |-> IF n \in T THEN "sent" ELSE "none"]
  BY <1>2, ZenonT(30) DEF FanOut
<1>4. Pushed' = {} /\ \A n \in Nodes : push'[n] \notin {"filed", "lateFiled"}
  BY <1>3, ZenonT(30) DEF Pushed
<1>5. \A n \in Nodes : Sound(n) => Sound(n)'
  BY <1>1, <1>4, ZenonT(30) DEF Sound
<1>6. Firm(D)' = Firm(D)
  BY <1>1, Zenon DEF Firm, Sources, Located
<1>7. Steady(D, D)
  BY <1>4, <1>5, <1>6, ZenonT(30) DEF Steady
<1>8. Open' = Open /\ Trusted' = Trusted
  BY <1>1, Zenon DEF Open, Trusted
<1>9. Counts(D)
  BY <1>1, ZenonT(30) DEF Safe
<1>10. DrainKept
  BY <1>1, <1>8, <1>9, ZenonT(30) DEF DrainKept, Counts
<1>11. Counts(D)'
  BY <1>1, <1>6, <1>9, <1>10, CountsKept, ZenonT(30)
<1>12. put' \in {"recorded", "fanout"} => put \in {"recorded", "fanout"}
  BY <1>1, ZenonT(30)
<1>13. put' = "acked" \/ split' = "present" => put = "acked" \/ split = "present"
  BY <1>1, <1>2, ZenonT(30)
<1> QED  BY <1>1, <1>7, <1>8, <1>11, <1>12, <1>13, Carried, ZenonT(30)

\* What counts towards the quorum is laid.
LEMMA Acknowledged ==
    ASSUME TypeOK, NEW D \in SUBSET Nodes, StoreInv(D), Laying(D) \/ Laid(D), QuorumMet
    PROVE  Laid(D)
<1>1. SUFFICES ASSUME Laying(D) PROVE Laid(D)
  OBVIOUS
<1>2. Firm(D) \subseteq Nodes /\ IsFiniteSet(Nodes)
  BY NodesFinite, ZenonT(30) DEF Firm, Sources, Located
<1>3. IsFiniteSet(Firm(D)) /\ Pushed \cup {Writer} \subseteq Firm(D)
  BY <1>1, <1>2, FS_Subset, ZenonT(30) DEF Laying
<1>4. IsFiniteSet(Pushed)
  BY <1>3, FS_Subset, ZenonT(30)
<1>5. Writer \notin Pushed
  BY ZenonT(30) DEF StoreInv, Order, Pushed
<1>6. Cardinality(Pushed \cup {Writer}) = Cardinality(Pushed) + 1 /\ Cardinality(Pushed) \in Nat
  BY <1>4, <1>5, FS_AddElement, FS_CardinalityType, ZenonT(30)
<1>7. Cardinality(Pushed \cup {Writer}) <= Cardinality(Firm(D)) /\ Cardinality(Firm(D)) \in Nat
  BY <1>3, FS_Subset, FS_CardinalityType, ZenonT(30)
<1> QED  BY <1>6, <1>7, QuorumRange DEF QuorumMet, Laid

\* The acknowledgement and the split row come after the quorum.
LEMMA SafeAck ==
    ASSUME TypeOK, TypeOK', PlanKept, NEW D \in SUBSET Nodes, StoreInv(D), Active, Active', PutAck \/ StageSplit
    PROVE  Safe(D)'
<1>1. UNCHANGED <<file, row, push, pull, rec, job, draining>> /\ Safe(D)
  BY Zenon DEF PutAck, StageSplit, storeVars, clusterVars, StoreInv
<1>2. Steady(D, D)
  BY <1>1, SteadyStill, ZenonT(30)
<1>3. Open' = Open /\ Trusted' = Trusted
  BY <1>1, Zenon DEF Open, Trusted
<1>4. Counts(D)
  BY <1>1, ZenonT(30) DEF Safe
<1>5. DrainKept
  BY <1>1, <1>3, <1>4, ZenonT(30) DEF DrainKept, Counts
<1>6. Counts(D)'
  BY <1>1, <1>2, <1>4, <1>5, CountsKept, ZenonT(30) DEF Steady
<1>7. Laid(D)
  <2>1. CASE PutAck
    BY <1>1, <2>1, Acknowledged, ZenonT(30) DEF PutAck, Safe
  <2>2. CASE StageSplit
    BY <1>1, <2>2, ZenonT(30) DEF StageSplit, Safe
  <2> QED  BY <2>1, <2>2, ZenonT(30)
<1>8. Laid(D)'
  BY <1>1, <1>7, SameQuorum, ZenonT(30) DEF Laid, Firm, Sources, Located
<1>9. put' \notin {"recorded", "fanout"}
  BY ZenonT(30) DEF PutAck, StageSplit
<1>10. \A n \in Trusted' \ D : Sound(n)'
  <2>1. Trusted \subseteq Nodes
    BY DEF TypeOK, JobType, Trusted, Open
  <2> QED  BY <1>1, <1>2, <1>3, <2>1, ZenonT(30) DEF Safe, Steady
<1> QED  BY <1>6, <1>8, <1>9, <1>10, ZenonT(30) DEF Safe

----------------------------------------------------------------------------
(* Repair and drain *)

\* A step of a job that asks nobody new and counts nothing.
LEMMA CarriedJob ==
    ASSUME TypeOK, TypeOK', PlanKept, NEW D \in SUBSET Nodes, Safe(D), Active, Steady(D, D),
           UNCHANGED <<put, split, draining>>, DrainKept, Open' \subseteq Open
    PROVE  Safe(D)'
<1>1. Counts(D)
  BY ZenonT(30) DEF Safe
<1>2. Counts(D)'
  BY <1>1, CountsKept, ZenonT(30) DEF Steady
<1>3. Trusted' \subseteq Trusted
  BY ZenonT(30) DEF Trusted
<1> QED  BY <1>2, <1>3, Carried, ZenonT(30)

\* Starting and ending a repair, asking for a copy and giving up on one keep the
\* copies.
LEMMA SafeJob ==
    ASSUME TypeOK, TypeOK', PlanKept, NEW D \in SUBSET Nodes, StoreInv(D), Active,
           StartRepair \/ EndRepair \/ AskTimeout
    PROVE  Safe(D)'
<1>1. UNCHANGED <<file, row, push, pull, rec, put, split, draining>> /\ Safe(D)
  BY Zenon DEF StartRepair, EndRepair, AskTimeout, storeVars, clusterVars, StoreInv
<1>2. Steady(D, D)
  BY <1>1, SteadyStill, ZenonT(30)
<1>3. DrainKept /\ Open' \subseteq Open
  <2>1. CASE StartRepair
    BY <2>1, ZenonT(30) DEF StartRepair, DrainKept, Open, Idle
  <2>2. CASE EndRepair
    BY <2>2, ZenonT(30) DEF EndRepair, DrainKept, Open, Idle
  <2>3. CASE AskTimeout
    BY <2>3, NodesFinite, ZenonT(30) DEF AskTimeout, DrainKept, Open, TypeOK, JobType
  <2> QED  BY <2>1, <2>2, <2>3, ZenonT(30)
<1> QED  BY <1>1, <1>2, <1>3, CarriedJob, ZenonT(30)

\* The node asked leaves the list, and is waited for.
LEMMA SafeAsk ==
    ASSUME TypeOK, TypeOK', PlanKept, NEW D \in SUBSET Nodes, StoreInv(D), Active, NEW n \in Nodes, Ask(n)
    PROVE  Safe(D)'
<1> USE DEF TypeOK, JobType
<1>1. UNCHANGED <<file, row, push, rec, put, split, draining>> /\ Safe(D)
  BY Zenon DEF Ask, storeVars, clusterVars, StoreInv
<1>2. Elsewhere(n) /\ pull'[n].at = "asked"
  BY DEF Ask, Elsewhere, storeVars
<1>3. Sound(n) => Sound(n)'
  BY <1>1, <1>2, ZenonT(30) DEF Sound
<1>4. Firm(D)' = Firm(D)
  BY <1>1, Zenon DEF Firm, Sources, Located
<1>5. Laying(D) /\ push'[n] = "ok" => n \in Firm(D)'
  BY <1>1, <1>4 DEF Laying, Pushed
<1>6. Steady(D, D)
  BY <1>2, <1>3, <1>4, <1>5, SteadyAt, ZenonT(30)
<1>7. job' = [job EXCEPT !.cur = n, !.todo = job.todo \ {n}] /\ job.cur = 0 /\ n \in job.todo
  BY ZenonT(30) DEF Ask
<1>8. DrainKept /\ Open' \subseteq Open
  BY <1>7, NodesFinite DEF DrainKept, Open
<1> QED  BY <1>1, <1>6, <1>8, CarriedJob, ZenonT(30)

\* What an answer makes of a job.
LEMMA Answered ==
    ASSUME TypeOK, NEW n \in Nodes, NEW ok \in BOOLEAN, Answer(n, ok)
    PROVE  \/ job' = job
           \/ /\ job.cur = n /\ job'.kind = job.kind /\ job'.todo = job.todo /\ job'.cur = 0
              /\ job'.off = job.off /\ job'.safe = IF ok THEN job.safe + 1 ELSE job.safe
<1> DEFINE safe == IF ok THEN job.safe + 1 ELSE job.safe
<1>1. job' = job \/ (job.cur = n /\ job' = [job EXCEPT !.cur = 0, !.safe = safe])
  BY Zenon DEF Answer
<1> HIDE DEF safe
<1>2. CASE job.cur = n /\ job' = [job EXCEPT !.cur = 0, !.safe = safe]
  <2>1. /\ job'.kind = job.kind /\ job'.todo = job.todo /\ job'.cur = 0
        /\ job'.off = job.off /\ job'.safe = safe
    BY <1>2, ZenonT(30) DEF TypeOK, JobType
  <2> QED  BY <1>2, <2>1, Zenon DEF safe
<1> QED  BY <1>1, <1>2, ZenonT(30)

\* An answer that the copy was not made keeps the counts.
LEMMA Refusal ==
    ASSUME TypeOK, TypeOK', NEW D \in SUBSET Nodes, Counts(D), NEW n \in Nodes, job' = job \/ Answer(n, FALSE)
    PROVE  DrainKept /\ Open' \subseteq Open
<1>1. CASE job' = job
  BY <1>1, ZenonT(30) DEF DrainKept, Open, Counts
<1>2. CASE /\ job.cur = n /\ job'.kind = job.kind /\ job'.todo = job.todo /\ job'.cur = 0
           /\ job'.off = job.off /\ job'.safe = job.safe
  BY <1>2, NodesFinite, ZenonT(30) DEF DrainKept, Open, TypeOK, JobType
<1>3. Answer(n, FALSE) => (job' = job \/ (/\ job.cur = n /\ job'.kind = job.kind /\ job'.todo = job.todo
                                          /\ job'.cur = 0 /\ job'.off = job.off /\ job'.safe = job.safe))
  BY Answered, ZenonT(30)
<1> QED  BY <1>1, <1>2, <1>3, Zenon

\* A download adds a file, or ends a request.
LEMMA SafeDownload ==
    ASSUME TypeOK, TypeOK', PlanKept, NEW D \in SUBSET Nodes, StoreInv(D), Active, NEW n \in Nodes, Download(n)
    PROVE  Safe(D)'
<1> USE DEF TypeOK
<1>1. UNCHANGED <<row, push, rec, put, split, draining>> /\ Safe(D) /\ Counts(D)
  BY ZenonT(30) DEF Download, clusterVars, StoreInv, Safe
<1>2. /\ file' = [file EXCEPT ![n] = "new"] \/ (file' = file /\ pull' = [pull EXCEPT ![n] = NoPull])
      /\ Elsewhere(n)
  <2>1. \/ file' = [file EXCEPT ![n] = "new"] /\ pull' = [pull EXCEPT ![n].at = "filed"]
        \/ file' = file /\ pull' = [pull EXCEPT ![n] = NoPull]
    BY Zenon DEF Download
  <2> QED  BY <1>1, <2>1 DEF Elsewhere
<1>3. file'[n] # "none" \/ (file'[n] = file[n] /\ pull'[n].at = "none")
  BY <1>2 DEF NoPull
<1>4. Sound(n) => Sound(n)'
  BY <1>1, <1>3, ZenonT(30) DEF Sound
<1>5. n \in Firm(D) => n \in Firm(D)'
  BY <1>1, <1>3, ZenonT(30) DEF Firm, Sources, Located
<1>6. Laying(D) /\ push'[n] = "ok" => n \in Firm(D)'
  BY <1>1, <1>5, ZenonT(30) DEF Laying, Pushed
<1>7. Steady(D, D)
  BY <1>2, <1>4, <1>5, <1>6, SteadyAt, ZenonT(30)
<1>8. job' = job \/ Answer(n, FALSE)
  BY Zenon DEF Download
<1>9. DrainKept /\ Open' \subseteq Open
  BY <1>1, <1>8, Refusal, ZenonT(30)
<1> QED  BY <1>1, <1>7, <1>9, CarriedJob, ZenonT(30)

\* A copy is counted once its row is written: the node was waited for, so its
\* file is there.
LEMMA SafeRecordPull ==
    ASSUME TypeOK, TypeOK', PlanKept, NEW D \in SUBSET Nodes, StoreInv(D), Active, NEW n \in Nodes, RecordPull(n)
    PROVE  Safe(D)'
<1> USE DEF TypeOK
<1>1. /\ UNCHANGED <<push, rec, put, split, draining>> /\ Safe(D) /\ Counts(D)
      /\ pull[n].at = "filed" /\ pull' = [pull EXCEPT ![n] = NoPull]
  BY ZenonT(30) DEF RecordPull, clusterVars, StoreInv, Safe
<1>2. Known
  BY Present, ZenonT(30) DEF Known, Sources
<1>3. \/ row' = Recorded(n) /\ Answer(n, TRUE) /\ UNCHANGED file
      \/ row' \in {row, Recorded(n)} /\ Answer(n, FALSE) /\ UNCHANGED file
  BY <1>2, Zenon DEF RecordPull
<1>4. UNCHANGED file /\ Elsewhere(n) /\ pull'[n].at = "none" /\ (row[n] # "none" => row'[n] # "none")
  BY <1>1, <1>3, ZenonT(30) DEF Elsewhere, Recorded, NoPull
<1>5. Sound(n) => Sound(n)'
  BY <1>1, <1>4, ZenonT(30) DEF Sound
<1>6. n \in Firm(D) => n \in Firm(D)'
  BY <1>1, <1>4, ZenonT(30) DEF Firm, Sources, Located
<1>7. Laying(D) /\ push'[n] = "ok" => n \in Firm(D)'
  BY <1>1, <1>6, ZenonT(30) DEF Laying, Pushed
<1>8. Steady(D, D)
  BY <1>4, <1>5, <1>6, <1>7, SteadyAt, ZenonT(30)
<1>9. CASE job' = job \/ Answer(n, FALSE)
  <2>1. DrainKept /\ Open' \subseteq Open
    BY <1>1, <1>9, Refusal, ZenonT(30)
  <2> QED  BY <1>1, <1>8, <2>1, CarriedJob, ZenonT(30)
<1>10. CASE /\ row' = Recorded(n)
            /\ job.cur = n /\ job'.kind = job.kind /\ job'.todo = job.todo /\ job'.cur = 0
            /\ job'.off = job.off /\ job'.safe = job.safe + 1
  <2>1. Open' \subseteq Open
    BY <1>10, ZenonT(30) DEF Open
  <2>2. Trusted' \subseteq Trusted
    BY <1>1, <2>1, ZenonT(30) DEF Trusted
  <2>3. ASSUME job.kind = "drain" PROVE Counts(D)'
    <3> DEFINE before == (Firm(D) \ {job.off}) \ Open
    <3> DEFINE after == (Firm(D)' \ {job'.off}) \ Open'
    <3>1. /\ job.off \in Nodes /\ job.off \notin Open /\ job.cur \notin job.todo
          /\ job.off \in draining \cup D /\ job.safe <= Cardinality(before)
      BY <1>1, <2>3, ZenonT(30) DEF Counts
    <3>2. n \in Open /\ n \notin Open' /\ n # job.off
      BY <1>10, <2>3, <3>1, NodesFinite, ZenonT(30) DEF Open
    <3>3. n \in Firm(D)'
      <4>1. CASE n \in D
        BY <4>1, ZenonT(30) DEF Firm
      <4>2. CASE n \notin D
        <5>1. Sound(n)
          BY <1>1, <3>2, <4>2, ZenonT(30) DEF Safe, Trusted
        <5>2. file'[n] # "none" /\ rec'[n] # "phantom" /\ row'[n] # "none"
          BY <1>1, <1>4, <1>10, <5>1, ZenonT(30) DEF Sound, Recorded
        <5> QED  BY <5>2, ZenonT(30) DEF Firm, Sources, Located
      <4> QED  BY <4>1, <4>2, ZenonT(30)
    <3>4. before \cup {n} \subseteq after /\ n \notin before
      BY <1>8, <1>10, <2>1, <3>2, <3>3, ZenonT(30) DEF Steady
    <3>5. IsFiniteSet(after)
      <4>1. after \subseteq Nodes
        BY ZenonT(30) DEF Firm, Sources, Located
      <4> QED  BY <4>1, NodesFinite, FS_Subset
    <3>6. IsFiniteSet(before)
      BY <3>4, <3>5, FS_Subset
    <3> HIDE DEF before, after
    <3>7. Cardinality(before \cup {n}) = Cardinality(before) + 1 /\ Cardinality(before) \in Nat
      BY <3>4, <3>6, FS_AddElement, FS_CardinalityType, ZenonT(30)
    <3>8. Cardinality(before \cup {n}) <= Cardinality(after) /\ Cardinality(after) \in Nat
      BY <3>4, <3>5, FS_Subset, FS_CardinalityType, ZenonT(30)
    <3>9. job'.safe <= Cardinality(after)
      BY <1>10, <3>1, <3>7, <3>8 DEF JobType
    <3>10. job'.cur \notin job'.todo
      BY <1>10, NodesFinite, ZenonT(30) DEF JobType
    <3>11. job'.off \in Nodes /\ job'.off \notin Open' /\ job'.off \in draining' \cup D
      BY <1>1, <1>10, <2>1, <3>1, ZenonT(30)
    <3> QED  BY <3>9, <3>10, <3>11, ZenonT(30) DEF Counts, after
  <2>4. Counts(D)'
    BY <1>10, <2>3, ZenonT(30) DEF Counts
  <2> QED  BY <1>1, <1>8, <2>2, <2>4, Carried, ZenonT(30)
<1>11. Answer(n, TRUE) => (job' = job \/ (/\ job.cur = n /\ job'.kind = job.kind /\ job'.todo = job.todo
                                          /\ job'.cur = 0 /\ job'.off = job.off /\ job'.safe = job.safe + 1))
  BY Answered, ZenonT(30)
<1> QED  BY <1>3, <1>9, <1>10, <1>11, Zenon

\* A drain starts from the copies on nodes that stay.
LEMMA SafeStartDrain ==
    ASSUME TypeOK, TypeOK', PlanKept, NEW D \in SUBSET Nodes, StoreInv(D), Active, NEW d \in Nodes, StartDrain(d)
    PROVE  Safe(D)'
<1> USE DEF TypeOK
<1>1. UNCHANGED <<file, row, push, pull, rec, put, split, draining>> /\ Safe(D)
  BY Zenon DEF StartDrain, storeVars, clusterVars, StoreInv
<1>2. Steady(D, D)
  BY <1>1, SteadyStill, ZenonT(30)
<1> DEFINE safe == Cardinality(Holders \ draining)
<1>3. PICK T \in Targets(Holders, Factor - safe, FALSE) :
         job' = [Idle EXCEPT !.kind = "drain", !.todo = T, !.src = Min(Holders), !.safe = safe, !.off = d]
  BY ZenonT(30) DEF StartDrain
<1>4. T \cap Holders = {} /\ T \cap draining = {} /\ T \subseteq Nodes
  BY ZenonT(30) DEF Targets, Live
<1>5. job = Idle /\ d \in draining
  BY ZenonT(30) DEF StartDrain, Leading
<1>6. /\ job'.kind = "drain" /\ job'.todo = T /\ job'.cur = 0 /\ job'.off = d /\ job'.safe = safe
  BY <1>3, ZenonT(30) DEF Idle
<1>7. Open' = T
  BY <1>6, ZenonT(30) DEF Open
<1>8. Open = {}
  BY <1>5, ZenonT(30) DEF Open, Idle
<1>9. Trusted' \subseteq Trusted
  BY <1>1, <1>4, <1>7, <1>8, ZenonT(30) DEF Trusted
<1>10. Holders \ draining \subseteq (Firm(D)' \ {d}) \ T
  <2>1. ASSUME NEW m \in Holders \ draining, m \notin D PROVE m \in Firm(D)
    <3>1. Sound(m)
      BY <1>1, <2>1, ZenonT(30) DEF Safe, Trusted, Holders, Located
    <3> QED  BY <2>1, <3>1, ZenonT(30) DEF Sound, Firm, Sources, Holders, Located
  <2>2. Holders \ draining \subseteq Firm(D)
    BY <2>1, ZenonT(30) DEF Firm
  <2> QED  BY <1>2, <1>4, <1>5, <2>2, ZenonT(30) DEF Steady
<1>11. IsFiniteSet((Firm(D)' \ {d}) \ T)
  <2>1. (Firm(D)' \ {d}) \ T \subseteq Nodes
    BY ZenonT(30) DEF Firm, Sources, Located
  <2> QED  BY <2>1, NodesFinite, FS_Subset
<1>12. safe <= Cardinality((Firm(D)' \ {d}) \ T)
  BY <1>10, <1>11, FS_Subset, ZenonT(30)
<1> HIDE DEF safe
<1>13. Counts(D)'
  <2>1. 0 \notin T /\ d \in Nodes /\ d \notin T
    BY <1>4, <1>5, NodesFinite, ZenonT(30)
  <2> QED  BY <1>1, <1>5, <1>6, <1>7, <1>12, <2>1, Zenon DEF Counts
<1> QED  BY <1>1, <1>2, <1>9, <1>13, Carried, ZenonT(30)

\* A draining node drops its copy only when the copies that stay make up the
\* replication factor, which is no less than the quorum.
LEMMA SafeEndDrain ==
    ASSUME TypeOK, TypeOK', PlanKept, NEW D \in SUBSET Nodes, StoreInv(D), Active, EndDrain
    PROVE  Safe(D)'
<1> USE DEF TypeOK
<1>1. /\ UNCHANGED <<push, pull, rec, put, split, draining>> /\ job' = Idle /\ job.kind = "drain"
      /\ Safe(D) /\ Counts(D)
  BY ZenonT(30) DEF EndDrain, clusterVars, StoreInv, Safe
<1>2. Open' = {} /\ DrainKept /\ Counts(D)'
  BY <1>1, ZenonT(30) DEF Open, DrainKept, Counts, Idle
<1>3. CASE UNCHANGED <<file, row>>
  <2>1. Steady(D, D)
    BY <1>1, <1>3, SteadyStill, ZenonT(30)
  <2> QED  BY <1>1, <1>2, <2>1, CarriedJob, ZenonT(30)
<1>4. CASE /\ job.safe >= Factor /\ row' \in {row, [row EXCEPT ![job.off] = "none"]}
           /\ file' \in {file, [file EXCEPT ![job.off] = "none"]}
  <2> DEFINE off == job.off
  <2> DEFINE kept == (Firm(D) \ {off}) \ Open
  <2>1. off \in Nodes /\ off \in draining \cup D /\ job.safe <= Cardinality(kept)
    BY <1>1, ZenonT(30) DEF Counts
  <2>2. \A n \in Nodes \ {off} : file'[n] = file[n] /\ row'[n] = row[n]
    BY <1>4, ZenonT(30)
  <2>3. \A n \in Trusted' \ D : Sound(n)'
    <3>1. ASSUME NEW n \in Trusted' \ D PROVE n \in Nodes \ {off} /\ Sound(n)
      BY <1>1, <1>2, <2>1, ZenonT(30) DEF Trusted, Safe
    <3>2. ASSUME NEW n \in Nodes \ {off}, Sound(n) PROVE Sound(n)'
      BY <1>1, <2>2, <3>2, ZenonT(30) DEF Sound
    <3> HIDE DEF off
    <3> QED  BY <3>1, <3>2, ZenonT(30)
  <2>4. kept \subseteq Firm(D)'
    BY <1>1, <2>2, ZenonT(30) DEF Firm, Sources, Located
  <2>5. IsFiniteSet(Firm(D)')
    <3>1. Firm(D)' \subseteq Nodes
      BY ZenonT(30) DEF Firm, Sources, Located
    <3> QED  BY <3>1, NodesFinite, FS_Subset, ZenonT(30)
  <2> HIDE DEF kept
  <2>6. Cardinality(kept) <= Cardinality(Firm(D)') /\ Cardinality(kept) \in Nat /\ Cardinality(Firm(D)') \in Nat
    BY <2>4, <2>5, FS_Subset, FS_CardinalityType, ZenonT(30)
  <2>7. Quorum' = Quorum /\ Quorum \in Nat /\ Factor \in Nat /\ Quorum <= Factor /\ job.safe \in Nat
    BY SameQuorum, QuorumRange, ZenonT(30) DEF JobType
  <2>8. Laid(D)'
    BY <1>4, <2>1, <2>6, <2>7 DEF Laid
  <2> QED  BY <1>2, <2>3, <2>8, ZenonT(30) DEF Safe
<1>5. PeerDelete(job.off, TRUE) => row' = [row EXCEPT ![job.off] = "none"] /\ file' = [file EXCEPT ![job.off] = "none"]
  BY Zenon DEF PeerDelete
<1> QED  BY <1>3, <1>4, <1>5, Zenon DEF EndDrain

----------------------------------------------------------------------------
(* The invariant is inductive *)

\* Who changes a node's state.
LEMMA NodeWriters ==
    ASSUME [Next]_vars
    PROVE  \/ UNCHANGED node \/ \E E \in SUBSET Nodes : ExpireDeadNodes(E)
           \/ \E n \in Nodes : Crash(n) \/ HeartbeatLapse(n) \/ Restart(n)
BY Zenon DEF Next, vars, clusterVars, PutLocal, RecordLocal, FanOut, PutAck, RollbackLocal, RollbackRows,
   StageSplit, MarkSplit, DeleteLocal, DeleteRows, DeleteSplitRow, AskTimeout, EndRepair, EndDrain,
   StartRepair, HourPasses, PushWrite, PushRecord, PushFail, PushTimeout, RollbackPeer, StartDelete,
   DeletePeer, StartDrain, Ask, Download, RecordPull, Announce, SweepOrphan, RestoreRow, VerifyPlacement,
   RemovePhantom, DiskLoss, SetDraining

\* Every node that is not up has crashed since the put began, the writer not
\* while its put runs.
LEMMA CrashedStep ==
    ASSUME TypeOK, [Next]_vars, NEW D \in SUBSET Nodes, StoreInv(D), ~PutLocal, NEW E \in SUBSET Nodes,
           \/ E = D /\ ~\E n \in Nodes : Crash(n)
           \/ \E n \in Nodes : Crash(n) /\ E = D \cup {n}
    PROVE  Crashed(E)'
<1> USE DEF TypeOK
<1>1. \A n \in Nodes : node[n] # "up" => n \in D
  BY ZenonT(30) DEF StoreInv, Crashed
<1>2. put' \in {"local", "recorded", "fanout", "acked"} => Writer \notin D
  BY PutMoves, ZenonT(30) DEF StoreInv, Crashed
<1>3. ASSUME NEW n \in Nodes, Crash(n), E = D \cup {n} PROVE Crashed(E)'
  <2>1. node' = [node EXCEPT ![n] = "down"]
    BY <1>3, ZenonT(30) DEF Crash
  <2>2. put' \in {"local", "recorded", "fanout", "acked"} => n # Writer
    BY <1>3, ZenonT(30) DEF Crash
  <2> QED  BY <1>1, <1>2, <1>3, <2>1, <2>2, ZenonT(30) DEF Crashed
<1>4. CASE E = D /\ ~\E n \in Nodes : Crash(n)
  <2>1. CASE UNCHANGED node
    BY <1>1, <1>2, <1>4, <2>1, ZenonT(30) DEF Crashed
  <2>2. ASSUME NEW F \in SUBSET Nodes, ExpireDeadNodes(F) PROVE Crashed(E)'
    BY <1>1, <1>2, <1>4, <2>2, ZenonT(30) DEF ExpireDeadNodes, Crashed
  <2>3. ASSUME NEW n \in Nodes, HeartbeatLapse(n) \/ Restart(n) PROVE Crashed(E)'
    BY <1>1, <1>2, <1>4, <2>3, ZenonT(30) DEF HeartbeatLapse, Restart, Crashed
  <2> QED  BY <1>4, <2>1, <2>2, <2>3, NodeWriters, Zenon
<1> QED  BY <1>3, <1>4, ZenonT(30)

\* Every step keeps the invariant, with the crashed node added at a crash and
\* the writer taken out when its put begins.
LEMMA InvStep ==
    ASSUME TypeOK, TypeOK', [Next]_vars, Inv
    PROVE  Inv'
<1>1. PICK D \in SUBSET Nodes : StoreInv(D)
  BY ZenonT(30) DEF Inv
<1>2. Before' /\ Order'
  BY <1>1, BeforeStep, OrderStep, ZenonT(30) DEF StoreInv
<1>3. PlanKept /\ Quorum' = Quorum /\ Quorum \in Nat /\ plan.left["crash"] \in Nat
  BY PlanStep, SameQuorum, QuorumRange, ZenonT(30) DEF TypeOK, Bounds
<1>4. IsFiniteSet(D) /\ Cardinality(D) \in Nat /\ plan.left["crash"] + Cardinality(D) < Quorum
  BY <1>1, NodesFinite, FS_Subset, FS_CardinalityType, ZenonT(30) DEF StoreInv
<1>5. plan'.left["clear"] = 0
  BY <1>1, PlanStep, ZenonT(30) DEF StoreInv
<1>6. CASE PutLocal
  <2> DEFINE E == D \ {Writer}
  <2>1. E \in SUBSET Nodes /\ Cardinality(E) <= Cardinality(D) /\ Cardinality(E) \in Nat
    BY <1>4, FS_Subset, FS_CardinalityType, ZenonT(30)
  <2>2. ~Active'
    BY <1>1, <1>6, ZenonT(30) DEF PutLocal, Active, StoreInv, Order
  <2>3. Safe(E)'
    BY <2>2, ZenonT(30) DEF Safe
  <2>4. Crashed(E)'
    BY <1>1, <1>6, ZenonT(30) DEF PutLocal, Up, clusterVars, StoreInv, Crashed
  <2>5. plan' = plan
    BY <1>6, ZenonT(30) DEF PutLocal
  <2>6. (plan.left["crash"] + Cardinality(E) < Quorum)'
    BY <1>3, <1>4, <2>1, <2>5
  <2> HIDE DEF E
  <2>7. StoreInv(E)'
    BY <1>2, <1>5, <2>3, <2>4, <2>6, ZenonT(30) DEF StoreInv
  <2> QED  BY <2>1, <2>7, ZenonT(30) DEF Inv
<1>7. ASSUME NEW n \in Nodes, Crash(n) PROVE Inv'
  <2> DEFINE E == D \cup {n}
  <2>1. Cardinality(E) <= Cardinality(D) + 1 /\ Cardinality(E) \in Nat /\ E \in SUBSET Nodes
    <3>1. IsFiniteSet(E) /\ Cardinality(E) = IF n \in D THEN Cardinality(D) ELSE Cardinality(D) + 1
      BY <1>4, FS_AddElement, ZenonT(30)
    <3> QED  BY <1>4, <3>1
  <2>2. Safe(E)'
    <3>1. CASE Active'
      <4>1. Active
        BY <1>1, <1>7, <3>1, Enters, ZenonT(30) DEF StoreInv, Crash, RecordLocal
      <4> QED  BY <1>1, <1>3, <1>7, <3>1, <4>1, SafeCrash, ZenonT(30)
    <3>2. CASE ~Active'
      BY <3>2, ZenonT(30) DEF Safe
    <3> QED  BY <3>1, <3>2, ZenonT(30)
  <2>3. ~PutLocal
    BY <1>7, ZenonT(30) DEF Crash, PutLocal, TypeOK
  <2>4. plan'.left["crash"] = plan.left["crash"] - 1
    BY <1>7, Spent, ZenonT(30) DEF Crash, Bounds
  <2>5. Crashed(E)'
    BY <1>1, <1>7, <2>1, <2>3, CrashedStep, ZenonT(30)
  <2>6. (plan.left["crash"] + Cardinality(E) < Quorum)'
    BY <1>3, <1>4, <2>1, <2>4
  <2> HIDE DEF E
  <2>7. StoreInv(E)'
    BY <1>2, <1>5, <2>2, <2>5, <2>6, ZenonT(30) DEF StoreInv
  <2> QED  BY <2>1, <2>7, ZenonT(30) DEF Inv
<1>8. CASE ~PutLocal /\ ~\E n \in Nodes : Crash(n)
  <2>1. Safe(D)'
    <3>1. CASE ~Active'
      BY <3>1, ZenonT(30) DEF Safe
    <3>2. CASE Active' /\ ~Active
      BY <1>1, <3>2, Enters, SafeRecordLocal, ZenonT(30) DEF StoreInv
    <3>3. CASE Active' /\ Active
      <4>1. CASE UNCHANGED vars
        <5>1. UNCHANGED <<file, row, push, pull, rec, put, split, job, draining>>
          BY <4>1, Zenon DEF vars, storeVars, clusterVars
        <5>2. Steady(D, D)
          BY <5>1, SteadyStill, ZenonT(30)
        <5> QED  BY <1>1, <1>3, <3>3, <5>1, <5>2, CarriedPlain, ZenonT(30) DEF StoreInv
      <4> QED
        BY <1>1, <1>3, <1>8, <3>3, <4>1, ActiveSteps, SafePush, SafeReconcile, SafeDiskLoss, SafeHour,
           SafeNode, SafeExpire, SafeFanOut, SafeAck, SafeJob, SafeAsk, SafeDownload, SafeRecordPull,
           SafeStartDrain, SafeEndDrain, Zenon
    <3> QED  BY <3>1, <3>2, <3>3, ZenonT(30)
  <2>2. Crashed(D)'
    BY <1>1, <1>8, CrashedStep, Zenon
  <2>3. (plan.left["crash"] + Cardinality(D) < Quorum)'
    BY <1>3, <1>4, <1>8, PlanStep, ZenonT(30)
  <2>4. StoreInv(D)'
    BY <1>2, <1>5, <2>1, <2>2, <2>3, ZenonT(30) DEF StoreInv
  <2> QED  BY <2>4, ZenonT(30) DEF Inv
<1> QED  BY <1>6, <1>7, <1>8, ZenonT(30)

\* While fewer nodes may crash than the write quorum counts copies, and no drain
\* request is taken back (nodes.rs: set_node_draining), a published object stays
\* on some disk, and a placement row leads a reader there (replicated.rs: get,
\* get_range and size through locate), for any nodes, copies, drains, failed
\* calls and lost disks: no drain, repair, sweep, rollback, late transfer,
\* expiry or reconcile pass removes the last copy.
THEOREM PublishedIsFindable ==
    Spec /\ plan.left["crash"] < Quorum /\ plan.left["clear"] = 0 => []Findable
<1>1. Init /\ plan.left["crash"] < Quorum /\ plan.left["clear"] = 0 => TypeOK /\ Inv
  <2> SUFFICES ASSUME Init, plan.left["crash"] < Quorum, plan.left["clear"] = 0 PROVE TypeOK /\ Inv
    OBVIOUS
  <2>1. TypeOK
    <3>1. plan \in [copies : Nat \ {0}, quorum : Nat, stuck : Nat, left : [Bounds -> Nat]]
      BY StoreAssumption, ZenonT(30) DEF Init
    <3> QED  BY <3>1, ZenonT(30) DEF Init, TypeOK, Ages, NoRows, Puts, Pushes, JobType, PullType, Jobs, Idle, NoPull
  <2>2. Quiet /\ split = "none" /\ put = "idle"
    BY ZenonT(30) DEF Init, Quiet, NoRows, Idle, NoPull
  <2>3. Before /\ Order /\ Safe({})
    BY <2>2, StoreAssumption, ZenonT(30) DEF Quiet, Before, Order, Safe, Active
  <2>4. Crashed({})
    BY <2>2, ZenonT(30) DEF Init, Crashed
  <2>5. plan.left["crash"] + Cardinality({}) < Quorum
    <3>1. Cardinality({}) = 0 /\ plan.left["crash"] \in Nat
      BY <2>1, FS_EmptySet, ZenonT(30) DEF TypeOK, Bounds
    <3> QED  BY <3>1
  <2>6. StoreInv({})
    BY <2>3, <2>4, <2>5, ZenonT(30) DEF StoreInv
  <2> QED  BY <2>1, <2>6, ZenonT(30) DEF Inv
<1>2. (TypeOK /\ Inv) /\ [Next]_vars => (TypeOK /\ Inv)'
  BY TypeStep, InvStep, ZenonT(30)
<1>3. TypeOK /\ Inv => Findable
  BY Present, ZenonT(30) DEF Inv, Findable, Active
<1> QED  BY <1>1, <1>2, <1>3, PTL DEF Spec
=============================================================================
