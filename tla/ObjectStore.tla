---------------------------- MODULE ObjectStore -----------------------------
(***************************************************************************)
(* One object of the replicated storage backend: its files on the nodes'   *)
(* disks, its placement rows, and everything that creates, copies, moves   *)
(* or removes either.                                                      *)
(*                                                                         *)
(*   the writer   rsearch-storage/src/replicated.rs: put, fan_out, delete  *)
(*   the peers    rsearch-server/src/internal_api.rs: PUT, DELETE and      *)
(*                replicate handlers, called through peer.rs               *)
(*   the leader   rsearch-server/src/control.rs: GC, stray sweep, repair,  *)
(*                drain, expiry of dead nodes                              *)
(*   every node   rsearch-server/src/reconcile.rs: hourly reconcile        *)
(*   the tables   rsearch-metastore/src/locations.rs, nodes.rs             *)
(*                                                                         *)
(* Objects are immutable, a key is written once (every flush attempt draws *)
(* a new one), and no operation reads another object's rows, so one object *)
(* stands for all; where the code looks at the rest of a disk the choice   *)
(* is left open.  Ages: "new" is younger than an hour (the grace every     *)
(* sweep uses), "old" is older.                                            *)
(***************************************************************************)
EXTENDS Integers, FiniteSets, FiniteSetsExt

CONSTANTS
    Nodes,          \* node ids, ordered as ORDER BY n.id orders them
    Writer,         \* the node whose flush writes the object
    RepairBatch,    \* how many keys one repair pass looks at (20 in the code)
    DrainBatch,     \* how many keys one batch of a drain looks at (50 in the code)
    Plans           \* settings and bounds, one chosen per behaviour: copies and quorum
                    \* (storage.replication_factor, storage.write_quorum); stuck: how many
                    \* other keys sort before this one in both scans and can be neither
                    \* repaired nor moved; left: how many node crashes, disks replaced
                    \* while their node was down, drain requests, drain requests taken
                    \* back, calls that fail or time out, splits marked for deletion

Bounds == {"crash", "loss", "drain", "clear", "fault", "mark"}

ASSUME StoreAssumption ==
    /\ Nodes \subseteq Nat \ {0} /\ IsFiniteSet(Nodes) /\ Writer \in Nodes
    /\ RepairBatch \in Nat /\ DrainBatch \in Nat
    /\ Plans \subseteq [copies : Nat \ {0}, quorum : Nat, stuck : Nat, left : [Bounds -> Nat]]

VARIABLES
    file,       \* the object's file on each node's disk: "none", "new", "old"
    row,        \* its object_locations row for each node: "none", "new", "old"
    split,      \* its splits row: "none", "present", "marked", "gone"
    node,       \* "up"; "down": heartbeat still fresh; "dead"; "expired": no nodes row
    draining,   \* nodes whose draining flag is set
    put,        \* the writer's put
    push,       \* each replica push: where it is, and whether the writer still waits
    job,        \* the leader's running job on this object
    pull,       \* each replicate request: where it is, and from whom
    rec,        \* each node's reconcile pass
    plan        \* the chosen plan; its bounds count down

storeVars   == <<file, row, split>>
clusterVars == <<node, draining>>
vars == <<storeVars, clusterVars, put, push, job, pull, rec, plan>>

Idle   == [kind |-> "idle", by |-> 0, todo |-> {}, cur |-> 0, src |-> 0, safe |-> 0, off |-> 0]
NoPull == [at |-> "none", src |-> 0]
Factor == plan.copies
Quorum == Max({1, Min({plan.quorum, Factor})})

----------------------------------------------------------------------------
\* The tables.
Up         == {n \in Nodes : node[n] = "up"}
Live       == {n \in Nodes : node[n] \in {"up", "down"}}
Registered == {n \in Nodes : node[n] # "expired"}
Located    == {n \in Nodes : row[n] # "none"}
Holders    == Located \cap Live
SplitRow   == split \in {"present", "marked"}
Known      == Located # {}
Stray      == ~SplitRow /\ Known /\ \A n \in Located : row[n] = "old"
UnderReplicated == Known /\ Cardinality(Holders) < Factor
Recorded(n) == IF row[n] = "none" THEN [row EXCEPT ![n] = "new"] ELSE row
NoRows     == [n \in Nodes |-> "none"]

\* Where a read finds the object when its own disk lacks it: get, get_range and
\* size ask the nodes with a row, one after the other.
Sources    == {n \in Located : file[n] # "none"}

\* replication_targets: live nodes outside exclude, non-draining ones first.
\* The held-bytes ranking depends on other objects: any of equal rank may win.
Targets(exclude, limit, includeDraining) ==
    LET eligible == {n \in Live \ exclude : n \notin draining \/ includeDraining}
    IN  {T \in SUBSET eligible :
            /\ Cardinality(T) = Min({Max({limit, 0}), Cardinality(eligible)})
            /\ T \cap draining # {} => (eligible \ draining) \subseteq T}

Spend(what) == plan.left[what] > 0 /\ plan' = [plan EXCEPT !.left = [plan.left EXCEPT ![what] = @ - 1]]
Fault   == Spend("fault")
NoFault == UNCHANGED plan

\* DELETE on a peer: the file goes, then the row.  The handler may fail
\* between the two, and a node that does not answer does nothing.
PeerDelete(n, ok) ==
    \/ /\ n \in Up /\ ok /\ NoFault
       /\ file' = [file EXCEPT ![n] = "none"] /\ row' = [row EXCEPT ![n] = "none"]
    \/ /\ n \in Up /\ ~ok /\ Fault
       /\ file' = [file EXCEPT ![n] = "none"] /\ UNCHANGED row
    \/ /\ ~ok /\ (IF n \in Up THEN Fault ELSE NoFault) /\ UNCHANGED <<file, row>>

----------------------------------------------------------------------------
\* ReplicatedStorage::put and the pushes it spawns.
PutLocal ==
    /\ put = "idle" /\ Writer \in Up
    /\ file' = [file EXCEPT ![Writer] = "new"] /\ put' = "local"
    /\ UNCHANGED <<row, split, clusterVars, push, job, pull, rec, plan>>

\* A call on the tables that fails may have committed: its answer was lost.
RecordLocal ==
    /\ put = "local"
    /\ \/ /\ NoFault /\ row' = Recorded(Writer) /\ put' = "recorded" /\ UNCHANGED file
       \/ /\ Fault /\ file' = [file EXCEPT ![Writer] = "none"] /\ put' = "failed"
          /\ row' \in {row, Recorded(Writer)}
    /\ UNCHANGED <<split, clusterVars, push, job, pull, rec>>

\* An error from write_targets returns at once: file and row stay behind.
FanOut ==
    /\ put = "recorded"
    /\ \/ /\ NoFault /\ put' = "fanout"
          /\ \E T \in Targets({Writer}, Factor - 1, FALSE) :
                push' = [n \in Nodes |-> IF n \in T THEN "sent" ELSE "none"]
       \/ Fault /\ put' = "failed" /\ UNCHANGED push
    /\ UNCHANGED <<storeVars, clusterVars, job, pull, rec>>

\* put_object on the receiver: the whole body, then its own row.
PushWrite(n) ==
    /\ push[n] \in {"sent", "lateSent"} /\ n \in Up
    /\ file' = [file EXCEPT ![n] = "new"]
    /\ push' = [push EXCEPT ![n] = IF @ = "sent" THEN "filed" ELSE "lateFiled"]
    /\ UNCHANGED <<row, split, clusterVars, put, job, pull, rec, plan>>

PushRecord(n) ==
    /\ push[n] \in {"filed", "lateFiled"}
    /\ \/ /\ NoFault /\ row' = Recorded(n)
          /\ push' = [push EXCEPT ![n] = IF @ = "filed" THEN "ok" ELSE "err"]
       \/ Fault /\ push' = [push EXCEPT ![n] = "err"] /\ row' \in {row, Recorded(n)}
    /\ UNCHANGED <<file, split, clusterVars, put, job, pull, rec>>

PushFail(n) ==
    /\ push[n] \in {"sent", "lateSent"}
    /\ IF n \in Up /\ push[n] = "sent" THEN Fault ELSE NoFault
    /\ push' = [push EXCEPT ![n] = "err"]
    /\ UNCHANGED <<storeVars, clusterVars, put, job, pull, rec>>

\* The writer's 600 s expire while the receiver is still at work.
PushTimeout(n) ==
    /\ push[n] \in {"sent", "filed"} /\ Fault
    /\ push' = [push EXCEPT ![n] = IF @ = "sent" THEN "lateSent" ELSE "lateFiled"]
    /\ UNCHANGED <<storeVars, clusterVars, put, job, pull, rec>>

Pushed   == {n \in Nodes : push[n] = "ok"}
Awaited  == {n \in Nodes : push[n] \in {"sent", "filed"}}
QuorumMet == 1 + Cardinality(Pushed) >= Quorum

PutAck ==
    /\ put = "fanout" /\ QuorumMet
    /\ put' = "acked"
    /\ UNCHANGED <<storeVars, clusterVars, push, job, pull, rec, plan>>

RollbackLocal ==
    /\ put = "fanout" /\ Awaited = {} /\ ~QuorumMet
    /\ file' = [file EXCEPT ![Writer] = "none"] /\ put' = "rollback"
    /\ UNCHANGED <<row, split, clusterVars, push, job, pull, rec, plan>>

RollbackPeer(n) ==
    /\ put = "rollback" /\ n \in Pushed
    /\ \E ok \in BOOLEAN : PeerDelete(n, ok)
    /\ push' = [push EXCEPT ![n] = "err"]
    /\ UNCHANGED <<split, clusterVars, put, job, pull, rec>>

RollbackRows ==
    /\ put = "rollback" /\ Pushed = {}
    /\ put' = "failed"
    /\ \/ NoFault /\ row' = NoRows
       \/ Fault /\ UNCHANGED row
    /\ UNCHANGED <<file, split, clusterVars, push, job, pull, rec>>

\* The caller of put registers the split, or fails to and drops the attempt.
StageSplit ==
    /\ put = "acked"
    /\ \/ NoFault /\ split' = "present" /\ put' = "staged"
       \/ Fault /\ put' = "failed" /\ UNCHANGED split
    /\ UNCHANGED <<file, row, clusterVars, push, job, pull, rec>>

\* Retention, a merge or an index deletion marks the split.
MarkSplit ==
    /\ split = "present" /\ split' = "marked" /\ Spend("mark")
    /\ UNCHANGED <<file, row, clusterVars, put, push, job, pull, rec>>

----------------------------------------------------------------------------
\* The leader.  Any running node may hold the leadership; its jobs run one
\* after the other.
Leading == job = Idle /\ Up # {}

\* Mutant: the stray sweep is left out.
StartGc(l) ==
    /\ Leading /\ l \in Up /\ split = "marked"
    /\ job' = [Idle EXCEPT !.kind = "delete", !.by = l, !.todo = Holders \ {l}]
    /\ UNCHANGED <<storeVars, clusterVars, put, push, pull, rec, plan>>

\* ReplicatedStorage::delete, for a GC candidate or for a stray object: rows
\* without a split row, the newest of them older than staged_orphan_secs.
StartDelete(l) ==
    /\ Leading /\ l \in Up
    /\ split = "marked" \/ Stray
    /\ job' = [Idle EXCEPT !.kind = "delete", !.by = l, !.todo = Holders \ {l}]
    /\ UNCHANGED <<storeVars, clusterVars, put, push, pull, rec, plan>>

DeletePeer(n) ==
    /\ job.kind = "delete" /\ n \in job.todo
    /\ \E ok \in BOOLEAN : PeerDelete(n, ok)
    /\ job' = [job EXCEPT !.todo = @ \ {n}]
    /\ UNCHANGED <<split, clusterVars, put, push, pull, rec>>

DeleteLocal ==
    /\ job.kind = "delete" /\ job.todo = {}
    /\ file' = [file EXCEPT ![job.by] = "none"]
    /\ job' = [job EXCEPT !.kind = "deleteRows"]
    /\ UNCHANGED <<row, split, clusterVars, put, push, pull, rec, plan>>

\* GC drops the split row only after the storage delete succeeded.
DeleteRows ==
    /\ job.kind = "deleteRows"
    /\ \/ NoFault /\ row' = NoRows /\ job' = [job EXCEPT !.kind = "deleteSplit"]
       \/ Fault /\ row' \in {row, NoRows} /\ job' = Idle
    /\ UNCHANGED <<file, split, clusterVars, put, push, pull, rec>>

DeleteSplitRow ==
    /\ job.kind = "deleteSplit" /\ job' = Idle
    /\ split' = IF split = "marked" THEN "gone" ELSE split
    /\ UNCHANGED <<file, row, clusterVars, put, push, pull, rec, plan>>

\* repair_one, for a key with fewer than Factor live holders.  A pass looks at
\* the RepairBatch keys with the fewest live holders: a key without any, or with
\* no node left to copy it to, is looked at again in every pass.  The 300 s
\* grace is shorter than a push may take, so repair can overlap one; it is
\* longer than the step from the writer's row to its fan-out.
RepairTargets ==
    LET missing == Factor - Cardinality(Holders)
    IN  UNION {{T \cup F : F \in Targets(Holders \cup T, missing - Cardinality(T), TRUE)} :
                  T \in Targets(Holders, missing, FALSE)}

StartRepair ==
    /\ Leading /\ put # "recorded" /\ UnderReplicated /\ Holders # {}
    /\ plan.stuck < RepairBatch
    /\ \E T \in RepairTargets \ {{}} :
          job' = [Idle EXCEPT !.kind = "repair", !.todo = T, !.src = Min(Holders)]
    /\ UNCHANGED <<storeVars, clusterVars, put, push, pull, rec, plan>>

\* drain_one for the draining node d, for a key among the DrainBatch oldest on
\* it.
StartDrain(d) ==
    /\ Leading /\ d \in draining /\ d \in Located /\ Holders # {}
    /\ plan.stuck < DrainBatch
    /\ LET safe == Cardinality(Holders \ draining)
       IN  \E T \in Targets(Holders, Factor - safe, FALSE) :
              job' = [Idle EXCEPT !.kind = "drain", !.todo = T,
                                  !.src = Min(Holders), !.safe = safe, !.off = d]
    /\ UNCHANGED <<storeVars, clusterVars, put, push, pull, rec, plan>>

\* One replicate request at a time, each bounded by 600 s.
Ask(n) ==
    /\ job.cur = 0 /\ job.kind \in {"repair", "drain"} /\ n \in job.todo
    /\ pull[n] = NoPull
    /\ job' = [job EXCEPT !.cur = n, !.todo = @ \ {n}]
    /\ pull' = [pull EXCEPT ![n] = [at |-> "asked", src |-> job.src]]
    /\ UNCHANGED <<storeVars, clusterVars, put, push, rec, plan>>

Answer(n, ok) ==
    job' = IF job.cur # n THEN job
           ELSE [job EXCEPT !.cur = 0, !.safe = IF ok THEN @ + 1 ELSE @]

\* replicate on the target: the source must be registered and answer.
Download(n) ==
    /\ pull[n].at = "asked"
    /\ \/ /\ n \in Up /\ pull[n].src \in Up /\ file[pull[n].src] # "none"
          /\ file' = [file EXCEPT ![n] = "new"]
          /\ pull' = [pull EXCEPT ![n].at = "filed"]
          /\ NoFault /\ UNCHANGED job
       \/ /\ IF n \in Up /\ pull[n].src \in Up /\ file[pull[n].src] # "none" THEN Fault ELSE NoFault
          /\ pull' = [pull EXCEPT ![n] = NoPull] /\ Answer(n, FALSE)
          /\ UNCHANGED file
    /\ UNCHANGED <<row, split, clusterVars, put, push, rec>>

RecordPull(n) ==
    /\ pull[n].at = "filed"
    /\ pull' = [pull EXCEPT ![n] = NoPull]
    /\ \/ /\ NoFault
          /\ IF Known
             THEN row' = Recorded(n) /\ Answer(n, TRUE) /\ UNCHANGED file
             ELSE file' = [file EXCEPT ![n] = "none"] /\ Answer(n, FALSE) /\ UNCHANGED row
       \/ /\ Fault /\ Answer(n, FALSE) /\ UNCHANGED file
          /\ row' \in {row, IF Known THEN Recorded(n) ELSE row}
    /\ UNCHANGED <<split, clusterVars, put, push, rec>>

AskTimeout ==
    /\ job.cur # 0 /\ Fault
    /\ job' = [job EXCEPT !.cur = 0]
    /\ UNCHANGED <<storeVars, clusterVars, put, push, pull, rec>>

EndRepair ==
    /\ job.kind = "repair" /\ job.todo = {} /\ job.cur = 0
    /\ job' = Idle
    /\ UNCHANGED <<storeVars, clusterVars, put, push, pull, rec, plan>>

\* Mutant: the draining copy goes whatever the replicate requests answered.
EndDrainUnchecked ==
    /\ job.kind = "drain" /\ job.todo = {} /\ job.cur = 0
    /\ job' = Idle
    /\ PeerDelete(job.off, TRUE)
    /\ UNCHANGED <<split, clusterVars, put, push, pull, rec>>

\* Mutant: one copy too many is asked for.
EndDrainStrict ==
    /\ job.kind = "drain" /\ job.todo = {} /\ job.cur = 0
    /\ job' = Idle
    /\ IF job.safe > Factor THEN PeerDelete(job.off, TRUE) ELSE UNCHANGED <<file, row, plan>>
    /\ UNCHANGED <<split, clusterVars, put, push, pull, rec>>

\* With Factor copies on staying nodes the draining one drops its copy; when
\* does not answer, or refuses, only its row goes, unless that fails as well.
EndDrain ==
    /\ job.kind = "drain" /\ job.todo = {} /\ job.cur = 0
    /\ job' = Idle
    /\ IF job.safe >= Factor
       THEN \/ PeerDelete(job.off, TRUE)
            \/ /\ job.off \in Up /\ Fault
               /\ file' \in {file, [file EXCEPT ![job.off] = "none"]}
               /\ row' \in {row, [row EXCEPT ![job.off] = "none"]}
            \/ job.off \notin Up /\ Fault /\ UNCHANGED <<file, row>>
            \/ /\ job.off \notin Up /\ NoFault
               /\ row' = [row EXCEPT ![job.off] = "none"] /\ UNCHANGED file
       ELSE UNCHANGED <<file, row, plan>>
    /\ UNCHANGED <<split, clusterVars, put, push, pull, rec>>

\* expire_dead_nodes: the nodes go, and their rows where another row remains
\* on a registered node.
ExpireDeadNodes(E) ==
    /\ Leading /\ E # {} /\ \A n \in E : node[n] = "dead"
    /\ node' = [n \in Nodes |-> IF n \in E THEN "expired" ELSE node[n]]
    /\ draining' = draining \ E
    /\ row' = IF Located \cap (Registered \ E) # {}
              THEN [n \in Nodes |-> IF n \in E THEN "none" ELSE row[n]]
              ELSE row
    /\ UNCHANGED <<file, split, put, push, job, pull, rec, plan>>

----------------------------------------------------------------------------
\* Reconcile.  Disk to rows: announce the file if the key is known; restore
\* its row if a split row still names it; otherwise delete it once it is old.
Announce(n) ==
    /\ n \in Up /\ rec[n] = "idle" /\ file[n] # "none" /\ Known
    /\ row' = Recorded(n)
    /\ UNCHANGED <<file, split, clusterVars, put, push, job, pull, rec, plan>>

SweepOrphan(n) ==
    /\ n \in Up /\ rec[n] = "idle" /\ file[n] # "none" /\ ~Known
    /\ IF SplitRow
       THEN rec' = [rec EXCEPT ![n] = "tracked"] /\ UNCHANGED file
       ELSE file' = [file EXCEPT ![n] = IF @ = "old" THEN "none" ELSE @] /\ UNCHANGED rec
    /\ UNCHANGED <<row, split, clusterVars, put, push, job, pull, plan>>

RestoreRow(n) ==
    /\ rec[n] = "tracked"
    /\ row' = Recorded(n) /\ rec' = [rec EXCEPT ![n] = "idle"]
    /\ UNCHANGED <<file, split, clusterVars, put, push, job, pull, plan>>

\* Mutant: only a sole row is verified.
VerifySole(n) ==
    /\ n \in Up /\ rec[n] = "idle" /\ row[n] = "old" /\ file[n] = "none" /\ Located = {n}
    /\ rec' = [rec EXCEPT ![n] = "phantom"]
    /\ UNCHANGED <<storeVars, clusterVars, put, push, job, pull, plan>>

\* Rows to disk: an old row whose file is missing is a phantom.  The code keeps
\* the only row of an object when the disk holds no file at all; other objects
\* may be on the disk, so here any phantom can go.
VerifyPlacement(n) ==
    /\ n \in Up /\ rec[n] = "idle" /\ row[n] = "old" /\ file[n] = "none"
    /\ rec' = [rec EXCEPT ![n] = "phantom"]
    /\ UNCHANGED <<storeVars, clusterVars, put, push, job, pull, plan>>

RemovePhantom(n) ==
    /\ rec[n] = "phantom"
    /\ row' = [row EXCEPT ![n] = "none"] /\ rec' = [rec EXCEPT ![n] = "idle"]
    /\ UNCHANGED <<file, split, clusterVars, put, push, job, pull, plan>>

----------------------------------------------------------------------------
\* The environment.
Crash(n) ==
    /\ n \in Up /\ Spend("crash")
    /\ node' = [node EXCEPT ![n] = "down"] /\ rec' = [rec EXCEPT ![n] = "idle"]
    /\ put' = IF n = Writer /\ put \notin {"idle", "staged"} THEN "failed" ELSE put
    /\ push' = [m \in Nodes |->
                  IF push[m] \in {"none", "ok", "err"} \/ n \notin {m, Writer} THEN push[m]
                  ELSE IF m = n THEN "err"
                  ELSE IF push[m] \in {"sent", "lateSent"} THEN "lateSent" ELSE "lateFiled"]
    /\ \/ job.by \in {0, n} /\ job' = Idle
       \/ job.by # n /\ job' = IF job.cur = n THEN [job EXCEPT !.cur = 0] ELSE job
    /\ pull' = [pull EXCEPT ![n] = NoPull]
    /\ UNCHANGED <<storeVars, draining>>

DiskLoss(n) ==
    /\ n \notin Up /\ file[n] # "none" /\ Spend("loss")
    /\ file' = [file EXCEPT ![n] = "none"]
    /\ UNCHANGED <<row, split, clusterVars, put, push, job, pull, rec>>

HeartbeatLapse(n) ==
    /\ node[n] = "down" /\ node' = [node EXCEPT ![n] = "dead"]
    /\ UNCHANGED <<storeVars, draining, put, push, job, pull, rec, plan>>

\* A restarted node heartbeats; the upsert keeps the draining flag.
Restart(n) ==
    /\ n \notin Up /\ node' = [node EXCEPT ![n] = "up"]
    /\ UNCHANGED <<storeVars, draining, put, push, job, pull, rec, plan>>

\* set_node_draining: the flag is set, or taken back.
SetDraining(n) ==
    /\ \/ n \in Registered \ draining /\ Spend("drain") /\ draining' = draining \cup {n}
       \/ n \in draining /\ Spend("clear") /\ draining' = draining \ {n}
    /\ UNCHANGED <<storeVars, node, put, push, job, pull, rec>>

\* An hour passes: every call in flight is over by then.
Settled ==
    /\ put \in {"idle", "staged", "failed"}
    /\ \A n \in Nodes : push[n] \in {"none", "ok", "err"} /\ pull[n] = NoPull
Older(age) == [n \in Nodes |-> IF age[n] = "new" THEN "old" ELSE age[n]]

HourPasses ==
    /\ Settled /\ <<file, row>> # <<Older(file), Older(row)>>
    /\ file' = Older(file) /\ row' = Older(row)
    /\ UNCHANGED <<split, clusterVars, put, push, job, pull, rec, plan>>

----------------------------------------------------------------------------
Init ==
    /\ file = [n \in Nodes |-> "none"] /\ row = NoRows /\ split = "none"
    /\ node = [n \in Nodes |-> "up"] /\ draining = {}
    /\ put = "idle" /\ push = [n \in Nodes |-> "none"]
    /\ job = Idle /\ pull = [n \in Nodes |-> NoPull] /\ rec = [n \in Nodes |-> "idle"]
    /\ plan \in Plans

Next ==
    \/ PutLocal \/ RecordLocal \/ FanOut \/ PutAck \/ RollbackLocal \/ RollbackRows
    \/ StageSplit \/ MarkSplit
    \/ DeleteLocal \/ DeleteRows \/ DeleteSplitRow \/ AskTimeout \/ EndRepair \/ EndDrain
    \/ StartRepair \/ HourPasses
    \/ \E E \in SUBSET Nodes : ExpireDeadNodes(E)
    \/ \E n \in Nodes :
          \/ PushWrite(n) \/ PushRecord(n) \/ PushFail(n) \/ PushTimeout(n) \/ RollbackPeer(n)
          \/ StartDelete(n) \/ DeletePeer(n) \/ StartDrain(n) \/ Ask(n)
          \/ Download(n) \/ RecordPull(n)
          \/ Announce(n) \/ SweepOrphan(n) \/ RestoreRow(n)
          \/ VerifyPlacement(n) \/ RemovePhantom(n)
          \/ Crash(n) \/ DiskLoss(n) \/ HeartbeatLapse(n) \/ Restart(n) \/ SetDraining(n)

Spec == Init /\ [][Next]_vars

\* The next step of the put, of the leader's job, and of node n's handlers.
Progress ==
    \/ RecordLocal \/ FanOut \/ PutAck \/ RollbackLocal \/ RollbackRows \/ StageSplit
    \/ DeleteLocal \/ DeleteRows \/ DeleteSplitRow \/ EndRepair \/ EndDrain
    \/ \E n \in Nodes : RollbackPeer(n) \/ DeletePeer(n) \/ Ask(n)
HandlePush(n) == PushWrite(n) \/ PushRecord(n) \/ PushFail(n)
HandlePull(n) == Download(n) \/ RecordPull(n) \/ RestoreRow(n) \/ RemovePhantom(n)

\* Calls in flight return (every one has a timeout), crashed nodes come back,
\* time passes, every leader tick runs every job, and every node reconciles
\* every hour.
Fairness ==
    /\ WF_vars(Progress) /\ \A n \in Nodes : WF_vars(HandlePush(n)) /\ WF_vars(HandlePull(n))
    /\ WF_vars(\E n \in Nodes : Restart(n))
    /\ SF_vars(HourPasses)
    /\ SF_vars(\E n \in Nodes : Announce(n) \/ SweepOrphan(n) \/ VerifyPlacement(n))
    /\ SF_vars(\E n \in Nodes : StartDelete(n))
    /\ SF_vars(StartRepair)
    /\ SF_vars(\E n \in Nodes : StartDrain(n))

FairSpec == Spec /\ Fairness

----------------------------------------------------------------------------
Stored == {n \in Nodes : file[n] # "none"}

\* While fewer nodes crash than the write quorum counts copies, a published
\* object stays on some disk and a placement row leads a reader to it, also when
\* the disks of the crashed nodes are lost: no drain, repair, sweep, rollback,
\* late transfer, expiry or reconcile pass ever removes the last copy that can
\* be found.
Findable == split = "present" => Sources # {}

\* What is deleted, or was never published, leaves nothing behind: whatever
\* crashes, times out or lands late, in the end no disk and no row holds it.
Reclaimed ==
    <>[](~SplitRow /\ put \in {"failed", "staged"}) => <>[](Stored = {} /\ Located = {})

\* Unless the keys that cannot be repaired fill the repair pass, a published
\* object that is still on some disk gets back to Factor copies, each with its
\* row.
Restored ==
    plan.stuck < RepairBatch /\ <>[](split = "present" /\ Stored # {}) =>
        <>[](Cardinality(Sources) >= Factor)

\* While nodes drain, the object leaves them, also when repair never gets to it:
\* unless the keys that cannot be moved fill the drain's batch, in the end no
\* draining node has a copy of it on record.
Drained ==
    plan.stuck < DrainBatch /\ <>[](draining # {} /\ split = "present" /\ Stored # {}) =>
        <>[](draining \cap Located = {})
=============================================================================
