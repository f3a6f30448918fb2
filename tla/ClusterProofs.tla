--------------------------- MODULE ClusterProofs ----------------------------
(***************************************************************************)
(* What Cluster promises, proved for every number of nodes, documents and  *)
(* clients, every page size and every plan: a batch is held once           *)
(* (StoredOnce), a refresh that succeeds shows what was acknowledged       *)
(* (RefreshSees), a delete_by_query that succeeds tombstoned what it found *)
(* (QueryDeleted) and a node hides its own deletes (OwnDeleteHidden).      *)
(*                                                                         *)
(* Each step moves one request, and a request is moved by its own handler  *)
(* only (Moves); the other steps act on it through what is shared, which   *)
(* mostly grows (Grows).  The invariants say, stage by stage, what a       *)
(* request knows of the shared state.                                      *)
(***************************************************************************)
EXTENDS Cluster, FiniteSetTheorems, WellFoundedInduction, TLAPS

Kinds  == {"write", "delete", "refresh", "search", "byQuery"}
Stages == {"idle", "receive", "sent", "handle", "commit", "invalidate", "cut", "reply", "splits", "tombs",
           "fetched", "hits", "refresh", "asking", "ok", "error"}

ReqType ==
    [kind : Kinds \cup {"none"}, at : Stages, node : Nodes, docs : SUBSET Docs, refresh : BOOLEAN,
     by : Nodes, prev : SUBSET Docs, list : SUBSET Docs, seqs : SUBSET Nat, seq : Nat,
     before : SUBSET Docs, asked : SUBSET Nodes,
     waiting : SUBSET Nodes, failed : BOOLEAN, raced : BOOLEAN, seen : SUBSET Docs, out : SUBSET Docs]

ListType == [rows : SUBSET Docs, seqs : SUBSET Nat, fresh : BOOLEAN]

PlanType ==
    [balance : BOOLEAN, published : SUBSET Docs, todo : [Clients -> Seq(Requests)],
     left : [Bounds -> Nat], spent : SUBSET Bounds]

TypeOK ==
    /\ plan \in PlanType
    /\ todo \in [Clients -> Seq(Requests)]
    /\ req \in [Clients -> ReqType]
    /\ buffer \in [Nodes -> SUBSET Docs]
    /\ published \in SUBSET Docs
    /\ holders \in [Docs -> SUBSET Nodes]
    /\ rows \in SUBSET Docs /\ ordinal \in [Docs -> Nat] /\ drawn \in Nat
    /\ cache \in [Nodes -> ListType]
    /\ peers \in [Nodes -> [list : SUBSET Nodes, fresh : BOOLEAN]]
    /\ beating \in SUBSET Nodes /\ flag \in SUBSET Nodes /\ draining \in SUBSET Nodes
    /\ acked \in [writes : SUBSET Docs, deletes : SUBSET Docs, own : SUBSET (Nodes \X Docs)]

----------------------------------------------------------------------------
(* The invariants *)

\* The stages a request of a kind goes through.
Route(kind) ==
    CASE kind = "none"    -> {"idle"}
      [] kind = "write"   -> {"receive", "sent", "handle", "cut", "reply", "ok", "error"}
      [] kind = "delete"  -> {"receive", "sent", "handle", "commit", "invalidate", "reply", "ok", "error"}
      [] kind = "refresh" -> {"refresh", "asking", "ok", "error"}
      [] kind = "search"  -> {"splits", "tombs", "fetched", "hits", "ok", "error"}
      [] kind = "byQuery" -> {"splits", "tombs", "fetched", "hits", "receive", "sent", "handle",
                              "commit", "invalidate", "reply", "ok", "error"}

Routed == \A c \in Clients : req[c].at \in Route(req[c].kind)

\* The documents client c's i-th request writes; its current one is the 0th.
Claim(c, i) ==
    LET t == IF i = 0 THEN req[c] ELSE todo[c][i]
    IN  IF t.kind = "write" THEN t.docs ELSE {}

\* No document is written by two requests.
Disjoint ==
    \A c, o \in Clients : \A i \in 0..Len(todo[c]), j \in 0..Len(todo[o]) :
        Claim(c, i) \cap Claim(o, j) # {} => c = o /\ i = j

\* A request still to be sent has left nothing.
Untouched == \A c \in Clients : \A i \in 1..Len(todo[c]) : \A d \in Claim(c, i) : holders[d] = {}

\* Who holds the documents of a write, by its stage.
Held(c) ==
    req[c].kind = "write" => \A d \in req[c].docs :
        /\ req[c].at \in {"receive", "sent"} => holders[d] = {}
        /\ (req[c].at = "handle" /\ req[c].by # req[c].node) => holders[d] = {}
        /\ (req[c].at = "handle" /\ holders[d] # {}) =>
              "faults" \in plan.spent /\ \E p \in Nodes : holders[d] = {p}
        /\ req[c].at \in {"cut", "reply"} => req[c].by \in holders[d]
        /\ (req[c].at \in {"cut", "reply"} /\ req[c].by # req[c].node) => holders[d] = {req[c].by}

\* At most two nodes hold a document, and only after a failed call two.
Few == \A d \in Docs : \E p, q \in Nodes :
          holders[d] \subseteq {p, q} /\ ("faults" \in plan.spent \/ p = q)

\* An acknowledged write is held.
AckedHeld == \A d \in acked.writes : holders[d] # {}

HoldInv == Routed /\ Disjoint /\ Untouched /\ (\A c \in Clients : Held(c)) /\ Few /\ AckedHeld

\* What a node took it still has, or it is published.
Kept == \A d \in Docs : \A n \in holders[d] : d \in published \/ d \in buffer[n]

\* While no heartbeat lapsed, the registry lists every node.
Listed == "lapses" \in plan.spent \/ beating = Nodes

\* What a refresh still has to publish is on a node it waits for.
Awaits(c) ==
    req[c].kind = "refresh" =>
        /\ \A d \in req[c].before : holders[d] # {}
        /\ (req[c].at = "asking" /\ req[c].asked # {} /\ "lapses" \notin plan.spent /\ ~req[c].failed) =>
              \A d \in req[c].before : d \in published \/ \E n \in req[c].waiting : d \in buffer[n]
        /\ (req[c].at = "ok" /\ req[c].asked # {} /\ "lapses" \notin plan.spent) => req[c].before \subseteq published

Shown(c) ==
    (req[c].kind = "write" /\ req[c].refresh /\ req[c].at \in {"reply", "ok"} /\ ~req[c].failed) =>
        req[c].docs \subseteq published

RefreshInv == Kept /\ Listed /\ \A c \in Clients : Awaits(c) /\ Shown(c)

\* Every tombstone list, read or cached, is a list of rows.
CachedRows == \A n \in Nodes : cache[n].rows \subseteq rows

\* Stages of a round after its search.
Chosen == {"receive", "sent", "handle", "commit", "invalidate", "reply"}

\* Stages between a search's list and its hits.
Searched == {"fetched", "hits"}

Queried(c) ==
    /\ req[c].at \in Searched => req[c].list \subseteq rows
    /\ (req[c].at \in {"invalidate", "reply"} /\ req[c].kind # "write") => req[c].docs \subseteq rows
    /\ req[c].kind = "byQuery" =>
        /\ req[c].before \subseteq published
        /\ req[c].at \in {"tombs"} \cup Searched \cup Chosen => req[c].before \subseteq req[c].seen
        /\ req[c].at \in Chosen => req[c].list \subseteq rows /\ req[c].docs = FirstPage(req[c].seen \ req[c].list)
        /\ req[c].at = "ok" => req[c].before \subseteq rows

QueryInv == CachedRows /\ \A c \in Clients : Queried(c)

\* An ordinal read so far: an open transaction commits later ones.
Older(s) == s <= drawn /\ \A c \in Clients : req[c].at = "commit" => s < req[c].seq

\* A list lacks only rows that are newer than all it has read.
Complete(list, seqs) == \A d \in rows : d \in list \/ d \in Since(seqs)

OrderInv ==
    /\ \A c, o \in Clients : (req[c].at = "commit" /\ req[o].at = "commit") => c = o
    /\ \A c \in Clients : req[c].at = "commit" => req[c].seq <= drawn
    /\ \A d \in rows : Older(ordinal[d])
    /\ \A n \in Nodes : (\A s \in cache[n].seqs : Older(s)) /\ Complete(cache[n].rows, cache[n].seqs)
    /\ \A c \in Clients : req[c].at = "fetched" =>
          (\A s \in req[c].seqs : Older(s)) /\ Complete(req[c].list, req[c].seqs)

\* The deletes a node has answered for.
Own(n) == {d \in Docs : <<n, d>> \in acked.own}

\* No list that node n uses or is about to use misses d.
Covers(n, d) ==
    /\ d \in rows
    /\ cache[n].fresh => d \in cache[n].rows
    /\ \A o \in Clients : (req[o].at = "fetched" /\ req[o].node = n) => d \in req[o].list

Deleting(c) ==
    (req[c].kind # "write" /\ req[c].at = "reply" /\ ~req[c].raced) =>
        \A d \in req[c].docs : Covers(req[c].by, d)

Searching(c) ==
    req[c].kind = "search" =>
        /\ req[c].before \subseteq Own(req[c].node)
        /\ req[c].at = "hits" => req[c].before \subseteq req[c].list
        /\ req[c].at = "ok" => req[c].out \cap req[c].before = {}

OwnInv == (\A n \in Nodes : \A d \in Own(n) : Covers(n, d)) /\ \A c \in Clients : Deleting(c) /\ Searching(c)
----------------------------------------------------------------------------
(* Types *)

\* A failing call, a lapse or a drain is counted and remembered.
LEMMA Spent ==
    ASSUME TypeOK, NEW what \in Bounds, Spend(what)
    PROVE  plan' \in PlanType /\ plan'.spent = plan.spent \cup {what} /\ plan'.balance = plan.balance
<1> DEFINE rest == [plan.left EXCEPT ![what] = @ - 1]
           now  == plan.spent \cup {what}
<1>1. plan.left \in [Bounds -> Nat] /\ now \in SUBSET Bounds /\ plan.left[what] > 0
  BY ZenonT(30) DEF TypeOK, Spend, PlanType
<1>2. rest \in [Bounds -> Nat]
  BY <1>1
<1>3. plan' = [plan EXCEPT !.left = rest, !.spent = now]
  BY ZenonT(30) DEF Spend
<1> HIDE DEF rest, now
<1>4. plan' \in PlanType /\ plan'.spent = now /\ plan'.balance = plan.balance
  BY <1>1, <1>2, <1>3, ZenonT(30) DEF TypeOK, PlanType
<1> QED  BY <1>4, ZenonT(30) DEF now

\* A handler replaces the record of its own request.
LEMMA SetReq ==
    ASSUME TypeOK, NEW c \in Clients, NEW r, Set(c, r)
    PROVE  /\ req'[c] = r
           /\ \A o \in Clients \ {c} : req'[o] = req[o]
           /\ r \in ReqType => req' \in [Clients -> ReqType]
BY ZenonT(30) DEF TypeOK, Set

\* A client without a request has the record of one.
LEMMA IdleType == Idle \in ReqType
<1>1. (CHOOSE n \in Nodes : TRUE) \in Nodes
  BY ClusterAssumption, ZenonT(30)
<1> QED  BY <1>1, ZenonT(30) DEF Idle, ReqType, Kinds, Stages

\* A node that has read no list has an empty one.
LEMMA NoListType == NoList \in ListType /\ NoList.rows = {} /\ NoList.seqs = {} /\ NoList.fresh = FALSE
BY DEF NoList, ListType

\* The cluster starts with its types.
LEMMA InitTypes == Init => TypeOK
<1> SUFFICES ASSUME Init PROVE TypeOK
  OBVIOUS
<1>1. plan \in PlanType /\ todo \in [Clients -> Seq(Requests)] /\ published \in SUBSET Docs
  BY PlansAssumption, ZenonT(30) DEF Init, PlanType
<1>2. req \in [Clients -> ReqType]
  BY IdleType, ZenonT(30) DEF Init
<1>3. cache \in [Nodes -> ListType] /\ ordinal \in [Docs -> Nat] /\ drawn \in Nat
  BY NoListType DEF Init
<1> QED  BY <1>1, <1>2, <1>3, ZenonT(30) DEF Init, TypeOK

\* What tombstones_for makes of a list: its rows and ordinals, and those of the rows past it.
LEMMA ExtendedType ==
    ASSUME TypeOK, NEW old \in ListType
    PROVE  /\ Extended(old).rows = old.rows \cup Since(old.seqs)
           /\ Extended(old).seqs = old.seqs \cup {ordinal[d] : d \in Since(old.seqs)}
           /\ Extended(old).rows \in SUBSET Docs /\ Extended(old).seqs \in SUBSET Nat
<1>1. /\ Extended(old).rows = old.rows \cup Since(old.seqs)
      /\ Extended(old).seqs = old.seqs \cup {ordinal[d] : d \in Since(old.seqs)}
  BY DEF Extended
<1>2. old.rows \in SUBSET Docs /\ old.seqs \in SUBSET Nat
  BY DEF ListType
<1>3. Since(old.seqs) \in SUBSET Docs
  BY ZenonT(30) DEF Since, TypeOK
<1>4. {ordinal[d] : d \in Since(old.seqs)} \in SUBSET Nat
  BY <1>3 DEF TypeOK
<1> QED  BY <1>1, <1>2, <1>3, <1>4, ZenonT(30)

\* The record a handler writes is a request again.
LEMMA ServeType ==
    ASSUME TypeOK, NEW c \in Clients, Serve(c)
    PROVE  req' \in [Clients -> ReqType]
<1> USE DEF TypeOK
<1>r. req[c] \in ReqType
  OBVIOUS
<1>1. ASSUME NEW pc \in Stages, Go(c, pc) PROVE req' \in [Clients -> ReqType]
  <2>1. [req[c] EXCEPT !.at = pc] \in ReqType
    BY <1>r, ZenonT(30) DEF ReqType
  <2> QED  BY <1>1, <2>1, SetReq, ZenonT(30) DEF Go
<1>2. CASE FallBack(c)
  <2>1. [req[c] EXCEPT !.by = req[c].node, !.at = "handle"] \in ReqType
    BY <1>r, ZenonT(30) DEF ReqType, Stages
  <2> QED  BY <1>2, <2>1, SetReq, ZenonT(30) DEF FallBack
<1>3. CASE PickTarget(c)
  <2>1. ASSUME NEW list \in SUBSET Nodes,
               NEW p \in IF ~plan.balance \/ Cardinality(list) < 2 THEN {req[c].node} ELSE list,
               Set(c, [req[c] EXCEPT !.by = p, !.at = IF p = req[c].node THEN "handle" ELSE "sent"])
        PROVE  req' \in [Clients -> ReqType]
    <3>1. [req[c] EXCEPT !.by = p, !.at = IF p = req[c].node THEN "handle" ELSE "sent"] \in ReqType
      BY <1>r, <2>1, ZenonT(30) DEF ReqType, Stages
    <3> QED  BY <2>1, <3>1, SetReq, ZenonT(30)
  <2>2. peers[req[c].node].list \in SUBSET Nodes /\ Candidates \in SUBSET Nodes
    BY <1>r, ZenonT(30) DEF ReqType, Candidates
  <2>3. PICK list \in {peers[req[c].node].list, Candidates, {}} :
            \E p \in IF ~plan.balance \/ Cardinality(list) < 2 THEN {req[c].node} ELSE list :
                Set(c, [req[c] EXCEPT !.by = p, !.at = IF p = req[c].node THEN "handle" ELSE "sent"])
    BY <1>3, ZenonT(30) DEF PickTarget
  <2>4. list \in SUBSET Nodes
    BY <2>2, <2>3, ZenonT(30)
  <2> QED  BY <2>1, <2>3, <2>4, ZenonT(30)
<1>4. CASE Invalidate(c)
  <2>1. [req[c] EXCEPT !.at = "reply", !.raced = Reading(req[c].by)] \in ReqType
    BY <1>r, ZenonT(30) DEF ReqType, Stages, Reading
  <2> QED  BY <1>4, <2>1, SetReq, ZenonT(30) DEF Invalidate
<1>5. CASE Cut(c)
  <2>1. [req[c] EXCEPT !.at = "reply", !.failed = TRUE] \in ReqType
    BY <1>r, ZenonT(30) DEF ReqType, Stages
  <2> QED  BY <1>1, <1>5, <2>1, SetReq, ZenonT(30) DEF Cut, Stages
<1>6. CASE ReadSplits(c)
  <2>1. [req[c] EXCEPT !.seen = published, !.at = "tombs"] \in ReqType
    BY <1>r, ZenonT(30) DEF ReqType, Stages
  <2> QED  BY <1>6, <2>1, SetReq, ZenonT(30) DEF ReadSplits
<1>7. CASE UseCache(c)
  <2>1. [req[c] EXCEPT !.list = cache[req[c].node].rows, !.at = "hits"] \in ReqType
    <3>1. cache[req[c].node].rows \in SUBSET Docs
      BY <1>r, ZenonT(30) DEF ReqType, TypeOK, ListType
    <3> QED  BY <1>r, <3>1, ZenonT(30) DEF ReqType, Stages
  <2> QED  BY <1>7, <2>1, SetReq, ZenonT(30) DEF UseCache
<1>8. CASE FetchRows(c)
  <2>1. ASSUME NEW old \in ListType
        PROVE  [req[c] EXCEPT !.list = Extended(old).rows, !.seqs = Extended(old).seqs, !.at = "fetched"] \in ReqType
    <3>1. Extended(old).rows \in SUBSET Docs /\ Extended(old).seqs \in SUBSET Nat
      BY ExtendedType, ZenonT(30)
    <3> QED  BY <1>r, <3>1, ZenonT(30) DEF ReqType, Stages
  <2>2. cache[req[c].node] \in ListType /\ NoList \in ListType
    BY <1>r, NoListType, ZenonT(30) DEF ReqType, TypeOK
  <2>3. \/ Go(c, "error")
        \/ \E old \in {cache[req[c].node], NoList} :
              Set(c, [req[c] EXCEPT !.list = Extended(old).rows, !.seqs = Extended(old).seqs, !.at = "fetched"])
    BY <1>8, ZenonT(30) DEF FetchRows
  <2>4. CASE Go(c, "error")
    BY <1>1, <2>4, ZenonT(30) DEF Stages
  <2>5. ASSUME NEW old \in ListType,
               Set(c, [req[c] EXCEPT !.list = Extended(old).rows, !.seqs = Extended(old).seqs, !.at = "fetched"])
        PROVE  req' \in [Clients -> ReqType]
    BY <2>1, <2>5, SetReq, ZenonT(30)
  <2> QED  BY <2>2, <2>3, <2>4, <2>5, ZenonT(30)
<1>16. CASE DrawOrdinal(c)
  <2>1. [req[c] EXCEPT !.seq = drawn', !.at = "commit"] \in ReqType
    <3>1. drawn' \in Nat
      BY <1>16 DEF DrawOrdinal
    <3> QED  BY <1>r, <3>1, ZenonT(30) DEF ReqType, Stages
  <2> QED  BY <1>16, <2>1, SetReq, ZenonT(30) DEF DrawOrdinal
<1>9. CASE Search(c)
  <2>1. [req[c] EXCEPT !.out = req[c].seen \ req[c].list, !.at = "ok"] \in ReqType
    BY <1>r, ZenonT(30) DEF ReqType, Stages
  <2> QED  BY <1>9, <2>1, SetReq, ZenonT(30) DEF Search
<1>10. CASE Round(c)
  <2> DEFINE ids == FirstPage(req[c].seen \ req[c].list)
             next == [req[c] EXCEPT !.docs = ids, !.prev = ids, !.by = req[c].node]
  <2>1. ids \in SUBSET Docs
    BY <1>r, ZenonT(30) DEF ReqType, FirstPage
  <2> HIDE DEF ids
  <2>2. next \in ReqType
    BY <1>r, <2>1, ZenonT(30) DEF ReqType
  <2> HIDE DEF next
  <2>3. \A pc \in Stages : [next EXCEPT !.at = pc] \in ReqType
    BY <2>2, ZenonT(30) DEF ReqType
  <2>4. \E pc \in Stages : Set(c, [next EXCEPT !.at = pc])
    <3>1. Set(c, CASE ids = {} -> [next EXCEPT !.at = "ok"]
                    [] ids # {} /\ ids \subseteq req[c].prev -> [next EXCEPT !.at = "error"]
                    [] OTHER -> [next EXCEPT !.at = "receive"])
      BY <1>10, Zenon DEF Round, ids, next
    <3> QED  BY <3>1, ZenonT(30) DEF Stages
  <2> QED  BY <2>3, <2>4, SetReq, ZenonT(30)
<1>11. CASE AskAll(c)
  <2>1. \A ask \in SUBSET Nodes :
            [req[c] EXCEPT !.asked = ask, !.waiting = ask \cup {req[c].node}, !.at = "asking"] \in ReqType
    BY <1>r, ZenonT(30) DEF ReqType, Stages
  <2>2. IngestPeers \in SUBSET Nodes /\ {} \in SUBSET Nodes
    BY ZenonT(30) DEF IngestPeers
  <2> QED  BY <1>11, <2>1, <2>2, SetReq, ZenonT(30) DEF AskAll
<1>12. ASSUME NEW n \in Nodes, FlushOn(c, n) PROVE req' \in [Clients -> ReqType]
  <2>1. /\ [req[c] EXCEPT !.waiting = @ \ {n}] \in ReqType
        /\ [req[c] EXCEPT !.waiting = @ \ {n}, !.failed = TRUE] \in ReqType
    BY <1>r, ZenonT(30) DEF ReqType
  <2> QED  BY <1>12, <2>1, SetReq, ZenonT(30) DEF FlushOn
<1>13. CASE Refuse(c) \/ Receive(c) \/ UpsertRows(c) \/ StoreRows(c)
  BY <1>1, <1>13, ZenonT(30) DEF Refuse, Receive, UpsertRows, StoreRows, Stages
<1>14. CASE Store(c) \/ Reply(c) \/ Refreshed(c)
  BY <1>1, <1>14, ZenonT(30) DEF Store, Reply, Answer, Refreshed, Stages
<1>15. CASE HandoffFails(c) \/ UpsertFails(c) \/ ReplyLost(c)
  BY <1>1, <1>2, <1>15, ZenonT(30) DEF HandoffFails, UpsertFails, ReplyLost, Stages
<1> QED
  BY <1>3, <1>4, <1>5, <1>6, <1>7, <1>8, <1>9, <1>10, <1>11, <1>12, <1>13, <1>14, <1>15, <1>16, Zenon DEF Serve

\* A request as it is sent.
LEMMA SendReq ==
    ASSUME TypeOK, NEW c \in Clients, NEW n \in Nodes, Send(c, n)
    PROVE  /\ req' \in [Clients -> ReqType] /\ todo' \in [Clients -> Seq(Requests)]
           /\ todo[c] # <<>> /\ todo' = [todo EXCEPT ![c] = Tail(todo[c])]
           /\ \A o \in Clients \ {c} : req'[o] = req[o]
           /\ req'[c].kind = Head(todo[c]).kind /\ req'[c].docs = Head(todo[c]).docs
           /\ req'[c].kind \in Kinds /\ req'[c].node = n
           /\ req'[c].at = CASE req'[c].kind \in {"write", "delete"}   -> "receive"
                              [] req'[c].kind = "refresh"               -> "refresh"
                              [] req'[c].kind \in {"search", "byQuery"} -> "splits"
           /\ req'[c].before = CASE req'[c].kind = "refresh" -> acked.writes
                                 [] req'[c].kind = "search"  -> Own(n)
                                 [] OTHER                    -> published
<1> DEFINE t == Head(todo[c])
           before == CASE t.kind = "refresh" -> acked.writes
                       [] t.kind = "search"  -> Own(n)
                       [] OTHER              -> published
           first == CASE t.kind \in {"write", "delete"}   -> "receive"
                      [] t.kind = "refresh"               -> "refresh"
                      [] t.kind \in {"search", "byQuery"} -> "splits"
           r == [Idle EXCEPT !.kind = t.kind, !.node = n, !.by = n, !.docs = t.docs,
                     !.refresh = t.refresh, !.before = before, !.at = first]
<1>1. todo[c] # <<>> /\ todo' = [todo EXCEPT ![c] = Tail(todo[c])] /\ Set(c, r)
  BY Zenon DEF Send, Own
<1>2. todo[c] \in Seq(Requests) /\ t \in Requests /\ Tail(todo[c]) \in Seq(Requests)
  BY <1>1 DEF TypeOK
<1>3. todo' \in [Clients -> Seq(Requests)]
  BY <1>1, <1>2, ZenonT(30) DEF TypeOK
<1>4. before \in SUBSET Docs
  BY ZenonT(30) DEF TypeOK, Own
<1>5. t.kind \in Kinds /\ t.docs \in SUBSET Docs /\ t.refresh \in BOOLEAN
  BY <1>2, ZenonT(30) DEF Requests, Kinds
<1>6. first \in Stages
  BY <1>5, ZenonT(30) DEF Kinds, Stages
<1> HIDE DEF t, before, first
<1>7. r \in ReqType /\ r.kind = t.kind /\ r.docs = t.docs /\ r.node = n /\ r.at = first /\ r.before = before
  BY <1>4, <1>5, <1>6, IdleType, ZenonT(30) DEF ReqType
<1> HIDE DEF r
<1>8. req'[c] = r /\ (\A o \in Clients \ {c} : req'[o] = req[o]) /\ req' \in [Clients -> ReqType]
  BY <1>1, <1>7, SetReq, ZenonT(30)
<1> QED
  BY <1>1, <1>3, <1>5, <1>7, <1>8, Zenon DEF t, before, first

\* A request is moved by its client or by its own handler.
LEMMA Moves ==
    ASSUME TypeOK, [Next]_vars, NEW c \in Clients
    PROVE  \/ req'[c] = req[c]
           \/ Serve(c)
           \/ \E n \in Nodes : Send(c, n)
<1>1. ASSUME NEW o \in Clients, Serve(o), o # c PROVE req'[c] = req[c]
  <2>1. \E r : Set(o, r)
    BY <1>1, ZenonT(30) DEF Serve, Refuse, PickTarget, Receive, HandoffFails, Store, DrawOrdinal, UpsertRows, UpsertFails, Invalidate,
           Cut, Reply, ReplyLost, ReadSplits, UseCache, FetchRows, StoreRows, Search, Round, AskAll, FlushOn,
           Refreshed, Go, FallBack, Answer
  <2> QED  BY <1>1, <2>1, SetReq, ZenonT(30)
<1>2. ASSUME NEW o \in Clients, NEW n \in Nodes, Send(o, n), o # c PROVE req'[c] = req[c]
  BY <1>2, SendReq
<1>3. ASSUME NEW n \in Nodes,
             WorkerFlush(n) \/ ExpireTombstones(n) \/ ExpirePeers(n) \/ Heartbeat(n) \/ Lapse(n) \/ SetDraining(n)
      PROVE  req'[c] = req[c]
  BY <1>3, Zenon DEF WorkerFlush, ExpireTombstones, ExpirePeers, Heartbeat, Lapse, SetDraining
<1>4. ASSUME UNCHANGED vars PROVE req'[c] = req[c]
  BY <1>4, Zenon DEF vars
<1> QED  BY <1>1, <1>2, <1>3, <1>4, Zenon DEF Next

----------------------------------------------------------------------------
(* Who writes what *)

\* A store and a flush are the only steps that move documents.
LEMMA DataWriters ==
    ASSUME TypeOK, [Next]_vars
    PROVE  \/ UNCHANGED data
           \/ \E c \in Clients : Store(c)
           \/ \E n \in Nodes : Flushed(n)
<1>1. ASSUME NEW c \in Clients, Serve(c)
      PROVE  UNCHANGED data \/ Store(c) \/ \E n \in Nodes : Flushed(n)
  <2>1. req[c].by \in Nodes
    BY ZenonT(30) DEF TypeOK, ReqType
  <2> QED
    BY <1>1, <2>1, Zenon DEF Serve, Refuse, PickTarget, Receive, HandoffFails, DrawOrdinal, UpsertRows, UpsertFails, Invalidate,
         Cut, Reply, ReplyLost, ReadSplits, UseCache, FetchRows, StoreRows, Search, Round, AskAll, FlushOn, Refreshed
<1>2. ASSUME NEW c \in Clients, NEW n \in Nodes, Send(c, n) PROVE UNCHANGED data
  BY <1>2, Zenon DEF Send
<1>3. ASSUME NEW n \in Nodes,
             WorkerFlush(n) \/ ExpireTombstones(n) \/ ExpirePeers(n) \/ Heartbeat(n) \/ Lapse(n) \/ SetDraining(n)
      PROVE  UNCHANGED data \/ Flushed(n)
  BY <1>3, Zenon DEF WorkerFlush, ExpireTombstones, ExpirePeers, Heartbeat, Lapse, SetDraining
<1>4. ASSUME UNCHANGED vars PROVE UNCHANGED data
  BY <1>4, Zenon DEF vars
<1> QED  BY <1>1, <1>2, <1>3, <1>4, Zenon DEF Next

\* Tombstone rows are written by deletes only (upsert_tombstones).
LEMMA RowWriters ==
    ASSUME [Next]_vars
    PROVE  UNCHANGED tombs \/ \E c \in Clients : DrawOrdinal(c) \/ UpsertRows(c)
<1>1. ASSUME NEW c \in Clients, Serve(c) PROVE UNCHANGED tombs \/ DrawOrdinal(c) \/ UpsertRows(c)
  BY <1>1, Zenon DEF Serve, Refuse, PickTarget, Receive, HandoffFails, Store, UpsertFails, Invalidate,
         Cut, Reply, ReplyLost, ReadSplits, UseCache, FetchRows, StoreRows, Search, Round, AskAll, FlushOn, Refreshed
<1>2. ASSUME NEW c \in Clients, NEW n \in Nodes, Send(c, n) PROVE UNCHANGED tombs
  BY <1>2, Zenon DEF Send
<1>3. ASSUME NEW n \in Nodes,
             WorkerFlush(n) \/ ExpireTombstones(n) \/ ExpirePeers(n) \/ Heartbeat(n) \/ Lapse(n) \/ SetDraining(n)
      PROVE  UNCHANGED tombs
  BY <1>3, Zenon DEF WorkerFlush, ExpireTombstones, ExpirePeers, Heartbeat, Lapse, SetDraining
<1>4. ASSUME UNCHANGED vars PROVE UNCHANGED tombs
  BY <1>4, Zenon DEF vars
<1> QED  BY <1>1, <1>2, <1>3, <1>4, Zenon DEF Next

\* A node's tombstone list is stored by a search, and dropped by a delete or by its age.
LEMMA CacheWriters ==
    ASSUME [Next]_vars
    PROVE  \/ UNCHANGED cache
           \/ \E c \in Clients : Invalidate(c) \/ StoreRows(c)
           \/ \E n \in Nodes : ExpireTombstones(n)
<1>1. ASSUME NEW c \in Clients, Serve(c) PROVE UNCHANGED cache \/ Invalidate(c) \/ StoreRows(c)
  BY <1>1, Zenon DEF Serve, Refuse, PickTarget, Receive, HandoffFails, Store, DrawOrdinal, UpsertRows, UpsertFails,
         Cut, Reply, ReplyLost, ReadSplits, UseCache, FetchRows, Search, Round, AskAll, FlushOn, Refreshed
<1>2. ASSUME NEW c \in Clients, NEW n \in Nodes, Send(c, n) PROVE UNCHANGED cache
  BY <1>2, Zenon DEF Send
<1>3. ASSUME NEW n \in Nodes,
             WorkerFlush(n) \/ ExpirePeers(n) \/ Heartbeat(n) \/ Lapse(n) \/ SetDraining(n)
      PROVE  UNCHANGED cache
  BY <1>3, Zenon DEF WorkerFlush, ExpirePeers, Heartbeat, Lapse, SetDraining
<1>4. ASSUME UNCHANGED vars PROVE UNCHANGED cache
  BY <1>4, Zenon DEF vars
<1> QED  BY <1>1, <1>2, <1>3, <1>4, Zenon DEF Next

\* Only an answer acknowledges.
LEMMA AckWriters ==
    ASSUME [Next]_vars
    PROVE  UNCHANGED acked \/ \E c \in Clients : Reply(c)
<1>1. ASSUME NEW c \in Clients, Serve(c) PROVE UNCHANGED acked \/ Reply(c)
  BY <1>1, Zenon DEF Serve, Refuse, PickTarget, Receive, HandoffFails, Store, DrawOrdinal, UpsertRows, UpsertFails, Invalidate,
         Cut, ReplyLost, ReadSplits, UseCache, FetchRows, StoreRows, Search, Round, AskAll, FlushOn, Refreshed
<1>2. ASSUME NEW c \in Clients, NEW n \in Nodes, Send(c, n) PROVE UNCHANGED acked
  BY <1>2, Zenon DEF Send
<1>3. ASSUME NEW n \in Nodes,
             WorkerFlush(n) \/ ExpireTombstones(n) \/ ExpirePeers(n) \/ Heartbeat(n) \/ Lapse(n) \/ SetDraining(n)
      PROVE  UNCHANGED acked
  BY <1>3, Zenon DEF WorkerFlush, ExpireTombstones, ExpirePeers, Heartbeat, Lapse, SetDraining
<1>4. ASSUME UNCHANGED vars PROVE UNCHANGED acked
  BY <1>4, Zenon DEF vars
<1> QED  BY <1>1, <1>2, <1>3, <1>4, Zenon DEF Next

\* The plan counts down.
LEMMA PlanWriters ==
    ASSUME [Next]_vars
    PROVE  UNCHANGED plan \/ \E what \in Bounds : Spend(what)
<1> USE DEF Fault
<1>1. ASSUME NEW c \in Clients, Serve(c) PROVE UNCHANGED plan \/ Spend("faults")
  BY <1>1, Zenon DEF Serve, Refuse, PickTarget, Receive, HandoffFails, Store, DrawOrdinal, UpsertRows, UpsertFails, Invalidate,
         Cut, Reply, ReplyLost, ReadSplits, UseCache, FetchRows, StoreRows, Search, Round, AskAll, FlushOn, Refreshed
<1>2. ASSUME NEW c \in Clients, NEW n \in Nodes, Send(c, n) PROVE UNCHANGED plan
  BY <1>2, Zenon DEF Send
<1>3. ASSUME NEW n \in Nodes,
             WorkerFlush(n) \/ ExpireTombstones(n) \/ ExpirePeers(n) \/ Heartbeat(n) \/ Lapse(n) \/ SetDraining(n)
      PROVE  UNCHANGED plan \/ Spend("lapses") \/ Spend("drains")
  BY <1>3, Zenon DEF WorkerFlush, ExpireTombstones, ExpirePeers, Heartbeat, Lapse, SetDraining
<1>4. ASSUME UNCHANGED vars PROVE UNCHANGED plan
  BY <1>4, Zenon DEF vars
<1> QED  BY <1>1, <1>2, <1>3, <1>4, Zenon DEF Next, Bounds

\* Heartbeats, pauses and operators write the registry.
LEMMA RegistryWriters ==
    ASSUME [Next]_vars
    PROVE  /\ beating' = beating \/ (\E n \in Nodes : Heartbeat(n) \/ Lapse(n))
           /\ flag' = flag \/ (\E n \in Nodes : SetDraining(n))
           /\ draining' = draining \/ (\E n \in Nodes : Heartbeat(n))
<1>1. ASSUME NEW c \in Clients, Serve(c) PROVE UNCHANGED registry
  BY <1>1, Zenon DEF Serve, Refuse, PickTarget, Receive, HandoffFails, Store, DrawOrdinal, UpsertRows, UpsertFails, Invalidate,
         Cut, Reply, ReplyLost, ReadSplits, UseCache, FetchRows, StoreRows, Search, Round, AskAll, FlushOn, Refreshed
<1>2. ASSUME NEW c \in Clients, NEW n \in Nodes, Send(c, n) PROVE UNCHANGED registry
  BY <1>2, Zenon DEF Send
<1>3. ASSUME NEW n \in Nodes, WorkerFlush(n) \/ ExpireTombstones(n) \/ ExpirePeers(n) PROVE UNCHANGED registry
  BY <1>3, Zenon DEF WorkerFlush, ExpireTombstones, ExpirePeers
<1>4. ASSUME NEW n \in Nodes PROVE /\ Heartbeat(n) => flag' = flag
                                   /\ Lapse(n) => flag' = flag /\ draining' = draining
                                   /\ SetDraining(n) => beating' = beating /\ draining' = draining
  BY Zenon DEF Heartbeat, Lapse, SetDraining
<1>5. ASSUME UNCHANGED vars PROVE UNCHANGED registry
  BY <1>5, Zenon DEF vars
<1>6. UNCHANGED registry => beating' = beating /\ flag' = flag /\ draining' = draining
  BY Zenon DEF registry
<1> QED  BY <1>1, <1>2, <1>3, <1>4, <1>5, <1>6, Zenon DEF Next

\* The list of handoff candidates is read by a bulk request, and expires.
LEMMA PeerWriters ==
    ASSUME [Next]_vars
    PROVE  UNCHANGED peers \/ (\E c \in Clients : PickTarget(c)) \/ \E n \in Nodes : ExpirePeers(n)
<1>1. ASSUME NEW c \in Clients, Serve(c) PROVE UNCHANGED peers \/ PickTarget(c)
  BY <1>1, Zenon DEF Serve, Refuse, Receive, HandoffFails, Store, DrawOrdinal, UpsertRows, UpsertFails, Invalidate,
         Cut, Reply, ReplyLost, ReadSplits, UseCache, FetchRows, StoreRows, Search, Round, AskAll, FlushOn, Refreshed
<1>2. ASSUME NEW c \in Clients, NEW n \in Nodes, Send(c, n) PROVE UNCHANGED peers
  BY <1>2, Zenon DEF Send
<1>3. ASSUME NEW n \in Nodes,
             WorkerFlush(n) \/ ExpireTombstones(n) \/ Heartbeat(n) \/ Lapse(n) \/ SetDraining(n)
      PROVE  UNCHANGED peers
  BY <1>3, Zenon DEF WorkerFlush, ExpireTombstones, Heartbeat, Lapse, SetDraining
<1>4. ASSUME UNCHANGED vars PROVE UNCHANGED peers
  BY <1>4, Zenon DEF vars
<1> QED  BY <1>1, <1>2, <1>3, <1>4, Zenon DEF Next

\* A client takes its next request when it sends it.
LEMMA TodoWriters ==
    ASSUME [Next]_vars
    PROVE  UNCHANGED todo \/ \E c \in Clients, n \in Nodes : Send(c, n)
<1>1. ASSUME NEW c \in Clients, Serve(c) PROVE UNCHANGED todo
  BY <1>1, Zenon DEF Serve, Refuse, PickTarget, Receive, HandoffFails, Store, DrawOrdinal, UpsertRows, UpsertFails, Invalidate,
         Cut, Reply, ReplyLost, ReadSplits, UseCache, FetchRows, StoreRows, Search, Round, AskAll, FlushOn, Refreshed
<1>3. ASSUME NEW n \in Nodes,
             WorkerFlush(n) \/ ExpireTombstones(n) \/ ExpirePeers(n) \/ Heartbeat(n) \/ Lapse(n) \/ SetDraining(n)
      PROVE  UNCHANGED todo
  BY <1>3, Zenon DEF WorkerFlush, ExpireTombstones, ExpirePeers, Heartbeat, Lapse, SetDraining
<1>4. ASSUME UNCHANGED vars PROVE UNCHANGED todo
  BY <1>4, Zenon DEF vars
<1> QED  BY <1>1, <1>3, <1>4, Zenon DEF Next

\* The types are inductive.
LEMMA TypeStep == TypeOK /\ [Next]_vars => TypeOK'
<1> SUFFICES ASSUME TypeOK, [Next]_vars PROVE TypeOK'
  OBVIOUS
<1>1. plan' \in PlanType
  BY PlanWriters, Spent, Zenon DEF TypeOK
<1>2. todo' \in [Clients -> Seq(Requests)]
  BY TodoWriters, SendReq, Zenon DEF TypeOK
<1>3. req' \in [Clients -> ReqType]
  <2>1. ASSUME NEW n \in Nodes,
               WorkerFlush(n) \/ ExpireTombstones(n) \/ ExpirePeers(n) \/ Heartbeat(n) \/ Lapse(n) \/ SetDraining(n)
        PROVE  req' = req
    BY <2>1, Zenon DEF WorkerFlush, ExpireTombstones, ExpirePeers, Heartbeat, Lapse, SetDraining
  <2>2. ASSUME UNCHANGED vars PROVE req' = req
    BY <2>2, Zenon DEF vars
  <2> QED  BY <2>1, <2>2, ServeType, SendReq, Zenon DEF TypeOK, Next
<1>4. buffer' \in [Nodes -> SUBSET Docs] /\ published' \in SUBSET Docs /\ holders' \in [Docs -> SUBSET Nodes]
  <2>1. ASSUME NEW c \in Clients, Store(c)
        PROVE  buffer' \in [Nodes -> SUBSET Docs] /\ published' \in SUBSET Docs /\ holders' \in [Docs -> SUBSET Nodes]
    BY <2>1 DEF Store, TypeOK, ReqType
  <2>2. ASSUME NEW n \in Nodes, Flushed(n)
        PROVE  buffer' \in [Nodes -> SUBSET Docs] /\ published' \in SUBSET Docs /\ holders' \in [Docs -> SUBSET Nodes]
    BY <2>2, ZenonT(30) DEF Flushed, TypeOK
  <2> QED  BY <2>1, <2>2, DataWriters, ZenonT(30) DEF TypeOK, data
<1>5. rows' \in SUBSET Docs /\ ordinal' \in [Docs -> Nat] /\ drawn' \in Nat
  <2>1. ASSUME NEW c \in Clients, DrawOrdinal(c) PROVE rows' = rows /\ ordinal' = ordinal /\ drawn' \in Nat
    BY <2>1 DEF DrawOrdinal, TypeOK
  <2>2. ASSUME NEW c \in Clients, UpsertRows(c)
        PROVE  rows' \in SUBSET Docs /\ ordinal' \in [Docs -> Nat] /\ drawn' = drawn
    BY <2>2, ZenonT(30) DEF UpsertRows, TypeOK, ReqType
  <2> QED  BY <2>1, <2>2, RowWriters, ZenonT(30) DEF TypeOK, tombs
<1>6. cache' \in [Nodes -> ListType]
  <2>0. cache \in [Nodes -> ListType]
    BY Zenon DEF TypeOK
  <2>1. ASSUME NEW c \in Clients, Invalidate(c) PROVE cache' \in [Nodes -> ListType]
    <3>1. req[c].by \in Nodes /\ cache' = [cache EXCEPT ![req[c].by].fresh = FALSE]
      BY <2>1, ZenonT(30) DEF Invalidate, TypeOK, ReqType
    <3>2. PICK n \in Nodes : cache' = [cache EXCEPT ![n].fresh = FALSE]
      BY <3>1, ZenonT(30)
    <3> QED  BY <2>0, <3>2, ZenonT(30) DEF ListType
  <2>2. ASSUME NEW c \in Clients, StoreRows(c) PROVE cache' \in [Nodes -> ListType]
    BY <2>2, ZenonT(30) DEF StoreRows, TypeOK, ReqType, ListType
  <2>3. ASSUME NEW n \in Nodes, ExpireTombstones(n)
        PROVE  cache' \in [Nodes -> ListType]
    BY <2>0, <2>3, ZenonT(30) DEF ExpireTombstones, ListType
  <2> QED  BY <2>1, <2>2, <2>3, CacheWriters, ZenonT(30) DEF TypeOK
<1>7. peers' \in [Nodes -> [list : SUBSET Nodes, fresh : BOOLEAN]]
  <2>1. ASSUME NEW c \in Clients, PickTarget(c) PROVE peers' \in [Nodes -> [list : SUBSET Nodes, fresh : BOOLEAN]]
    <3>1. req[c].node \in Nodes /\ Candidates \in SUBSET Nodes
      BY ZenonT(30) DEF Candidates, TypeOK, ReqType
    <3>2. \/ peers' = peers
          \/ \E list \in {Candidates, {}} : peers' = [peers EXCEPT ![req[c].node] = [list |-> list, fresh |-> TRUE]]
      BY <2>1, Zenon DEF PickTarget
    <3>3. ASSUME NEW n \in Nodes, NEW list \in SUBSET Nodes, peers' = [peers EXCEPT ![n] = [list |-> list, fresh |-> TRUE]]
          PROVE  peers' \in [Nodes -> [list : SUBSET Nodes, fresh : BOOLEAN]]
      BY <3>3, ZenonT(30) DEF TypeOK
    <3> QED  BY <3>1, <3>2, <3>3, ZenonT(30) DEF TypeOK
  <2>2. ASSUME NEW n \in Nodes, ExpirePeers(n) PROVE peers' \in [Nodes -> [list : SUBSET Nodes, fresh : BOOLEAN]]
    <3>1. peers \in [Nodes -> [list : SUBSET Nodes, fresh : BOOLEAN]] /\ peers' = [peers EXCEPT ![n].fresh = FALSE]
      BY <2>2, ZenonT(30) DEF ExpirePeers, TypeOK
    <3>2. ASSUME NEW p \in [list : SUBSET Nodes, fresh : BOOLEAN]
          PROVE  [p EXCEPT !.fresh = FALSE] \in [list : SUBSET Nodes, fresh : BOOLEAN]
      BY ZenonT(30)
    <3> QED  BY <3>1, <3>2, ZenonT(30)
  <2> QED  BY <2>1, <2>2, PeerWriters, ZenonT(30) DEF TypeOK
<1>8. beating' \in SUBSET Nodes /\ flag' \in SUBSET Nodes /\ draining' \in SUBSET Nodes
  BY RegistryWriters, ZenonT(30) DEF TypeOK, Heartbeat, Lapse, SetDraining
<1>9. acked' \in [writes : SUBSET Docs, deletes : SUBSET Docs, own : SUBSET (Nodes \X Docs)]
  BY AckWriters DEF TypeOK, Reply, Answer, ReqType
<1> QED
  BY <1>1, <1>2, <1>3, <1>4, <1>5, <1>6, <1>7, <1>8, <1>9, ZenonT(30) DEF TypeOK

\* What is published, tombstoned, held, acknowledged or spent stays so.
LEMMA Grows ==
    ASSUME TypeOK, [Next]_vars
    PROVE  /\ published \subseteq published' /\ rows \subseteq rows'
           /\ \A d \in Docs : holders[d] \subseteq holders'[d]
           /\ acked.writes \subseteq acked'.writes /\ acked.own \subseteq acked'.own
           /\ plan.spent \subseteq plan'.spent
<1>1. published \subseteq published' /\ \A d \in Docs : holders[d] \subseteq holders'[d]
  <2>1. ASSUME NEW c \in Clients, Store(c)
        PROVE  published \subseteq published' /\ \A d \in Docs : holders[d] \subseteq holders'[d]
    BY <2>1, ZenonT(30) DEF Store, TypeOK
  <2>2. ASSUME NEW n \in Nodes, Flushed(n)
        PROVE  published \subseteq published' /\ \A d \in Docs : holders[d] \subseteq holders'[d]
    BY <2>2, ZenonT(30) DEF Flushed
  <2> QED  BY <2>1, <2>2, DataWriters, ZenonT(30) DEF data
<1>2. rows \subseteq rows'
  BY RowWriters, ZenonT(30) DEF DrawOrdinal, UpsertRows, tombs
<1>3. acked.writes \subseteq acked'.writes /\ acked.own \subseteq acked'.own
  BY AckWriters DEF Reply, Answer
<1>4. plan.spent \subseteq plan'.spent
  BY PlanWriters, Spent, ZenonT(30)
<1> QED  BY <1>1, <1>2, <1>3, <1>4, ZenonT(30)

----------------------------------------------------------------------------
(* What a handler makes of its request *)

\* A handler's step, by the stage it finds and the stage it leaves.
Stage(c) ==
    LET r == req[c]
        s == req'[c]
    IN  \/ Refuse(c) /\ r.at = "receive" /\ s = [r EXCEPT !.at = "error"]
        \/ /\ PickTarget(c) /\ r.at = "receive"
           /\ \E p \in Nodes : s = [r EXCEPT !.by = p, !.at = IF p = r.node THEN "handle" ELSE "sent"]
        \/ Receive(c) /\ r.at = "sent" /\ s = [r EXCEPT !.at = "handle"]
        \/ HandoffFails(c) /\ r.at = "sent" /\ s = [r EXCEPT !.by = r.node, !.at = "handle"]
        \/ /\ Store(c) /\ r.at = "handle" /\ r.kind = "write"
           /\ s = [r EXCEPT !.at = IF r.refresh THEN "cut" ELSE "reply"]
        \/ /\ DrawOrdinal(c) /\ r.at = "handle" /\ r.kind \in {"delete", "byQuery"}
           /\ s = [r EXCEPT !.seq = drawn', !.at = "commit"]
        \/ UpsertRows(c) /\ r.at = "commit" /\ s = [r EXCEPT !.at = "invalidate"]
        \/ /\ UpsertFails(c) /\ ((r.at = "handle" /\ r.kind \in {"delete", "byQuery"}) \/ r.at = "commit")
           /\ s \in {[r EXCEPT !.at = "error"], [r EXCEPT !.by = r.node, !.at = "handle"]}
        \/ Invalidate(c) /\ r.at = "invalidate" /\ s = [r EXCEPT !.at = "reply", !.raced = Reading(r.by)]
        \/ /\ Cut(c) /\ r.at = "cut"
           /\ \/ Flushed(r.by) /\ s = [r EXCEPT !.at = "reply"]
              \/ UNCHANGED data /\ s = [r EXCEPT !.at = "reply", !.failed = TRUE]
        \/ /\ Reply(c) /\ r.at = "reply"
           /\ s = [r EXCEPT !.at = IF r.kind = "byQuery" /\ ~LastRound(c) THEN "splits" ELSE "ok"]
        \/ /\ ReplyLost(c) /\ r.at = "reply" /\ r.by # r.node /\ Spend("faults")
           /\ s = [r EXCEPT !.by = r.node, !.at = "handle"]
        \/ ReadSplits(c) /\ r.at = "splits" /\ s = [r EXCEPT !.seen = published, !.at = "tombs"]
        \/ /\ UseCache(c) /\ r.at = "tombs" /\ cache[r.node].fresh
           /\ s = [r EXCEPT !.list = cache[r.node].rows, !.at = "hits"]
        \/ /\ FetchRows(c) /\ r.at = "tombs"
           /\ \/ s = [r EXCEPT !.at = "error"]
              \/ \E old \in {cache[r.node], NoList} :
                    s = [r EXCEPT !.list = Extended(old).rows, !.seqs = Extended(old).seqs, !.at = "fetched"]
        \/ StoreRows(c) /\ r.at = "fetched" /\ s = [r EXCEPT !.at = "hits"]
        \/ /\ Search(c) /\ r.at = "hits" /\ r.kind = "search"
           /\ s = [r EXCEPT !.out = r.seen \ r.list, !.at = "ok"]
        \/ /\ Round(c) /\ r.at = "hits" /\ r.kind = "byQuery"
           /\ \E pc \in {"ok", "error", "receive"} :
                 /\ pc = "ok" => FirstPage(r.seen \ r.list) = {}
                 /\ s = [[r EXCEPT !.docs = FirstPage(r.seen \ r.list), !.prev = FirstPage(r.seen \ r.list),
                                   !.by = r.node] EXCEPT !.at = pc]
        \/ /\ AskAll(c) /\ r.at = "refresh"
           /\ \E ask \in {IngestPeers, {}} :
                 s = [r EXCEPT !.asked = ask, !.waiting = ask \cup {r.node}, !.at = "asking"]
        \/ \E n \in Nodes :
              /\ FlushOn(c, n) /\ r.at = "asking"
              /\ \/ Flushed(n) /\ s = [r EXCEPT !.waiting = @ \ {n}]
                 \/ UNCHANGED data /\ s = [r EXCEPT !.waiting = @ \ {n}, !.failed = TRUE]
        \/ /\ Refreshed(c) /\ r.at = "asking"
           /\ s = [r EXCEPT !.at = IF r.waiting = {} /\ ~r.failed THEN "ok" ELSE "error"]

\* No handler moves a request in any other way.
LEMMA Staged ==
    ASSUME TypeOK, NEW c \in Clients, Serve(c)
    PROVE  Stage(c)
<1>0. \A r : Set(c, r) => req'[c] = r
  BY SetReq, ZenonT(30)
<1> USE <1>0 DEF Go, At, FallBack
<1>n. req[c].node \in Nodes
  BY ZenonT(30) DEF TypeOK, ReqType
<1>1. CASE Refuse(c) \/ Receive(c) \/ HandoffFails(c) \/ ReplyLost(c)
  BY <1>1, Zenon DEF Refuse, Receive, HandoffFails, ReplyLost, Stage, Fault
<1>2. CASE PickTarget(c)
  <2>1. ASSUME NEW list \in SUBSET Nodes,
               NEW p \in IF ~plan.balance \/ Cardinality(list) < 2 THEN {req[c].node} ELSE list
        PROVE  p \in Nodes
    BY <1>n, <2>1, ZenonT(30)
  <2>2. peers[req[c].node].list \in SUBSET Nodes /\ Candidates \in SUBSET Nodes /\ {} \in SUBSET Nodes
    BY <1>n, ZenonT(30) DEF TypeOK, Candidates
  <2>3. req[c].at = "receive" /\ \E p \in Nodes :
            Set(c, [req[c] EXCEPT !.by = p, !.at = IF p = req[c].node THEN "handle" ELSE "sent"])
    BY <1>2, <2>1, <2>2, ZenonT(30) DEF PickTarget
  <2> QED  BY <1>2, <2>3, Zenon DEF Stage
<1>3. CASE Store(c) \/ Invalidate(c) \/ Cut(c)
  BY <1>3, Zenon DEF Store, Invalidate, Cut, Stage
<1>10. CASE DrawOrdinal(c) \/ UpsertRows(c)
  BY <1>10, Zenon DEF DrawOrdinal, Upserting, UpsertRows, Stage
<1>8. CASE UpsertFails(c)
  <2>1. req'[c] \in {[req[c] EXCEPT !.at = "error"], [req[c] EXCEPT !.by = req[c].node, !.at = "handle"]}
    BY <1>8, ZenonT(30) DEF UpsertFails
  <2> QED  BY <1>8, <2>1, Zenon DEF UpsertFails, Upserting, Stage
<1>4. CASE Reply(c)
  BY <1>4, Zenon DEF Reply, Answer, Stage
<1>5. CASE ReadSplits(c) \/ UseCache(c) \/ StoreRows(c) \/ Search(c)
  BY <1>5, Zenon DEF ReadSplits, UseCache, StoreRows, Search, Stage, Usable
<1>9. CASE FetchRows(c)
  <2>1. req[c].at = "tombs"
    BY <1>9, Zenon DEF FetchRows
  <2>2. \/ req'[c] = [req[c] EXCEPT !.at = "error"]
        \/ \E old \in {cache[req[c].node], NoList} :
              req'[c] = [req[c] EXCEPT !.list = Extended(old).rows, !.seqs = Extended(old).seqs, !.at = "fetched"]
    BY <1>9, Zenon DEF FetchRows
  <2> QED  BY <1>9, <2>1, <2>2, Zenon DEF Stage
<1>6. CASE Round(c)
  <2> DEFINE ids == FirstPage(req[c].seen \ req[c].list)
             next == [req[c] EXCEPT !.docs = ids, !.prev = ids, !.by = req[c].node]
  <2>1. Set(c, CASE ids = {} -> [next EXCEPT !.at = "ok"]
                 [] ids # {} /\ ids \subseteq req[c].prev -> [next EXCEPT !.at = "error"]
                 [] OTHER -> [next EXCEPT !.at = "receive"])
    BY <1>6, Zenon DEF Round
  <2>2. \E pc \in {"ok", "error", "receive"} : (pc = "ok" => ids = {}) /\ req'[c] = [next EXCEPT !.at = pc]
    <3> HIDE DEF ids, next
    <3> QED  BY <2>1, ZenonT(30)
  <2> QED  BY <1>6, <2>2, Zenon DEF Stage, Round
<1>7. CASE AskAll(c) \/ Refreshed(c) \/ \E n \in Nodes : FlushOn(c, n)
  BY <1>7, Zenon DEF AskAll, Refreshed, FlushOn, Stage
<1> QED  BY <1>1, <1>2, <1>3, <1>4, <1>5, <1>6, <1>7, <1>8, <1>9, <1>10, Zenon DEF Serve

\* What a handler never changes, and what only one of its stages does.
LEMMA Fixed ==
    ASSUME TypeOK, NEW c \in Clients, Serve(c)
    PROVE  LET r == req[c]
               s == req'[c]
           IN  /\ s.kind = r.kind /\ s.node = r.node /\ s.before = r.before /\ s.refresh = r.refresh
               /\ r.at # "hits" => s.docs = r.docs
               /\ r.at # "tombs" => s.list = r.list /\ s.seqs = r.seqs
               /\ r.at # "handle" => s.seq = r.seq
               /\ r.at # "splits" => s.seen = r.seen
               /\ r.at # "hits" => s.out = r.out
               /\ r.at # "refresh" => s.asked = r.asked
               /\ r.at \notin {"refresh", "asking"} => s.waiting = r.waiting
               /\ r.at \notin {"cut", "asking"} => s.failed = r.failed
               /\ r.at # "invalidate" => s.raced = r.raced
               /\ r.at \notin {"receive", "sent", "handle", "commit", "reply", "hits"} => s.by = r.by
<1>0. req[c] \in ReqType /\ Stage(c)
  BY Staged, ZenonT(30) DEF TypeOK
<1> USE DEF Stage, ReqType
<1>1. req'[c].kind = req[c].kind /\ req'[c].node = req[c].node
  BY <1>0, ZenonT(30)
<1>2. req'[c].before = req[c].before /\ req'[c].refresh = req[c].refresh
  BY <1>0
<1>3. req[c].at # "hits" => req'[c].docs = req[c].docs /\ req'[c].out = req[c].out
  BY <1>0, ZenonT(30)
<1>4. req[c].at # "tombs" => req'[c].list = req[c].list /\ req'[c].seqs = req[c].seqs
  BY <1>0, ZenonT(30)
<1>11. req[c].at # "handle" => req'[c].seq = req[c].seq
  BY <1>0, ZenonT(30)
<1>5. req[c].at # "splits" => req'[c].seen = req[c].seen
  BY <1>0, ZenonT(30)
<1>6. req[c].at # "refresh" => req'[c].asked = req[c].asked
  BY <1>0, ZenonT(30)
<1>7. req[c].at \notin {"refresh", "asking"} => req'[c].waiting = req[c].waiting
  BY <1>0, ZenonT(30)
<1>8. req[c].at \notin {"cut", "asking"} => req'[c].failed = req[c].failed
  BY <1>0, ZenonT(30)
<1>9. req[c].at # "invalidate" => req'[c].raced = req[c].raced
  BY <1>0, ZenonT(30)
<1>10. req[c].at \notin {"receive", "sent", "handle", "commit", "reply", "hits"} => req'[c].by = req[c].by
  BY <1>0, ZenonT(30)
<1> QED
  BY <1>1, <1>2, <1>3, <1>4, <1>5, <1>6, <1>7, <1>8, <1>9, <1>10, <1>11, Zenon

\* The stages a handler leads to.
LEMMA Onward ==
    ASSUME TypeOK, NEW c \in Clients, Serve(c)
    PROVE  LET r == req[c]
               s == req'[c]
           IN  /\ r.at = "receive" => s.at \in {"sent", "handle", "error"}
               /\ r.at = "sent" => s.at = "handle"
               /\ r.at = "handle" => \/ r.kind = "write" /\ s.at \in {"cut", "reply"}
                                     \/ r.kind \in {"delete", "byQuery"} /\ s.at \in {"commit", "handle", "error"}
               /\ r.at = "commit" => s.at \in {"invalidate", "handle", "error"}
               /\ r.at \in {"cut", "invalidate"} => s.at = "reply"
               /\ r.at = "reply" => s.at \in {"handle", "ok"} \/ (r.kind = "byQuery" /\ s.at = "splits")
               /\ r.at = "splits" => s.at = "tombs"
               /\ r.at = "tombs" => s.at \in {"fetched", "hits", "error"}
               /\ r.at = "fetched" => s.at = "hits"
               /\ r.at = "hits" => \/ r.kind = "search" /\ s.at = "ok"
                                   \/ r.kind = "byQuery" /\ s.at \in {"receive", "ok", "error"}
               /\ r.at \in {"refresh", "asking"} => s.at \in {"asking", "ok", "error"}
               /\ r.at \notin {"idle", "ok", "error"}
<1>0. req[c] \in ReqType /\ Stage(c)
  BY Staged, ZenonT(30) DEF TypeOK
<1> USE DEF Stage, ReqType
<1>1. req[c].at \in {"receive", "sent", "handle", "commit", "cut", "invalidate", "reply", "splits", "tombs", "fetched", "hits",
                     "refresh", "asking"}
  BY <1>0, Zenon
<1>2. CASE req[c].at = "receive"
  BY <1>0, <1>2, ZenonT(30)
<1>3. CASE req[c].at = "sent"
  BY <1>0, <1>3, ZenonT(30)
<1>4. CASE req[c].at = "handle"
  BY <1>0, <1>4, ZenonT(30)
<1>5. CASE req[c].at \in {"cut", "invalidate", "commit"}
  BY <1>0, <1>5, ZenonT(30)
<1>6. CASE req[c].at = "reply"
  BY <1>0, <1>6, ZenonT(30)
<1>7. CASE req[c].at \in {"splits", "tombs", "fetched"}
  BY <1>0, <1>7, ZenonT(30)
<1>8. CASE req[c].at = "hits"
  BY <1>0, <1>8, ZenonT(30)
<1>9. CASE req[c].at \in {"refresh", "asking"}
  BY <1>0, <1>9, ZenonT(30)
<1> QED  BY <1>1, <1>2, <1>3, <1>4, <1>5, <1>6, <1>7, <1>8, <1>9, ZenonT(30)

\* Every request stays on the route of its kind.
LEMMA RoutedStep ==
    ASSUME TypeOK, Routed, [Next]_vars
    PROVE  Routed'
<1> SUFFICES ASSUME NEW c \in Clients PROVE req'[c].at \in Route(req'[c].kind)
  BY ZenonT(30) DEF Routed
<1>0. req[c].at \in Route(req[c].kind) /\ req[c].kind \in Kinds \cup {"none"}
  BY ZenonT(30) DEF Routed, TypeOK, ReqType
<1>1. CASE req'[c] = req[c]
  BY <1>0, <1>1, ZenonT(30)
<1>2. ASSUME NEW n \in Nodes, Send(c, n) PROVE req'[c].at \in Route(req'[c].kind)
  BY <1>2, SendReq, ZenonT(30) DEF Kinds, Route
<1>3. ASSUME Serve(c) PROVE req'[c].at \in Route(req'[c].kind)
  BY <1>0, <1>3, Fixed, Onward DEF Route, Kinds
<1> QED  BY <1>1, <1>2, <1>3, Moves, ZenonT(30)

----------------------------------------------------------------------------
(* Who holds a document *)

\* A client's requests move up by one when it sends the next.
LEMMA ClaimsSend ==
    ASSUME TypeOK, NEW x \in Clients, NEW n \in Nodes, Send(x, n)
    PROVE  /\ Len(todo'[x]) \in Nat /\ Len(todo[x]) = Len(todo'[x]) + 1
           /\ \A i \in 0..Len(todo'[x]) : Claim(x, i)' = Claim(x, i + 1)
           /\ \A c \in Clients \ {x} : todo'[c] = todo[c] /\ \A i \in 0..Len(todo[c]) : Claim(c, i)' = Claim(c, i)
<1>1. todo[x] \in Seq(Requests) /\ todo[x] # <<>> /\ todo'[x] = Tail(todo[x])
  BY SendReq DEF TypeOK
<1>2. Len(todo'[x]) \in Nat /\ Len(todo[x]) = Len(todo'[x]) + 1
  BY <1>1
<1>3. ASSUME NEW i \in 0..Len(todo'[x]) PROVE Claim(x, i)' = Claim(x, i + 1)
  <2>1. CASE i = 0
    <3>1. todo[x][i + 1] = Head(todo[x])
      BY <1>1, <2>1
    <3> QED  BY <2>1, <3>1, SendReq DEF Claim
  <2>2. CASE i # 0
    <3>1. todo'[x][i] = todo[x][i + 1]
      BY <1>1, <1>2, <1>3, <2>2
    <3> QED  BY <1>2, <1>3, <2>2, <3>1 DEF Claim
  <2> QED  BY <2>1, <2>2, ZenonT(30)
<1>4. ASSUME NEW c \in Clients \ {x}
      PROVE  todo'[c] = todo[c] /\ \A i \in 0..Len(todo[c]) : Claim(c, i)' = Claim(c, i)
  <2>1. todo'[c] = todo[c] /\ req'[c] = req[c]
    BY SendReq DEF TypeOK
  <2> QED  BY <2>1 DEF Claim
<1> QED  BY <1>2, <1>3, <1>4, ZenonT(30)

\* Otherwise they stay what they are: a write never changes its documents.
LEMMA ClaimsStay ==
    ASSUME TypeOK, Routed, [Next]_vars, ~ \E x \in Clients, n \in Nodes : Send(x, n)
    PROVE  todo' = todo /\ \A c \in Clients : \A i \in 0..Len(todo[c]) : Claim(c, i)' = Claim(c, i)
<1>1. todo' = todo
  BY TodoWriters, Zenon
<1>2. ASSUME NEW c \in Clients PROVE Claim(c, 0)' = Claim(c, 0)
  <2>1. req'[c] = req[c] \/ Serve(c)
    BY Moves, Zenon
  <2>2. CASE req'[c] = req[c]
    BY <2>2 DEF Claim
  <2>3. CASE Serve(c)
    <3>1. req[c].kind = "write" => req[c].at # "hits"
      BY ZenonT(30) DEF Routed, Route
    <3> QED  BY <2>3, <3>1, Fixed, ZenonT(30) DEF Claim
  <2> QED  BY <2>1, <2>2, <2>3, ZenonT(30)
<1>3. ASSUME NEW c \in Clients, NEW i \in 0..Len(todo[c]), i # 0 PROVE Claim(c, i)' = Claim(c, i)
  BY <1>1, <1>3, ZenonT(30) DEF Claim
<1> QED  BY <1>1, <1>2, <1>3, ZenonT(30)

\* Two requests never come to write the same document.
LEMMA DisjointStep ==
    ASSUME TypeOK, Routed, Disjoint, [Next]_vars
    PROVE  Disjoint'
<1>l. \A c \in Clients : Len(todo[c]) \in Nat
  BY DEF TypeOK
<1>1. CASE ~ \E x \in Clients, n \in Nodes : Send(x, n)
  BY <1>1, ClaimsStay DEF Disjoint
<1>2. ASSUME NEW x \in Clients, NEW n \in Nodes, Send(x, n) PROVE Disjoint'
  <2> DEFINE up(c, i) == IF c = x THEN i + 1 ELSE i
  <2>1. ASSUME NEW c \in Clients, NEW i \in 0..Len(todo'[c])
        PROVE  up(c, i) \in 0..Len(todo[c]) /\ Claim(c, i)' = Claim(c, up(c, i))
    <3>1. CASE c = x
      BY <1>2, <2>1, <3>1, ClaimsSend
    <3>2. CASE c # x
      <4>1. todo'[c] = todo[c] /\ Claim(c, i)' = Claim(c, i)
        BY <1>2, <2>1, <3>2, ClaimsSend, ZenonT(30)
      <4> QED  BY <2>1, <3>2, <4>1, ZenonT(30)
    <3> QED  BY <3>1, <3>2, ZenonT(30)
  <2>2. SUFFICES ASSUME NEW c \in Clients, NEW o \in Clients,
                        NEW i \in 0..Len(todo'[c]), NEW j \in 0..Len(todo'[o]),
                        (Claim(c, i) \cap Claim(o, j))' # {}
                 PROVE  c = o /\ i = j
    BY ZenonT(30) DEF Disjoint
  <2>3. Claim(c, up(c, i)) \cap Claim(o, up(o, j)) # {}
    BY <2>1, <2>2, ZenonT(30)
  <2>4. c = o /\ up(c, i) = up(o, j)
    BY <2>1, <2>3 DEF Disjoint
  <2>5. i \in Int /\ j \in Int
    BY <1>2, <2>2, <1>l, ClaimsSend
  <2> QED  BY <2>4, <2>5
<1> QED  BY <1>1, <1>2, ZenonT(30)

\* Only a store adds a holder: the node that handles the batch.
LEMMA HolderWriters ==
    ASSUME TypeOK, [Next]_vars
    PROVE  holders' = holders \/ \E x \in Clients : Store(x)
BY DataWriters, Zenon DEF data, Flushed

\* The documents of a store, and who handles it.
LEMMA StoreHolds ==
    ASSUME TypeOK, NEW x \in Clients, Store(x)
    PROVE  /\ req[x].at = "handle" /\ req[x].kind = "write" /\ req[x].by \in Nodes
           /\ \A d \in Docs : holders'[d] = IF d \in req[x].docs THEN holders[d] \cup {req[x].by} ELSE holders[d]
           /\ plan' = plan /\ todo' = todo
           /\ req'[x] = [req[x] EXCEPT !.at = IF req[x].refresh THEN "cut" ELSE "reply"]
           /\ \A o \in Clients \ {x} : req'[o] = req[o]
<1>1. req[x].by \in Nodes
  BY ZenonT(30) DEF TypeOK, ReqType
<1>2. Set(x, [req[x] EXCEPT !.at = IF req[x].refresh THEN "cut" ELSE "reply"])
  BY Zenon DEF Store, Go
<1>3. /\ req'[x] = [req[x] EXCEPT !.at = IF req[x].refresh THEN "cut" ELSE "reply"]
      /\ \A o \in Clients \ {x} : req'[o] = req[o]
  BY <1>2, SetReq, ZenonT(30)
<1>4. \A d \in Docs : holders'[d] = IF d \in req[x].docs THEN holders[d] \cup {req[x].by} ELSE holders[d]
  BY ZenonT(30) DEF Store
<1>5. req[x].at = "handle" /\ req[x].kind = "write" /\ plan' = plan /\ todo' = todo
  BY Zenon DEF Store, At
<1> QED  BY <1>1, <1>3, <1>4, <1>5, ZenonT(30)

\* A request that waits is not stored: its documents are its own.
LEMMA UntouchedStep ==
    ASSUME TypeOK, Routed, Disjoint, Untouched, [Next]_vars
    PROVE  Untouched'
<1>l. \A c \in Clients : Len(todo[c]) \in Nat
  BY DEF TypeOK
<1>c. ASSUME NEW c \in Clients, NEW i \in 1..Len(todo[c]) PROVE Claim(c, i) \subseteq Docs
  <2>1. todo[c] \in Seq(Requests) /\ i \in 1..Len(todo[c])
    BY <1>c, ZenonT(30) DEF TypeOK
  <2>2. todo[c][i] \in Requests
    BY <2>1
  <2>3. todo[c][i].docs \subseteq Docs
    BY <2>2, ZenonT(30) DEF Requests
  <2> QED  BY <1>c, <1>l, <2>3 DEF Claim
<1>1. ASSUME NEW x \in Clients, NEW n \in Nodes, Send(x, n) PROVE Untouched'
  <2>1. holders' = holders
    BY <1>1, Zenon DEF Send, data
  <2>2. SUFFICES ASSUME NEW c \in Clients, NEW i \in 1..Len(todo'[c]), NEW d \in Claim(c, i)'
                 PROVE  holders[d] = {}
    BY <2>1, ZenonT(30) DEF Untouched
  <2>3. CASE c = x
    <3>1. i + 1 \in 1..Len(todo[c]) /\ d \in Claim(c, i + 1)
      BY <1>1, <2>2, <2>3, ClaimsSend
    <3> QED  BY <3>1, ZenonT(30) DEF Untouched
  <2>4. CASE c # x
    <3>1. i \in 1..Len(todo[c]) /\ d \in Claim(c, i)
      BY <1>1, <1>l, <2>2, <2>4, ClaimsSend
    <3> QED  BY <3>1, ZenonT(30) DEF Untouched
  <2> QED  BY <2>3, <2>4, ZenonT(30)
<1>2. CASE ~ \E x \in Clients, n \in Nodes : Send(x, n)
  <2>1. SUFFICES ASSUME NEW c \in Clients, NEW i \in 1..Len(todo[c]), NEW d \in Claim(c, i)
                 PROVE  holders'[d] = {}
    BY <1>2, <1>l, ClaimsStay DEF Untouched
  <2>2. holders[d] = {} /\ d \in Docs
    BY <1>c, <1>l, <2>1, ZenonT(30) DEF Untouched
  <2>3. ASSUME NEW x \in Clients, Store(x) PROVE holders'[d] = {}
    <3>1. d \notin Claim(x, 0)
      BY <1>l, <2>1 DEF Disjoint
    <3>2. d \notin req[x].docs
      BY <2>3, <3>1, StoreHolds, ZenonT(30) DEF Claim
    <3> QED  BY <2>2, <2>3, <3>2, StoreHolds, ZenonT(30)
  <2> QED  BY <2>2, <2>3, HolderWriters, ZenonT(30)
<1> QED  BY <1>1, <1>2, ZenonT(30)

\* Stage by stage, a write leaves its documents where Held says.
LEMMA HeldStep ==
    ASSUME TypeOK, HoldInv, [Next]_vars, NEW c \in Clients
    PROVE  Held(c)'
<1>r. req[c] \in ReqType /\ req'[c] \in ReqType
  BY TypeStep, ZenonT(30) DEF TypeOK
<1>h. Held(c)
  BY ZenonT(30) DEF HoldInv
<1>l. Len(todo[c]) \in Nat
  BY DEF TypeOK
<1>1. CASE Store(c)
  <2>1. SUFFICES ASSUME NEW d \in req[c].docs
                 PROVE  /\ req[c].by \in holders'[d]
                        /\ req[c].by # req[c].node => holders'[d] = {req[c].by}
    <3>1. /\ req'[c].kind = "write" /\ req'[c].docs = req[c].docs /\ req'[c].by = req[c].by
          /\ req'[c].node = req[c].node /\ req'[c].at \in {"cut", "reply"}
      <4>1. PICK pc \in {"cut", "reply"} : req'[c] = [req[c] EXCEPT !.at = pc]
        BY <1>1, StoreHolds, ZenonT(30)
      <4>2. req[c].kind = "write"
        BY <1>1, StoreHolds, ZenonT(30)
      <4> QED  BY <1>r, <4>1, <4>2, ZenonT(30) DEF ReqType
    <3> QED  BY <3>1, ZenonT(30) DEF Held
  <2>2. d \in Docs
    BY <1>r, <2>1, ZenonT(30) DEF ReqType
  <2>3. req[c].by # req[c].node => holders[d] = {}
    BY <1>1, <1>h, <2>1, StoreHolds, ZenonT(30) DEF Held
  <2> QED  BY <1>1, <2>1, <2>2, <2>3, StoreHolds, ZenonT(30)
<1>2. ASSUME NEW x \in Clients, x # c, Store(x) PROVE Held(c)'
  <2>1. SUFFICES ASSUME req[c].kind = "write" PROVE \A d \in req[c].docs : holders'[d] = holders[d]
    <3>1. req'[c] = req[c] /\ plan' = plan
      BY <1>2, StoreHolds, ZenonT(30)
    <3> QED  BY <1>h, <3>1, <2>1, ZenonT(30) DEF Held
  <2>2. SUFFICES ASSUME NEW d \in req[c].docs PROVE d \notin req[x].docs
    BY <1>2, <1>r, StoreHolds, ZenonT(30) DEF ReqType
  <2>3. d \in Claim(c, 0) /\ 0 \in 0..Len(todo[c]) /\ 0 \in 0..Len(todo[x])
    BY <1>l, <2>1, <2>2 DEF Claim, TypeOK
  <2>4. d \notin Claim(x, 0)
    BY <1>2, <2>3, ZenonT(30) DEF HoldInv, Disjoint
  <2> QED  BY <1>2, <2>4, StoreHolds, ZenonT(30) DEF Claim
<1>3. ASSUME ~ \E x \in Clients : Store(x) PROVE Held(c)'
  <2>1. holders' = holders /\ plan.spent \subseteq plan'.spent
    BY <1>3, HolderWriters, Grows, ZenonT(30)
  <2>2. CASE req'[c] = req[c]
    BY <1>h, <2>1, <2>2, ZenonT(30) DEF Held
  <2>3. ASSUME NEW n \in Nodes, Send(c, n) PROVE Held(c)'
    <3>1. SUFFICES ASSUME req'[c].kind = "write", NEW d \in req'[c].docs PROVE holders[d] = {} /\ req'[c].at = "receive"
      BY <2>1, ZenonT(30) DEF Held
    <3>2. d \in Claim(c, 0)' /\ 0 \in 0..Len(todo'[c])
      BY <2>3, <3>1, ClaimsSend DEF Claim
    <3>3. d \in Claim(c, 1) /\ 1 \in 1..Len(todo[c])
      BY <2>3, <3>2, ClaimsSend
    <3>4. req'[c].at = "receive"
      BY <2>3, <3>1, SendReq, ZenonT(30)
    <3> QED  BY <3>3, <3>4, ZenonT(30) DEF HoldInv, Untouched
  <2>4. ASSUME Serve(c) PROVE Held(c)'
    <3>1. SUFFICES ASSUME req[c].kind = "write", NEW d \in req[c].docs
                   PROVE  /\ req'[c].at \in {"receive", "sent"} => holders[d] = {}
                          /\ (req'[c].at = "handle" /\ req'[c].by # req'[c].node) => holders[d] = {}
                          /\ (req'[c].at = "handle" /\ holders[d] # {}) =>
                                "faults" \in plan'.spent /\ \E p \in Nodes : holders[d] = {p}
                          /\ req'[c].at \in {"cut", "reply"} => req'[c].by \in holders[d]
                          /\ (req'[c].at \in {"cut", "reply"} /\ req'[c].by # req'[c].node) => holders[d] = {req'[c].by}
      <4>1. req[c].kind = "write" => req[c].at # "hits"
        BY ZenonT(30) DEF HoldInv, Routed, Route
      <4>2. req'[c].kind = req[c].kind /\ (req[c].kind = "write" => req'[c].docs = req[c].docs)
        BY <2>4, <4>1, Fixed, ZenonT(30)
      <4> QED  BY <2>1, <4>2, ZenonT(30) DEF Held
    <3>2. req[c].at \in {"receive", "sent", "handle", "cut", "reply", "ok", "error"}
      BY <3>1, ZenonT(30) DEF HoldInv, Routed, Route
    <3>3. CASE req[c].at \in {"receive", "sent"}
      BY <2>4, <3>1, <3>3, <1>h, Onward, ZenonT(30) DEF Held
    <3>4. CASE req[c].at = "handle"
      BY <1>3, <2>4, <3>1, <3>4, Staged, ZenonT(30) DEF Stage
    <3>5. CASE req[c].at = "cut"
      BY <2>4, <3>1, <3>5, <1>h, Onward, Fixed DEF Held
    <3>6. CASE req[c].at = "reply"
      <4>1. \/ req'[c].at = "ok"
            \/ req[c].by # req[c].node /\ Spend("faults") /\ req'[c].at = "handle" /\ req'[c].by = req'[c].node
        <5>1. \/ req'[c] = [req[c] EXCEPT !.at = "ok"]
              \/ /\ req[c].by # req[c].node /\ Spend("faults")
                 /\ req'[c] = [req[c] EXCEPT !.by = req[c].node, !.at = "handle"]
          BY <2>4, <3>1, <3>6, Staged, ZenonT(30) DEF Stage
        <5> QED  BY <5>1, <1>r, ZenonT(30) DEF ReqType
      <4>2. req[c].by \in Nodes
        BY <1>r, ZenonT(30) DEF ReqType
      <4>3. Spend("faults") => "faults" \in plan'.spent
        BY Spent, ZenonT(30) DEF Bounds
      <4> QED  BY <4>1, <4>2, <4>3, <3>1, <3>6, <1>h, ZenonT(30) DEF Held
    <3> QED  BY <2>4, <3>2, <3>3, <3>4, <3>5, <3>6, Onward, ZenonT(30)
  <2> QED  BY <2>2, <2>3, <2>4, Moves, ZenonT(30)
<1> QED  BY <1>1, <1>2, <1>3, ZenonT(30)

\* At most two nodes come to hold a document.
LEMMA FewStep ==
    ASSUME TypeOK, HoldInv, [Next]_vars
    PROVE  Few'
<1>1. SUFFICES ASSUME NEW d \in Docs
               PROVE  \E p, q \in Nodes : holders'[d] \subseteq {p, q} /\ ("faults" \in plan'.spent \/ p = q)
  BY ZenonT(30) DEF Few
<1>2. PICK p, q \in Nodes : holders[d] \subseteq {p, q} /\ ("faults" \in plan.spent \/ p = q)
  BY ZenonT(30) DEF HoldInv, Few
<1>3. CASE holders'[d] = holders[d]
  BY <1>2, <1>3, Grows, ZenonT(30)
<1>4. ASSUME NEW x \in Clients, Store(x), d \in req[x].docs
      PROVE  \E p1, q1 \in Nodes : holders'[d] \subseteq {p1, q1} /\ ("faults" \in plan'.spent \/ p1 = q1)
  <2>1. /\ req[x].at = "handle" /\ req[x].kind = "write" /\ req[x].by \in Nodes /\ plan' = plan
        /\ holders'[d] = holders[d] \cup {req[x].by}
    BY <1>4, StoreHolds, ZenonT(30)
  <2>2. CASE holders[d] = {}
    BY <2>1, <2>2, ZenonT(30)
  <2>3. CASE holders[d] # {}
    <3>1. "faults" \in plan.spent /\ \E a \in Nodes : holders[d] = {a}
      BY <1>4, <2>1, <2>3, ZenonT(30) DEF HoldInv, Held
    <3> QED  BY <2>1, <3>1, ZenonT(30)
  <2> QED  BY <2>2, <2>3, ZenonT(30)
<1> QED  BY <1>3, <1>4, HolderWriters, StoreHolds, ZenonT(30)

\* What is acknowledged is held.
LEMMA AckedHeldStep ==
    ASSUME TypeOK, HoldInv, [Next]_vars
    PROVE  AckedHeld'
<1>1. SUFFICES ASSUME NEW d \in acked'.writes PROVE holders'[d] # {}
  BY ZenonT(30) DEF AckedHeld
<1>2. CASE d \in acked.writes
  <2>1. d \in Docs
    BY <1>2, ZenonT(30) DEF TypeOK
  <2> QED  BY <1>2, <2>1, Grows, ZenonT(30) DEF HoldInv, AckedHeld
<1>3. ASSUME NEW x \in Clients, Reply(x), d \notin acked.writes PROVE holders'[d] # {}
  <2>1. req[x].at = "reply" /\ req[x].kind = "write" /\ d \in req[x].docs
    BY <1>1, <1>3, ZenonT(30) DEF Reply, At, Answer
  <2>2. holders[d] # {} /\ d \in Docs
    BY <2>1, ZenonT(30) DEF HoldInv, Held, TypeOK, ReqType
  <2> QED  BY <2>2, Grows, ZenonT(30)
<1> QED  BY <1>1, <1>2, <1>3, AckWriters, ZenonT(30)

\* The cluster starts with nothing held, and plans that write a document once.
LEMMA InitHold == Init => HoldInv
<1> SUFFICES ASSUME Init PROVE HoldInv
  OBVIOUS
<1>i. \A c \in Clients : req[c].kind = "none" /\ req[c].at = "idle"
  BY ZenonT(30) DEF Init, Idle
<1>t. \A c \in Clients : todo[c] \in Seq(Requests)
  BY InitTypes, ZenonT(30) DEF TypeOK
<1>c. \A c \in Clients : Claim(c, 0) = {}
  BY <1>i, ZenonT(30) DEF Claim
<1>1. Routed
  BY <1>i, ZenonT(30) DEF Routed, Route
<1>2. Disjoint
  <2>1. SUFFICES ASSUME NEW c \in Clients, NEW o \in Clients, NEW i \in 0..Len(todo[c]), NEW j \in 0..Len(todo[o]),
                        Claim(c, i) \cap Claim(o, j) # {}
                 PROVE  c = o /\ i = j
    BY ZenonT(30) DEF Disjoint
  <2>2. i \in 1..Len(todo[c]) /\ j \in 1..Len(todo[o])
    BY <1>c, <1>t, <2>1
  <2>3. /\ todo[c][i].kind = "write" /\ todo[o][j].kind = "write"
        /\ todo[c][i].docs \cap todo[o][j].docs # {}
    BY <2>1, <2>2 DEF Claim
  <2>4. i \in DOMAIN todo[c] /\ j \in DOMAIN todo[o]
    BY <1>t, <2>2
  <2> QED  BY <2>3, <2>4, PlansAssumption DEF Init
<1>3. \A d \in Docs : holders[d] = {}
  BY ZenonT(30) DEF Init
<1>4. Untouched
  <2>1. SUFFICES ASSUME NEW c \in Clients, NEW i \in 1..Len(todo[c]), NEW d \in Claim(c, i) PROVE d \in Docs
    BY <1>3, ZenonT(30) DEF Untouched
  <2>2. todo[c][i] \in Requests /\ i # 0
    BY <1>t, <2>1
  <2> QED  BY <2>1, <2>2, ZenonT(30) DEF Claim, Requests
<1>5. \A c \in Clients : Held(c)
  BY <1>i, ZenonT(30) DEF Held
<1>6. Few
  BY <1>3, ClusterAssumption, ZenonT(30) DEF Few
<1>7. AckedHeld
  BY ZenonT(30) DEF Init, AckedHeld
<1> QED  BY <1>1, <1>2, <1>4, <1>5, <1>6, <1>7, ZenonT(30) DEF HoldInv

\* Who holds what is inductive.
LEMMA HoldStep ==
    ASSUME TypeOK, HoldInv, [Next]_vars
    PROVE  HoldInv'
BY RoutedStep, DisjointStep, UntouchedStep, HeldStep, FewStep, AckedHeldStep, Zenon DEF HoldInv

\* What StoredOnce says follows from who holds what.
LEMMA HoldingOnce == TypeOK /\ HoldInv => StoredOnce
<1> SUFFICES ASSUME TypeOK, HoldInv, NEW d \in Docs
             PROVE  /\ d \in acked.writes => holders[d] # {}
                    /\ Cardinality(holders[d]) <= IF "faults" \in plan.spent THEN 2 ELSE 1
  BY ZenonT(30) DEF StoredOnce
<1>1. PICK p, q \in Nodes : holders[d] \subseteq {p, q} /\ ("faults" \in plan.spent \/ p = q)
  BY ZenonT(30) DEF HoldInv, Few
<1>2. IsFiniteSet({p}) /\ Cardinality({p}) = 1
  BY FS_Singleton, ZenonT(30)
<1>3. IsFiniteSet({p} \cup {q}) /\ Cardinality({p} \cup {q}) <= 2
  BY <1>2, FS_AddElement
<1>4. {p} \cup {q} = {p, q}
  OBVIOUS
<1>5. Cardinality(holders[d]) <= Cardinality({p} \cup {q}) /\ Cardinality(holders[d]) \in Nat
  BY <1>1, <1>3, <1>4, FS_Subset, FS_CardinalityType, ZenonT(30)
<1>6. p = q => {p} \cup {q} = {p}
  OBVIOUS
<1>7. Cardinality({p} \cup {q}) \in Nat
  BY <1>3, FS_CardinalityType, ZenonT(30)
<1>8. Cardinality(holders[d]) <= IF "faults" \in plan.spent THEN 2 ELSE 1
  BY <1>1, <1>2, <1>3, <1>5, <1>6, <1>7
<1> QED  BY <1>8, ZenonT(30) DEF HoldInv, AckedHeld

\* The types, and who holds what, hold for ever.
LEMMA HoldInvariant == Spec => [](TypeOK /\ HoldInv)
<1>1. Init => TypeOK /\ HoldInv
  BY InitTypes, InitHold, ZenonT(30)
<1>2. TypeOK /\ HoldInv /\ [Next]_vars => (TypeOK /\ HoldInv)'
  BY TypeStep, HoldStep, ZenonT(30)
<1> QED  BY <1>1, <1>2, PTL DEF Spec

\* A batch is taken by exactly one node; only after a call between nodes failed
\* may a second one hold it too, and never a third (execute_bulk, bulk_internal):
\* in every cluster, whatever is refused, lost, late or drained.
THEOREM BatchStoredOnce == Spec => []StoredOnce
BY HoldInvariant, HoldingOnce, PTL

----------------------------------------------------------------------------
(* What a refresh shows *)

\* A buffered document stays in its buffer until it is published.
LEMMA Buffered ==
    ASSUME TypeOK, [Next]_vars, NEW n \in Nodes
    PROVE  buffer[n] \subseteq buffer'[n] \cup published'
<1>1. ASSUME NEW x \in Clients, Store(x) PROVE buffer[n] \subseteq buffer'[n]
  BY <1>1, ZenonT(30) DEF Store, TypeOK
<1>2. ASSUME NEW m \in Nodes, Flushed(m) PROVE buffer[n] \subseteq buffer'[n] \cup published'
  BY <1>2, ZenonT(30) DEF Flushed, TypeOK
<1> QED  BY <1>1, <1>2, DataWriters, ZenonT(30) DEF data

\* A flush publishes everything its node has buffered.
LEMMA FlushShows ==
    ASSUME NEW n, Flushed(n)
    PROVE  buffer[n] \subseteq published'
BY ZenonT(30) DEF Flushed

\* No document is lost between buffer and split.
LEMMA KeptStep ==
    ASSUME TypeOK, Kept, [Next]_vars
    PROVE  Kept'
<1>1. SUFFICES ASSUME NEW d \in Docs, NEW n \in holders'[d] PROVE d \in published' \/ d \in buffer'[n]
  BY ZenonT(30) DEF Kept
<1>2. CASE n \in holders[d]
  <2>1. n \in Nodes
    BY <1>2, ZenonT(30) DEF TypeOK
  <2> QED  BY <1>2, <2>1, Buffered, Grows, ZenonT(30) DEF Kept
<1>3. CASE n \notin holders[d]
  <2>1. PICK x \in Clients : Store(x)
    BY <1>1, <1>3, HolderWriters, ZenonT(30)
  <2>2. n = req[x].by /\ d \in req[x].docs /\ n \in Nodes
    <3>1. /\ holders'[d] = IF d \in req[x].docs THEN holders[d] \cup {req[x].by} ELSE holders[d]
          /\ req[x].by \in Nodes
      BY <2>1, StoreHolds, ZenonT(30)
    <3> QED  BY <1>1, <1>3, <3>1, ZenonT(30)
  <2> QED  BY <2>1, <2>2, ZenonT(30) DEF Store, TypeOK
<1> QED  BY <1>2, <1>3, ZenonT(30)

\* Only a lapse takes a node out of the registry's fresh rows.
LEMMA ListedStep ==
    ASSUME TypeOK, Listed, [Next]_vars
    PROVE  Listed'
<1>1. ASSUME NEW n \in Nodes, Heartbeat(n) PROVE beating \subseteq beating' /\ beating' \subseteq Nodes
  BY <1>1, ZenonT(30) DEF Heartbeat, TypeOK
<1>2. ASSUME NEW n \in Nodes, Lapse(n) PROVE "lapses" \in plan'.spent
  BY <1>2, Spent, ZenonT(30) DEF Lapse, Bounds
<1> QED  BY <1>1, <1>2, RegistryWriters, Grows, ZenonT(30) DEF Listed

\* A refresh waits for every node that has something it must show.
LEMMA AwaitsStep ==
    ASSUME TypeOK, HoldInv, RefreshInv, [Next]_vars, NEW c \in Clients
    PROVE  Awaits(c)'
<1>r. req[c] \in ReqType /\ req'[c] \in ReqType /\ Awaits(c)
  BY TypeStep, ZenonT(30) DEF TypeOK, RefreshInv
<1>g. /\ published \subseteq published' /\ plan.spent \subseteq plan'.spent
      /\ \A d \in Docs : holders[d] # {} => holders'[d] # {}
      /\ \A n \in Nodes : buffer[n] \subseteq buffer'[n] \cup published'
  BY Grows, Buffered, ZenonT(30)
<1>b. req[c].before \subseteq Docs /\ req[c].waiting \subseteq Nodes /\ req[c].node \in Nodes
  BY <1>r, ZenonT(30) DEF ReqType
<1>1. CASE req'[c] = req[c]
  BY <1>r, <1>g, <1>b, <1>1, ZenonT(30) DEF Awaits
<1>2. ASSUME NEW n \in Nodes, Send(c, n) PROVE Awaits(c)'
  <2>1. req'[c].kind = "refresh" => req'[c].at = "refresh" /\ req'[c].before = acked.writes
    BY <1>2, SendReq, ZenonT(30)
  <2>2. \A d \in acked.writes : holders'[d] # {}
    BY <1>g, ZenonT(30) DEF HoldInv, AckedHeld, TypeOK
  <2> QED  BY <2>1, <2>2, ZenonT(30) DEF Awaits
<1>3. ASSUME Serve(c) PROVE Awaits(c)'
  <2>1. SUFFICES ASSUME req[c].kind = "refresh", "lapses" \notin plan'.spent, req'[c].asked # {}
                 PROVE  /\ (req'[c].at = "asking" /\ ~req'[c].failed) =>
                              \A d \in req[c].before : d \in published' \/ \E n \in req'[c].waiting : d \in buffer'[n]
                        /\ req'[c].at = "ok" => req[c].before \subseteq published'
    BY <1>3, <1>r, <1>g, <1>b, Fixed, ZenonT(30) DEF Awaits
  <2>2. req[c].at \in {"refresh", "asking", "ok", "error"} /\ "lapses" \notin plan.spent
    BY <1>g, <2>1, ZenonT(30) DEF HoldInv, Routed, Route
  <2>3. CASE req[c].at = "refresh"
    <3>1. PICK ask \in {IngestPeers, {}} :
              req'[c] = [req[c] EXCEPT !.asked = ask, !.waiting = ask \cup {req[c].node}, !.at = "asking"]
      BY <1>3, <2>3, Staged, ZenonT(30) DEF Stage
    <3>2. req'[c].asked = ask /\ req'[c].waiting = ask \cup {req[c].node} /\ req'[c].at = "asking"
      BY <1>r, <3>1, ZenonT(30) DEF ReqType
    <3>3. ask = Nodes
      BY <2>1, <2>2, <3>1, <3>2, ZenonT(30) DEF IngestPeers, RefreshInv, Listed
    <3>4. ASSUME NEW d \in req[c].before PROVE d \in published' \/ \E n \in Nodes : d \in buffer'[n]
      <4>1. d \in Docs /\ holders[d] # {} /\ holders[d] \subseteq Nodes
        BY <1>r, <1>b, <2>1, <3>4, ZenonT(30) DEF Awaits, TypeOK
      <4>2. PICK n \in Nodes : n \in holders[d]
        BY <4>1, ZenonT(30)
      <4>3. d \in published \/ d \in buffer[n]
        BY <4>1, <4>2, ZenonT(30) DEF RefreshInv, Kept
      <4> QED  BY <1>g, <4>3, ZenonT(30)
    <3> QED  BY <3>2, <3>3, <3>4, ZenonT(30)
  <2>4. CASE req[c].at = "asking"
    <3>1. \/ req'[c] = [req[c] EXCEPT !.at = IF req[c].waiting = {} /\ ~req[c].failed THEN "ok" ELSE "error"]
          \/ \E n \in Nodes : Flushed(n) /\ req'[c] = [req[c] EXCEPT !.waiting = @ \ {n}]
          \/ \E n \in Nodes : req'[c] = [req[c] EXCEPT !.waiting = @ \ {n}, !.failed = TRUE]
      BY <1>3, <2>4, Staged, ZenonT(30) DEF Stage
    <3>2. req'[c].asked = req[c].asked
      BY <1>3, <2>4, Fixed, ZenonT(30)
    <3>3. ~req[c].failed => \A d \in req[c].before : d \in published \/ \E n \in req[c].waiting : d \in buffer[n]
      BY <1>r, <2>1, <2>2, <2>4, <3>2, ZenonT(30) DEF Awaits
    <3>4. CASE req'[c] = [req[c] EXCEPT !.at = IF req[c].waiting = {} /\ ~req[c].failed THEN "ok" ELSE "error"]
      <4>1. req'[c].at # "asking" /\ (req'[c].at = "ok" => req[c].waiting = {} /\ ~req[c].failed)
        BY <1>r, <3>4, ZenonT(30) DEF ReqType
      <4> QED  BY <1>g, <3>3, <4>1, ZenonT(30)
    <3>5. ASSUME NEW n \in Nodes, Flushed(n), req'[c] = [req[c] EXCEPT !.waiting = @ \ {n}]
          PROVE  /\ req'[c].at # "ok"
                 /\ ~req'[c].failed =>
                        \A d \in req[c].before : d \in published' \/ \E m \in req'[c].waiting : d \in buffer'[m]
      <4>1. req'[c].at = "asking" /\ req'[c].failed = req[c].failed /\ req'[c].waiting = req[c].waiting \ {n}
        BY <1>r, <2>4, <3>5, ZenonT(30) DEF ReqType
      <4>2. buffer[n] \subseteq published'
        BY <3>5, FlushShows, ZenonT(30)
      <4> QED  BY <1>g, <1>b, <3>3, <4>1, <4>2, ZenonT(30)
    <3>6. ASSUME NEW n \in Nodes, req'[c] = [req[c] EXCEPT !.waiting = @ \ {n}, !.failed = TRUE]
          PROVE  req'[c].at # "ok" /\ req'[c].failed
      BY <1>r, <2>4, <3>6, ZenonT(30) DEF ReqType
    <3> QED  BY <3>1, <3>4, <3>5, <3>6, ZenonT(30)
  <2> QED  BY <1>3, <2>2, <2>3, <2>4, Onward, ZenonT(30)
<1> QED  BY <1>1, <1>2, <1>3, Moves, ZenonT(30)

\* A write with ?refresh is answered after its node's flush, or after the limit.
LEMMA ShownStep ==
    ASSUME TypeOK, HoldInv, RefreshInv, [Next]_vars, NEW c \in Clients
    PROVE  Shown(c)'
<1>r. req[c] \in ReqType /\ req'[c] \in ReqType /\ Shown(c) /\ published \subseteq published'
  BY TypeStep, Grows, ZenonT(30) DEF TypeOK, RefreshInv
<1>1. CASE req'[c] = req[c]
  BY <1>r, <1>1, ZenonT(30) DEF Shown
<1>2. ASSUME NEW n \in Nodes, Send(c, n) PROVE Shown(c)'
  <2>1. req'[c].at \notin {"reply", "ok"}
    BY <1>2, SendReq, ZenonT(30) DEF Kinds
  <2> QED  BY <2>1, ZenonT(30) DEF Shown
<1>3. ASSUME Serve(c) PROVE Shown(c)'
  <2>1. SUFFICES ASSUME req[c].kind = "write", req[c].refresh, req'[c].at \in {"reply", "ok"}, ~req'[c].failed
                 PROVE  req[c].docs \subseteq published'
    <3>1. req[c].kind = "write" => req[c].at # "hits"
      BY ZenonT(30) DEF HoldInv, Routed, Route
    <3> QED  BY <1>3, <3>1, Fixed, ZenonT(30) DEF Shown
  <2>2. req[c].at \in {"receive", "sent", "handle", "cut", "reply", "ok", "error"}
    BY <2>1, ZenonT(30) DEF HoldInv, Routed, Route
  <2>3. req[c].at \notin {"receive", "sent", "ok", "error"}
    BY <1>3, <2>1, Onward, ZenonT(30)
  <2>4. CASE req[c].at = "handle"
    <3>1. req'[c] = [req[c] EXCEPT !.at = IF req[c].refresh THEN "cut" ELSE "reply"]
      BY <1>3, <2>1, <2>4, Staged, ZenonT(30) DEF Stage
    <3> QED  BY <1>r, <2>1, <3>1, ZenonT(30) DEF ReqType
  <2>5. CASE req[c].at = "cut"
    <3>1. Flushed(req[c].by) \/ req'[c] = [req[c] EXCEPT !.at = "reply", !.failed = TRUE]
      BY <1>3, <2>5, Staged, ZenonT(30) DEF Stage
    <3>2. Flushed(req[c].by)
      BY <1>r, <2>1, <3>1, ZenonT(30) DEF ReqType
    <3>3. ASSUME NEW d \in req[c].docs PROVE d \in published \/ d \in buffer[req[c].by]
      <4>1. req[c].by \in holders[d] /\ d \in Docs
        BY <1>r, <2>1, <2>5, <3>3, ZenonT(30) DEF HoldInv, Held, ReqType
      <4> QED  BY <4>1, ZenonT(30) DEF RefreshInv, Kept
    <3> QED  BY <1>r, <3>2, <3>3, FlushShows, ZenonT(30)
  <2>6. CASE req[c].at = "reply"
    <3>1. req'[c].failed = req[c].failed
      BY <1>3, <2>6, Fixed, ZenonT(30)
    <3> QED  BY <1>r, <2>1, <2>6, <3>1, ZenonT(30) DEF Shown
  <2> QED  BY <2>2, <2>3, <2>4, <2>5, <2>6, ZenonT(30)
<1> QED  BY <1>1, <1>2, <1>3, Moves, ZenonT(30)

\* What a refresh shows is inductive, given who holds what.
LEMMA RefreshStep ==
    ASSUME TypeOK, HoldInv, RefreshInv, [Next]_vars
    PROVE  RefreshInv'
BY KeptStep, ListedStep, AwaitsStep, ShownStep, Zenon DEF RefreshInv

\* The cluster starts with every node in the registry and no refresh.
LEMMA InitRefresh == Init => RefreshInv
<1> SUFFICES ASSUME Init PROVE RefreshInv
  OBVIOUS
<1>1. \A c \in Clients : req[c].kind = "none"
  BY ZenonT(30) DEF Init, Idle
<1>2. Kept /\ Listed
  BY ZenonT(30) DEF Init, Kept, Listed
<1> QED  BY <1>1, <1>2, ZenonT(30) DEF RefreshInv, Awaits, Shown

\* A refresh that reports success made every write acknowledged before it
\* searchable, on whichever node it was buffered, as long as the registry could be
\* read and no living node's heartbeat lapsed; so did a write with ?refresh that
\* was answered in time (refresh_api.rs, handle_bulk_local).
THEOREM RefreshShowsAcked == Spec => []RefreshSees
<1>1. Init => RefreshInv
  BY InitRefresh, ZenonT(30)
<1>2. TypeOK /\ HoldInv /\ RefreshInv /\ [Next]_vars => RefreshInv'
  BY RefreshStep, ZenonT(30)
<1>3. RefreshInv => RefreshSees
  BY ZenonT(30) DEF RefreshInv, Awaits, Shown, RefreshSees, At
<1> QED  BY <1>1, <1>2, <1>3, HoldInvariant, PTL DEF Spec

----------------------------------------------------------------------------
(* What a delete_by_query has tombstoned *)

\* A set of numbers that is not empty has a least one.
LEMMA Least ==
    ASSUME NEW S, S \subseteq Nat, S # {}
    PROVE  \E d \in S : \A e \in S : ~(e < d)
<1> DEFINE R == OpToRel(<, Nat)
<1>1. IsWellFoundedOn(R, Nat)
  BY NatLessThanWellFounded, ZenonT(30)
<1>2. \A a, b \in Nat : a < b => <<a, b>> \in R
  BY ZenonT(30) DEF OpToRel
<1> HIDE DEF R
<1>3. \E d \in S : \A e \in S : ~(<<e, d>> \in R)
  BY <1>1, WFMin, ZenonT(30)
<1> QED  BY <1>2, <1>3, ZenonT(30)

\* A page that is not full holds every hit.
LEMMA PageWhole ==
    ASSUME NEW hits \in SUBSET Docs, Cardinality(FirstPage(hits)) < Page
    PROVE  FirstPage(hits) = hits
<1>1. FirstPage(hits) \subseteq hits
  BY ZenonT(30) DEF FirstPage
<1>2. hits \subseteq Nat /\ IsFiniteSet(hits) /\ Page \in Nat
  BY ClusterAssumption, FS_Subset, ZenonT(30)
<1>3. SUFFICES ASSUME hits \ FirstPage(hits) # {} PROVE FALSE
  BY <1>1, ZenonT(30)
<1>4. PICK d \in hits \ FirstPage(hits) : \A e \in hits \ FirstPage(hits) : ~(e < d)
  BY <1>2, <1>3, Least, ZenonT(30)
<1> DEFINE below == {e \in hits : e < d}
<1>5. below \subseteq FirstPage(hits)
  BY <1>4, ZenonT(30)
<1>6. IsFiniteSet(FirstPage(hits))
  BY <1>1, <1>2, FS_Subset, ZenonT(30)
<1>7. Cardinality(below) <= Cardinality(FirstPage(hits)) /\ Cardinality(below) \in Nat /\ Cardinality(FirstPage(hits)) \in Nat
  BY <1>5, <1>6, FS_Subset, FS_CardinalityType, ZenonT(30)
<1>8. Cardinality(below) < Page
  BY <1>2, <1>7
<1>9. d \in FirstPage(hits)
  BY <1>4, <1>8, Zenon DEF FirstPage
<1> QED  BY <1>4, <1>9, ZenonT(30)

\* A search gets the node's fresh list, or extends the one it has, or starts from none.
LEMMA ListRead ==
    ASSUME TypeOK, NEW c \in Clients, Serve(c), req[c].at = "tombs"
    PROVE  LET r == req[c]
               s == req'[c]
           IN  \/ cache[r.node].fresh /\ s.at = "hits" /\ s.list = cache[r.node].rows
               \/ s.at = "error"
               \/ /\ s.at = "fetched"
                  /\ \E old \in {cache[r.node], NoList} :
                        /\ s.list = old.rows \cup Since(old.seqs)
                        /\ s.seqs = old.seqs \cup {ordinal[d] : d \in Since(old.seqs)}
<1>1. req[c] \in ReqType /\ cache[req[c].node] \in ListType /\ NoList \in ListType
  BY NoListType, ZenonT(30) DEF TypeOK, ReqType
<1>2. \/ cache[req[c].node].fresh /\ req'[c] = [req[c] EXCEPT !.list = cache[req[c].node].rows, !.at = "hits"]
      \/ req'[c] = [req[c] EXCEPT !.at = "error"]
      \/ \E old \in {cache[req[c].node], NoList} :
            req'[c] = [req[c] EXCEPT !.list = Extended(old).rows, !.seqs = Extended(old).seqs, !.at = "fetched"]
  BY Staged, ZenonT(30) DEF Stage
<1>3. ASSUME NEW old \in {cache[req[c].node], NoList},
             req'[c] = [req[c] EXCEPT !.list = Extended(old).rows, !.seqs = Extended(old).seqs, !.at = "fetched"]
      PROVE  /\ req'[c].at = "fetched"
             /\ req'[c].list = old.rows \cup Since(old.seqs)
             /\ req'[c].seqs = old.seqs \cup {ordinal[d] : d \in Since(old.seqs)}
  <2>1. /\ Extended(old).rows = old.rows \cup Since(old.seqs)
        /\ Extended(old).seqs = old.seqs \cup {ordinal[d] : d \in Since(old.seqs)}
    BY <1>1, ExtendedType, ZenonT(30)
  <2>2. req'[c].at = "fetched" /\ req'[c].list = Extended(old).rows /\ req'[c].seqs = Extended(old).seqs
    BY <1>1, <1>3, ZenonT(30) DEF ReqType
  <2> QED  BY <2>1, <2>2, Zenon
<1>4. ASSUME req'[c] = [req[c] EXCEPT !.list = cache[req[c].node].rows, !.at = "hits"]
      PROVE  req'[c].at = "hits" /\ req'[c].list = cache[req[c].node].rows
  BY <1>1, <1>4, ZenonT(30) DEF ReqType
<1>5. ASSUME req'[c] = [req[c] EXCEPT !.at = "error"] PROVE req'[c].at = "error"
  BY <1>1, <1>5, ZenonT(30) DEF ReqType
<1> QED  BY <1>2, <1>3, <1>4, <1>5, Zenon

\* A node's tombstone list is one that was read from the rows.
LEMMA CachedRowsStep ==
    ASSUME TypeOK, QueryInv, [Next]_vars
    PROVE  CachedRows'
<1>1. SUFFICES ASSUME NEW n \in Nodes PROVE cache'[n].rows \subseteq rows
  BY Grows, ZenonT(30) DEF CachedRows
<1>2. cache[n].rows \subseteq rows
  BY ZenonT(30) DEF QueryInv, CachedRows
<1>3. ASSUME NEW x \in Clients, StoreRows(x) PROVE cache'[n].rows \subseteq rows
  <2>1. req[x].at = "fetched" /\ req[x].node \in Nodes
    BY <1>3, ZenonT(30) DEF StoreRows, At, TypeOK, ReqType
  <2>2. req[x].list \subseteq rows
    BY <2>1, ZenonT(30) DEF QueryInv, Queried, Searched
  <2>3. cache'[n] = IF n = req[x].node THEN [rows |-> req[x].list, seqs |-> req[x].seqs, fresh |-> TRUE] ELSE cache[n]
    BY <1>3, <2>1, ZenonT(30) DEF StoreRows, TypeOK
  <2> QED  BY <1>2, <2>2, <2>3
<1>4. ASSUME NEW m, cache' = [cache EXCEPT ![m].fresh = FALSE] PROVE cache'[n].rows = cache[n].rows
  BY <1>4, ZenonT(30) DEF TypeOK, ListType
<1> QED  BY <1>2, <1>3, <1>4, CacheWriters, Zenon DEF Invalidate, ExpireTombstones

\* Round by round, a delete_by_query knows which documents are tombstoned.
LEMMA QueriedStep ==
    ASSUME TypeOK, HoldInv, QueryInv, [Next]_vars, NEW c \in Clients
    PROVE  Queried(c)'
<1> DEFINE r == req[c]
           s == req'[c]
<1>r. r \in ReqType /\ s \in ReqType /\ Queried(c)
  BY TypeStep, ZenonT(30) DEF TypeOK, QueryInv
<1>g. published \subseteq published' /\ rows \subseteq rows'
  BY Grows, ZenonT(30)
<1>1. CASE s = r
  BY <1>r, <1>g, <1>1, ZenonT(30) DEF Queried
<1>2. ASSUME NEW n \in Nodes, Send(c, n) PROVE Queried(c)'
  <2>1. s.at \in {"receive", "refresh", "splits"} /\ (s.kind = "byQuery" => s.at = "splits" /\ s.before = published)
    BY <1>2, SendReq, ZenonT(30) DEF Kinds
  <2> QED  BY <1>g, <2>1, ZenonT(30) DEF Queried, Searched, Chosen
<1>3. ASSUME Serve(c) PROVE Queried(c)'
  <2>f. s.kind = r.kind /\ s.node = r.node /\ s.before = r.before
    BY <1>3, Fixed, ZenonT(30)
  <2>t. r.at \in Route(r.kind)
    BY ZenonT(30) DEF HoldInv, Routed
  <2>a. r.at \in Stages /\ r.kind \in Kinds \cup {"none"}
    BY <1>r, ZenonT(30) DEF ReqType
  <2>1. s.at \in Searched => s.list \subseteq rows'
    <3>1. CASE r.at = "tombs"
      <4>1. \/ s.list = cache[r.node].rows
            \/ s.at = "error"
            \/ \E old \in {cache[r.node], NoList} : s.list = old.rows \cup Since(old.seqs)
        BY <1>3, <3>1, ListRead, ZenonT(30)
      <4>2. "error" \notin Searched
        BY DEF Searched
      <4>3. cache[r.node].rows \subseteq rows /\ NoList.rows = {}
        BY <1>r, NoListType, ZenonT(30) DEF QueryInv, CachedRows, ReqType
      <4>4. \A old : Since(old.seqs) \subseteq rows
        BY ZenonT(30) DEF Since
      <4> QED  BY <1>g, <4>1, <4>2, <4>3, <4>4, ZenonT(30)
    <3>2. CASE r.at # "tombs"
      <4>1. s.list = r.list /\ (s.at \in Searched => r.at \in Searched)
        BY <1>3, <2>a, <3>2, Fixed, Onward, ZenonT(30) DEF Searched, Stages
      <4> QED  BY <1>r, <1>g, <4>1, ZenonT(30) DEF Queried
    <3> QED  BY <3>1, <3>2, ZenonT(30)
  <2>2. (s.at \in {"invalidate", "reply"} /\ s.kind # "write") => s.docs \subseteq rows'
    <3>1. SUFFICES ASSUME s.at \in {"invalidate", "reply"}, r.kind # "write" PROVE s.docs \subseteq rows'
      BY <2>f, ZenonT(30)
    <3>2. r.at \in {"handle", "commit", "invalidate", "cut"}
      BY <1>3, <2>a, <3>1, Onward, ZenonT(30) DEF Stages
    <3>3. s.docs = r.docs /\ r.at \notin {"cut", "handle"}
      BY <1>3, <2>a, <2>t, <3>1, <3>2, Fixed, Onward, ZenonT(30) DEF Route, Kinds
    <3>4. CASE r.at = "commit"
      <4>1. UpsertRows(c) \/ s \in {[r EXCEPT !.at = "error"], [r EXCEPT !.by = r.node, !.at = "handle"]}
        BY <1>3, <3>1, <3>4, Staged, ZenonT(30) DEF Stage
      <4>2. UpsertRows(c)
        BY <1>r, <3>1, <4>1, ZenonT(30) DEF ReqType
      <4> QED  BY <3>3, <4>2, ZenonT(30) DEF UpsertRows
    <3> QED  BY <1>r, <1>g, <3>1, <3>2, <3>3, <3>4, ZenonT(30) DEF Queried
  <2>3. SUFFICES ASSUME r.kind = "byQuery"
                 PROVE  /\ s.before \subseteq published'
                        /\ s.at \in {"tombs"} \cup Searched \cup Chosen => s.before \subseteq s.seen
                        /\ s.at \in Chosen => s.list \subseteq rows' /\ s.docs = FirstPage(s.seen \ s.list)
                        /\ s.at = "ok" => s.before \subseteq rows'
    BY <2>1, <2>2, <2>f, ZenonT(30) DEF Queried
  <2>4. s.before \subseteq published'
    BY <1>r, <1>g, <2>f, <2>3, ZenonT(30) DEF Queried
  <2>5. s.at \in {"tombs"} \cup Searched \cup Chosen => s.before \subseteq s.seen
    <3>1. CASE r.at = "splits"
      <4>1. s = [r EXCEPT !.seen = published, !.at = "tombs"]
        BY <1>3, <3>1, Staged, ZenonT(30) DEF Stage
      <4>2. s.seen = published
        BY <1>r, <4>1, ZenonT(30) DEF ReqType
      <4> QED  BY <1>r, <2>f, <2>3, <4>2, ZenonT(30) DEF Queried
    <3>2. CASE r.at # "splits"
      <4>1. s.seen = r.seen /\ r.at \in {"tombs"} \cup Searched \cup Chosen
        BY <1>3, <2>t, <2>3, <3>2, Fixed, Onward, ZenonT(30) DEF Route, Searched, Chosen
      <4> QED  BY <1>r, <2>f, <2>3, <4>1, ZenonT(30) DEF Queried
    <3> QED  BY <3>1, <3>2, ZenonT(30)
  <2>6. s.at \in Chosen => s.list \subseteq rows' /\ s.docs = FirstPage(s.seen \ s.list)
    <3>1. CASE r.at = "hits"
      <4>1. \E pc \in {"ok", "error", "receive"} :
                s = [[r EXCEPT !.docs = FirstPage(r.seen \ r.list), !.prev = FirstPage(r.seen \ r.list),
                               !.by = r.node] EXCEPT !.at = pc]
        BY <1>3, <2>3, <3>1, Staged, ZenonT(30) DEF Stage
      <4>2. s.docs = FirstPage(r.seen \ r.list)
        BY <1>r, <4>1, ZenonT(30) DEF ReqType
      <4>3. s.seen = r.seen /\ s.list = r.list
        BY <1>3, <3>1, Fixed, ZenonT(30)
      <4>4. r.list \subseteq rows
        BY <1>r, <3>1, ZenonT(30) DEF Queried, Searched
      <4> QED  BY <1>g, <4>2, <4>3, <4>4, ZenonT(30)
    <3>2. CASE r.at # "hits"
      <4>1. s.at \in Chosen => s.seen = r.seen /\ s.list = r.list /\ s.docs = r.docs /\ r.at \in Chosen
        BY <1>3, <2>t, <2>3, <3>2, Fixed, Onward, ZenonT(30) DEF Route, Chosen
      <4> QED  BY <1>r, <1>g, <2>3, <4>1, ZenonT(30) DEF Queried
    <3> QED  BY <3>1, <3>2, ZenonT(30)
  <2>7. s.at = "ok" => s.before \subseteq rows'
    <3>1. SUFFICES ASSUME s.at = "ok" PROVE r.before \subseteq rows
      BY <1>g, <2>f, ZenonT(30)
    <3>2. r.at \in {"hits", "reply"} /\ r.before \subseteq r.seen /\ r.seen \ r.list \in SUBSET Docs
      BY <1>3, <1>r, <2>t, <2>3, <3>1, Onward, ZenonT(30) DEF Route, Queried, Searched, Chosen, ReqType
    <3>3. CASE r.at = "hits"
      <4>1. \E pc \in {"ok", "error", "receive"} :
                /\ pc = "ok" => FirstPage(r.seen \ r.list) = {}
                /\ s = [[r EXCEPT !.docs = FirstPage(r.seen \ r.list), !.prev = FirstPage(r.seen \ r.list),
                                  !.by = r.node] EXCEPT !.at = pc]
        BY <1>3, <2>3, <3>3, Staged, ZenonT(30) DEF Stage
      <4>2. FirstPage(r.seen \ r.list) = {}
        BY <1>r, <3>1, <4>1, ZenonT(30) DEF ReqType
      <4>3. r.seen \ r.list = {}
        <5>1. Cardinality(FirstPage(r.seen \ r.list)) < Page
          BY <4>2, FS_EmptySet, ClusterAssumption
        <5> QED  BY <3>2, <4>2, <5>1, PageWhole, ZenonT(30)
      <4>4. r.list \subseteq rows
        BY <1>r, <3>3, ZenonT(30) DEF Queried, Searched
      <4> QED  BY <3>2, <4>3, <4>4, ZenonT(30)
    <3>4. CASE r.at = "reply"
      <4>1. \/ s = [r EXCEPT !.at = IF r.kind = "byQuery" /\ ~LastRound(c) THEN "splits" ELSE "ok"]
            \/ s = [r EXCEPT !.by = r.node, !.at = "handle"]
        BY <1>3, <3>4, Staged, ZenonT(30) DEF Stage
      <4>2. LastRound(c)
        BY <1>r, <2>3, <3>1, <4>1, ZenonT(30) DEF ReqType
      <4>3. r.docs = FirstPage(r.seen \ r.list) /\ r.docs \subseteq rows /\ r.list \subseteq rows
        BY <1>r, <2>3, <3>4, ZenonT(30) DEF Queried, Chosen
      <4>4. r.docs = r.seen \ r.list
        BY <3>2, <4>2, <4>3, PageWhole, ZenonT(30) DEF LastRound
      <4> QED  BY <3>2, <4>3, <4>4, ZenonT(30)
    <3> QED  BY <3>2, <3>3, <3>4, ZenonT(30)
  <2> QED  BY <2>4, <2>5, <2>6, <2>7, ZenonT(30)
<1> QED  BY <1>1, <1>2, <1>3, Moves, ZenonT(30)

\* What searches and rounds know is inductive.
LEMMA QueryStep ==
    ASSUME TypeOK, HoldInv, QueryInv, [Next]_vars
    PROVE  QueryInv'
BY CachedRowsStep, QueriedStep, Zenon DEF QueryInv

\* The cluster starts without tombstones.
LEMMA InitQuery == Init => QueryInv
<1> SUFFICES ASSUME Init PROVE QueryInv
  OBVIOUS
<1>1. \A c \in Clients : req[c].kind = "none" /\ req[c].at = "idle"
  BY ZenonT(30) DEF Init, Idle
<1>2. CachedRows
  BY NoListType, ZenonT(30) DEF Init, CachedRows
<1> QED  BY <1>1, <1>2, ZenonT(30) DEF QueryInv, Queried, Searched, Chosen

\* What searches and rounds know, for ever.
LEMMA QueryInvariant == Spec => [](TypeOK /\ HoldInv /\ QueryInv)
<1>1. Init => QueryInv
  BY InitQuery, ZenonT(30)
<1>2. TypeOK /\ HoldInv /\ QueryInv /\ [Next]_vars => QueryInv'
  BY QueryStep, ZenonT(30)
<1> QED  BY <1>1, <1>2, HoldInvariant, PTL DEF Spec

\* A delete_by_query that succeeds has tombstoned every document that was
\* published when it began, over however many rounds, stale lists and handoffs
\* (delete_by_query), for every page size.
THEOREM QueryIsDeleted == Spec => []QueryDeleted
<1>1. QueryInv => QueryDeleted
  BY ZenonT(30) DEF QueryInv, Queried, QueryDeleted, At
<1> QED  BY <1>1, QueryInvariant, PTL

----------------------------------------------------------------------------
(* What a node's tombstone list may lack *)

\* A row that a list has, or is still ahead of it, stays so: rows only come with an ordinal
\* that no list has read.
LEMMA CompleteStep ==
    ASSUME TypeOK, OrderInv, [Next]_vars, NEW list, NEW seqs \in SUBSET Nat,
           \A s \in seqs : Older(s), Complete(list, seqs)
    PROVE  Complete(list, seqs)'
<1>1. CASE UNCHANGED tombs
  BY <1>1, Zenon DEF Complete, Since, tombs
<1>2. ASSUME NEW x \in Clients, DrawOrdinal(x) PROVE Complete(list, seqs)'
  BY <1>2, Zenon DEF DrawOrdinal, Complete, Since
<1>3. ASSUME NEW x \in Clients, UpsertRows(x) PROVE Complete(list, seqs)'
  <2>1. PICK stay \in SUBSET (req[x].docs \cap rows) :
            ordinal' = [d \in Docs |-> IF d \in req[x].docs \ stay THEN req[x].seq ELSE ordinal[d]]
    BY <1>3, ZenonT(30) DEF UpsertRows
  <2>2. rows' = rows \cup req[x].docs /\ req[x].at = "commit" /\ req[x].docs \subseteq Docs /\ rows \subseteq Docs
    BY <1>3, ZenonT(30) DEF UpsertRows, At, TypeOK, ReqType
  <2>3. \A s \in seqs : s < req[x].seq
    BY <2>2, ZenonT(30) DEF Older
  <2>4. ASSUME NEW d \in rows' PROVE d \in list \/ d \in Since(seqs)'
    <3>1. CASE d \in req[x].docs \ stay
      <4>1. ordinal'[d] = req[x].seq
        BY <2>1, <2>2, <3>1, ZenonT(30)
      <4> QED  BY <2>3, <2>4, <4>1, ZenonT(30) DEF Since
    <3>2. CASE d \notin req[x].docs \ stay
      <4>1. d \in rows /\ ordinal'[d] = ordinal[d]
        BY <2>1, <2>2, <2>4, <3>2, ZenonT(30)
      <4> QED  BY <2>4, <4>1, ZenonT(30) DEF Complete, Since
    <3> QED  BY <3>1, <3>2
  <2> QED  BY <2>4, Zenon DEF Complete
<1> QED  BY <1>1, <1>2, <1>3, RowWriters, ZenonT(30)

\* A transaction is open only once the lock was free when it drew its ordinal, the highest yet.
LEMMA OpenStep ==
    ASSUME TypeOK, OrderInv, [Next]_vars, NEW c \in Clients, req'[c].at = "commit"
    PROVE  \/ req[c].at = "commit" /\ req'[c].seq = req[c].seq /\ drawn' = drawn
           \/ DrawOrdinal(c) /\ req'[c].seq = drawn + 1 /\ drawn' = drawn + 1
<1>1. CASE req'[c] = req[c]
  <2>1. ASSUME NEW x \in Clients, DrawOrdinal(x) PROVE x = c
    BY <1>1, <2>1, ZenonT(30) DEF DrawOrdinal, At
  <2>2. ~DrawOrdinal(c)
    BY <1>1, ZenonT(30) DEF DrawOrdinal, At, Upserting
  <2>3. drawn' = drawn
    BY <2>1, <2>2, RowWriters, ZenonT(30) DEF UpsertRows, tombs
  <2> QED  BY <1>1, <2>3
<1>2. ASSUME NEW n \in Nodes, Send(c, n) PROVE FALSE
  BY <1>2, SendReq, ZenonT(30) DEF Kinds
<1>3. CASE Serve(c)
  <2>1. req[c] \in ReqType /\ req[c].at \in Stages
    BY ZenonT(30) DEF TypeOK, ReqType
  <2>2. req[c].at = "handle"
    BY <1>3, <2>1, Onward, ZenonT(30) DEF Stages
  <2>3. \/ DrawOrdinal(c) /\ req'[c] = [req[c] EXCEPT !.seq = drawn', !.at = "commit"]
        \/ req'[c] = [req[c] EXCEPT !.at = IF req[c].refresh THEN "cut" ELSE "reply"]
        \/ req'[c] \in {[req[c] EXCEPT !.at = "error"], [req[c] EXCEPT !.by = req[c].node, !.at = "handle"]}
    BY <1>3, <2>2, Staged, ZenonT(30) DEF Stage
  <2>4. DrawOrdinal(c) /\ req'[c].seq = drawn'
    BY <2>1, <2>3, ZenonT(30) DEF ReqType
  <2> QED  BY <2>4, Zenon DEF DrawOrdinal
<1> QED  BY <1>1, <1>2, <1>3, Moves, ZenonT(30)

\* An ordinal that was read is below whatever commits later.
LEMMA OlderStep ==
    ASSUME TypeOK, OrderInv, [Next]_vars, NEW s \in Nat, Older(s)
    PROVE  Older(s)'
<1>1. drawn \in Nat /\ drawn' \in Nat /\ drawn <= drawn' /\ s <= drawn
  <2>1. drawn \in Nat /\ s <= drawn
    BY ZenonT(30) DEF TypeOK, Older
  <2>2. ASSUME NEW x \in Clients, DrawOrdinal(x) PROVE drawn' = drawn + 1
    BY <2>2, ZenonT(30) DEF DrawOrdinal
  <2>3. drawn' \in {drawn, drawn + 1}
    BY <2>2, RowWriters, ZenonT(30) DEF UpsertRows, tombs
  <2> QED  BY <2>1, <2>3
<1>2. ASSUME NEW c \in Clients, req'[c].at = "commit" PROVE s < req'[c].seq
  <2>1. CASE req[c].at = "commit" /\ req'[c].seq = req[c].seq
    BY <2>1, ZenonT(30) DEF Older
  <2>2. CASE req'[c].seq = drawn + 1
    BY <1>1, <2>2
  <2> QED  BY <1>2, <2>1, <2>2, OpenStep, ZenonT(30)
<1>3. s <= drawn'
  BY <1>1
<1> QED  BY <1>2, <1>3, Zenon DEF Older

\* What a node has read is old, and complete but for newer rows.
LEMMA CacheOrderStep ==
    ASSUME TypeOK, OrderInv, [Next]_vars, NEW n \in Nodes
    PROVE  ((\A s \in cache[n].seqs : Older(s)) /\ Complete(cache[n].rows, cache[n].seqs))'
<1> DEFINE Retained(list, seqs) == seqs \in SUBSET Nat /\ (\A s \in seqs : Older(s)) /\ Complete(list, seqs)
<1>1. ASSUME NEW list, NEW seqs, Retained(list, seqs)
      PROVE  (\A s \in seqs : Older(s)') /\ Complete(list, seqs)'
  <2>1. \A s \in seqs : Older(s)'
    BY <1>1, OlderStep, ZenonT(30)
  <2>2. Complete(list, seqs)'
    BY <1>1, CompleteStep, ZenonT(30)
  <2> QED  BY <2>1, <2>2
<1>2. Retained(cache[n].rows, cache[n].seqs)
  <2>1. cache[n].seqs \in SUBSET Nat
    BY ZenonT(30) DEF TypeOK, ListType
  <2> QED  BY <2>1, ZenonT(30) DEF OrderInv
<1>3. ASSUME NEW x \in Clients, StoreRows(x) PROVE Retained(cache'[n].rows, cache'[n].seqs)
  <2>1. req[x].at = "fetched" /\ req[x].node \in Nodes /\ req[x].seqs \in SUBSET Nat
    BY <1>3, ZenonT(30) DEF StoreRows, At, TypeOK, ReqType
  <2>2. Retained(req[x].list, req[x].seqs)
    BY <2>1, ZenonT(30) DEF OrderInv
  <2>3. cache'[n] = IF n = req[x].node THEN [rows |-> req[x].list, seqs |-> req[x].seqs, fresh |-> TRUE] ELSE cache[n]
    BY <1>3, <2>1, ZenonT(30) DEF StoreRows, TypeOK
  <2>4. \/ cache'[n].rows = req[x].list /\ cache'[n].seqs = req[x].seqs
        \/ cache'[n] = cache[n]
    BY <2>3
  <2> QED  BY <1>2, <2>2, <2>4, Zenon
<1>4. ASSUME NEW m, cache' = [cache EXCEPT ![m].fresh = FALSE]
      PROVE  cache'[n].rows = cache[n].rows /\ cache'[n].seqs = cache[n].seqs
  BY <1>4, ZenonT(30) DEF TypeOK, ListType
<1>5. Retained(cache'[n].rows, cache'[n].seqs)
  BY <1>2, <1>3, <1>4, CacheWriters, Zenon DEF Invalidate, ExpireTombstones
<1> HIDE DEF Retained
<1> QED  BY <1>1, <1>5, Zenon

\* So is what a search has fetched and not yet stored.
LEMMA FetchOrderStep ==
    ASSUME TypeOK, OrderInv, [Next]_vars, NEW c \in Clients, req'[c].at = "fetched"
    PROVE  ((\A s \in req[c].seqs : Older(s)) /\ Complete(req[c].list, req[c].seqs))'
<1>1. req[c] \in ReqType /\ req'[c] \in ReqType
  BY TypeStep, ZenonT(30) DEF TypeOK
<1>2. /\ req'[c].seqs \in SUBSET Nat
      /\ \A s \in req'[c].seqs : Older(s)
      /\ Complete(req'[c].list, req'[c].seqs)
  <2>1. CASE req'[c] = req[c]
    BY <1>1, <2>1, ZenonT(30) DEF OrderInv, ReqType
  <2>2. ASSUME NEW n \in Nodes, Send(c, n) PROVE FALSE
    BY <2>2, SendReq, ZenonT(30) DEF Kinds
  <2>3. CASE Serve(c)
    <3>1. req[c].at = "tombs" /\ req[c].node \in Nodes
      BY <1>1, <2>3, Onward, ZenonT(30) DEF ReqType, Stages
    <3>2. PICK old \in {cache[req[c].node], NoList} :
              /\ req'[c].list = old.rows \cup Since(old.seqs)
              /\ req'[c].seqs = old.seqs \cup {ordinal[d] : d \in Since(old.seqs)}
      BY <2>3, <3>1, ListRead, ZenonT(30)
    <3>3. (\A s \in old.seqs : Older(s)) /\ Complete(old.rows, old.seqs)
      BY <3>1, NoListType, ZenonT(30) DEF OrderInv, Complete, Since
    <3>4. \A d \in Since(old.seqs) : Older(ordinal[d])
      BY ZenonT(30) DEF OrderInv, Since
    <3>5. \A s \in req'[c].seqs : Older(s)
      BY <3>2, <3>3, <3>4, ZenonT(30)
    <3>6. Complete(req'[c].list, req'[c].seqs)
      BY <3>2, <3>3, ZenonT(30) DEF Complete
    <3>7. req'[c].seqs \in SUBSET Nat
      BY <1>1, ZenonT(30) DEF ReqType
    <3> QED  BY <3>5, <3>6, <3>7
  <2> QED  BY <2>1, <2>2, <2>3, Moves, ZenonT(30)
<1>3. \A s \in req'[c].seqs : Older(s)'
  BY <1>2, OlderStep, ZenonT(30)
<1>4. ASSUME NEW list, NEW seqs \in SUBSET Nat, \A s \in seqs : Older(s), Complete(list, seqs)
      PROVE  Complete(list, seqs)'
  BY <1>4, CompleteStep, ZenonT(30)
<1> QED  BY <1>2, <1>3, <1>4, ZenonT(30)

\* Tombstones commit in the order of their ordinals.
LEMMA OrderStep ==
    ASSUME TypeOK, OrderInv, [Next]_vars
    PROVE  OrderInv'
<1>1. ASSUME NEW c \in Clients, NEW o \in Clients, req'[c].at = "commit", req'[o].at = "commit" PROVE c = o
  <2>1. ASSUME NEW x \in Clients, NEW y \in Clients, x # y, DrawOrdinal(x) PROVE req'[y].at # "commit"
    <3>1. req'[y] = req[y] /\ req[y].at # "commit"
      BY <2>1, SetReq, ZenonT(30) DEF DrawOrdinal, At
    <3> QED  BY <3>1
  <2>2. CASE DrawOrdinal(c) \/ DrawOrdinal(o)
    BY <1>1, <2>1, <2>2, ZenonT(30)
  <2>3. CASE req[c].at = "commit" /\ req[o].at = "commit"
    BY <2>3, ZenonT(30) DEF OrderInv
  <2> QED  BY <1>1, <2>2, <2>3, OpenStep, ZenonT(30)
<1>2. ASSUME NEW c \in Clients, req'[c].at = "commit" PROVE req'[c].seq <= drawn'
  <2>1. CASE req[c].at = "commit" /\ req'[c].seq = req[c].seq /\ drawn' = drawn
    BY <2>1, ZenonT(30) DEF OrderInv
  <2>2. CASE req'[c].seq = drawn + 1 /\ drawn' = drawn + 1
    BY <2>2 DEF TypeOK
  <2> QED  BY <1>2, <2>1, <2>2, OpenStep, ZenonT(30)
<1>3. ASSUME NEW d \in rows' PROVE Older(ordinal[d])'
  <2>1. ASSUME d \in rows, ordinal'[d] = ordinal[d] PROVE Older(ordinal[d])'
    <3>1. ordinal[d] \in Nat /\ Older(ordinal[d])
      BY <2>1, ZenonT(30) DEF TypeOK, OrderInv
    <3>2. \A s \in Nat : Older(s) => Older(s)'
      BY OlderStep, ZenonT(30)
    <3> QED  BY <2>1, <3>1, <3>2, ZenonT(30) DEF Older
  <2>2. CASE UNCHANGED tombs \/ \E x \in Clients : DrawOrdinal(x)
    BY <1>3, <2>1, <2>2, ZenonT(30) DEF tombs, DrawOrdinal
  <2>3. ASSUME NEW x \in Clients, UpsertRows(x) PROVE Older(ordinal[d])'
    <3>1. PICK stay \in SUBSET (req[x].docs \cap rows) :
              ordinal' = [e \in Docs |-> IF e \in req[x].docs \ stay THEN req[x].seq ELSE ordinal[e]]
      BY <2>3, ZenonT(30) DEF UpsertRows
    <3>2. /\ rows' = rows \cup req[x].docs /\ req[x].at = "commit" /\ drawn' = drawn
          /\ req[x].docs \subseteq Docs /\ rows \subseteq Docs
      BY <2>3, ZenonT(30) DEF UpsertRows, At, TypeOK, ReqType
    <3>3. CASE d \in req[x].docs \ stay
      <4>1. ordinal'[d] = req[x].seq
        BY <3>1, <3>2, <3>3, ZenonT(30)
      <4>2. req[x].seq <= drawn'
        BY <3>2, ZenonT(30) DEF OrderInv
      <4>3. ASSUME NEW c \in Clients PROVE req'[c].at # "commit"
        <5>1. ~DrawOrdinal(c)
          <6>1. drawn' = drawn /\ drawn \in Nat
            BY <3>2, ZenonT(30) DEF TypeOK
          <6>2. DrawOrdinal(c) => drawn' = drawn + 1
            BY Zenon DEF DrawOrdinal
          <6> QED  BY <6>1, <6>2
        <5>2. req'[c].at = "commit" => req[c].at = "commit"
          BY <5>1, OpenStep, ZenonT(30)
        <5>3. req[c].at = "commit" => c = x
          BY <3>2, ZenonT(30) DEF OrderInv
        <5>4. req'[x].at = "invalidate"
          <6>1. req[x] \in ReqType /\ req'[x] = [req[x] EXCEPT !.at = "invalidate"]
            BY <2>3, SetReq, ZenonT(30) DEF UpsertRows, Go, TypeOK
          <6> QED  BY <6>1, ZenonT(30) DEF ReqType
        <5> QED  BY <5>2, <5>3, <5>4, ZenonT(30)
      <4> QED  BY <4>1, <4>2, <4>3, ZenonT(30) DEF Older
    <3>4. CASE d \notin req[x].docs \ stay
      <4>1. d \in rows /\ ordinal'[d] = ordinal[d]
        BY <1>3, <3>1, <3>2, <3>4, ZenonT(30)
      <4> QED  BY <2>1, <4>1
    <3> QED  BY <3>3, <3>4
  <2> QED  BY <2>2, <2>3, RowWriters, ZenonT(30)
<1> QED  BY <1>1, <1>2, <1>3, CacheOrderStep, FetchOrderStep, ZenonT(30) DEF OrderInv

\* The cluster starts with no row and no list.
LEMMA InitOrder == Init => OrderInv
<1> SUFFICES ASSUME Init PROVE OrderInv
  OBVIOUS
<1>1. \A c \in Clients : req[c].at = "idle"
  BY ZenonT(30) DEF Init, Idle
<1>2. \A n \in Nodes : cache[n].seqs = {}
  BY NoListType, ZenonT(30) DEF Init
<1>3. rows = {}
  BY ZenonT(30) DEF Init
<1> QED  BY <1>1, <1>2, <1>3, ZenonT(30) DEF OrderInv, Complete

\* A row a node's list lacks is one the next incremental read brings, however upserts on
\* several nodes overlap: they commit in the order of their ordinals because each takes the
\* stream's lock before it draws one (upsert_many, tombstones_for).
THEOREM ListIsComplete == Spec => []ListComplete
<1>1. Init => OrderInv
  BY InitOrder, ZenonT(30)
<1>2. TypeOK /\ OrderInv /\ [Next]_vars => OrderInv'
  BY OrderStep, ZenonT(30)
<1>3. OrderInv => ListComplete
  BY ZenonT(30) DEF OrderInv, Complete, ListComplete
<1> QED  BY <1>1, <1>2, <1>3, HoldInvariant, PTL DEF Spec

----------------------------------------------------------------------------
(* What a node hides *)

\* A document every list of a node knows stays known: a list is stored by the
\* search that read it, and a later one extends a complete one.
LEMMA CoversStep ==
    ASSUME TypeOK, ListComplete, [Next]_vars, NEW n \in Nodes, NEW d \in Docs, Covers(n, d)
    PROVE  Covers(n, d)'
<1>1. d \in rows'
  BY Grows, ZenonT(30) DEF Covers
<1>2. cache'[n].fresh => d \in cache'[n].rows
  <2>1. ASSUME NEW x \in Clients, StoreRows(x) PROVE cache'[n].fresh => d \in cache'[n].rows
    <3>1. req[x].at = "fetched" /\ req[x].node \in Nodes
      BY <2>1, ZenonT(30) DEF StoreRows, At, TypeOK, ReqType
    <3>2. cache'[n] = IF n = req[x].node THEN [rows |-> req[x].list, seqs |-> req[x].seqs, fresh |-> TRUE] ELSE cache[n]
      BY <2>1, <3>1, ZenonT(30) DEF StoreRows, TypeOK
    <3> QED  BY <3>1, <3>2 DEF Covers
  <2>2. ASSUME NEW m, cache' = [cache EXCEPT ![m].fresh = FALSE]
        PROVE  cache'[n].rows = cache[n].rows /\ (cache'[n].fresh => cache[n].fresh)
    BY <2>2, ZenonT(30) DEF TypeOK, ListType
  <2> QED  BY <2>1, <2>2, CacheWriters, Zenon DEF Invalidate, ExpireTombstones, Covers
<1>3. ASSUME NEW o \in Clients, req'[o].at = "fetched", req'[o].node = n PROVE d \in req'[o].list
  <2>1. CASE req'[o] = req[o]
    BY <1>3, <2>1, ZenonT(30) DEF Covers
  <2>2. ASSUME NEW m \in Nodes, Send(o, m) PROVE FALSE
    BY <1>3, <2>2, SendReq, ZenonT(30) DEF Kinds
  <2>3. ASSUME Serve(o) PROVE d \in req'[o].list
    <3>1. req[o].at = "tombs" /\ req[o] \in ReqType
      BY <1>3, <2>3, Onward, ZenonT(30) DEF TypeOK, ReqType, Stages
    <3>2. PICK old \in {cache[req[o].node], NoList} : req'[o].list = old.rows \cup Since(old.seqs)
      BY <1>3, <2>3, <3>1, ListRead, ZenonT(30)
    <3>3. d \in rows /\ req[o].node \in Nodes
      BY <3>1, ZenonT(30) DEF Covers, ReqType
    <3>4. d \in old.rows \/ d \in Since(old.seqs)
      BY <3>3, NoListType, ZenonT(30) DEF ListComplete, Since
    <3> QED  BY <3>2, <3>4, ZenonT(30)
  <2> QED  BY <2>1, <2>2, <2>3, Moves, ZenonT(30)
<1> QED  BY <1>1, <1>2, <1>3, ZenonT(30) DEF Covers

\* An invalidation that met no reader leaves no list without its documents.
LEMMA DeletingStep ==
    ASSUME TypeOK, ListComplete, HoldInv, QueryInv, OwnInv, [Next]_vars, NEW c \in Clients
    PROVE  Deleting(c)'
<1>r. req[c] \in ReqType /\ req'[c] \in ReqType /\ Deleting(c)
  BY TypeStep, ZenonT(30) DEF TypeOK, OwnInv
<1>d. req[c].docs \subseteq Docs /\ req[c].by \in Nodes
  BY <1>r, ZenonT(30) DEF ReqType
<1>1. CASE req'[c] = req[c]
  BY <1>r, <1>d, <1>1, CoversStep DEF Deleting
<1>2. ASSUME NEW n \in Nodes, Send(c, n) PROVE Deleting(c)'
  <2>1. req'[c].at # "reply"
    BY <1>2, SendReq, ZenonT(30) DEF Kinds
  <2> QED  BY <2>1, ZenonT(30) DEF Deleting
<1>3. ASSUME Serve(c) PROVE Deleting(c)'
  <2>1. SUFFICES ASSUME req'[c].kind # "write", req'[c].at = "reply", ~req'[c].raced, NEW d \in req'[c].docs
                 PROVE  Covers(req[c].by, d)'
    BY ZenonT(30) DEF Deleting
  <2>2. req[c].at = "invalidate"
    <3>1. req[c].at \in Route(req[c].kind) /\ req[c].kind \in Kinds \cup {"none"} /\ req[c].kind # "write"
      BY <1>3, <1>r, <2>1, Fixed, ZenonT(30) DEF HoldInv, Routed, ReqType
    <3> QED  BY <1>3, <2>1, <3>1, Onward, ZenonT(30) DEF Route, Kinds
  <2>3. req'[c].docs = req[c].docs /\ req'[c].by = req[c].by /\ req'[c].kind = req[c].kind
    BY <1>3, <2>2, Fixed, ZenonT(30)
  <2>4. Invalidate(c) /\ req'[c] = [req[c] EXCEPT !.at = "reply", !.raced = Reading(req[c].by)]
    BY <1>3, <2>2, Staged, ZenonT(30) DEF Stage
  <2>5. ~Reading(req[c].by)
    BY <1>r, <2>1, <2>4, ZenonT(30) DEF ReqType
  <2>6. cache'[req[c].by].fresh = FALSE
    BY <1>d, <2>4 DEF Invalidate, TypeOK
  <2>7. d \in rows'
    BY <1>r, <2>1, <2>2, <2>3, Grows, ZenonT(30) DEF QueryInv, Queried
  <2>8. ASSUME NEW o \in Clients, req'[o].at = "fetched" PROVE req'[o].node # req[c].by
    <3>1. o # c
      BY <2>1, <2>8, ZenonT(30)
    <3>2. req'[o] = req[o]
      BY <2>4, <3>1, SetReq, ZenonT(30) DEF Invalidate
    <3> QED  BY <2>5, <2>8, <3>2, ZenonT(30) DEF Reading, At
  <2> QED  BY <2>3, <2>6, <2>7, <2>8, ZenonT(30) DEF Covers
<1> QED  BY <1>1, <1>2, <1>3, Moves, ZenonT(30)

\* The deletes a node answered for are in every list it uses.
LEMMA OwnStep ==
    ASSUME TypeOK, ListComplete, HoldInv, OwnInv, [Next]_vars, NEW n \in Nodes, NEW d \in Own(n)'
    PROVE  Covers(n, d)'
<1>1. d \in Docs /\ <<n, d>> \in acked'.own
  BY ZenonT(30) DEF Own
<1>2. CASE <<n, d>> \in acked.own
  <2>1. Covers(n, d)
    BY <1>1, <1>2, ZenonT(30) DEF OwnInv, Own
  <2> QED  BY <1>1, <2>1, CoversStep, ZenonT(30)
<1>3. ASSUME NEW x \in Clients, Reply(x), <<n, d>> \notin acked.own PROVE Covers(n, d)'
  <2>1. req[x].at = "reply" /\ req[x].kind # "write" /\ ~req[x].raced /\ n = req[x].by /\ d \in req[x].docs
    BY <1>1, <1>3, ZenonT(30) DEF Reply, At, Answer
  <2>2. Covers(n, d)
    BY <2>1, ZenonT(30) DEF OwnInv, Deleting
  <2> QED  BY <1>1, <2>2, CoversStep, ZenonT(30)
<1> QED  BY <1>1, <1>2, <1>3, AckWriters, ZenonT(30)

\* A search hides what its node had answered for when it was sent.
LEMMA SearchingStep ==
    ASSUME TypeOK, HoldInv, OwnInv, [Next]_vars, NEW c \in Clients
    PROVE  Searching(c)'
<1>r. req[c] \in ReqType /\ req'[c] \in ReqType /\ Searching(c)
  BY TypeStep, ZenonT(30) DEF TypeOK, OwnInv
<1>g. \A n \in Nodes : Own(n) \subseteq Own(n)'
  BY Grows, ZenonT(30) DEF Own
<1>n. req[c].node \in Nodes
  BY <1>r, ZenonT(30) DEF ReqType
<1>1. CASE req'[c] = req[c]
  BY <1>r, <1>g, <1>n, <1>1, ZenonT(30) DEF Searching
<1>2. ASSUME NEW n \in Nodes, Send(c, n) PROVE Searching(c)'
  <2>1. req'[c].kind = "search" => req'[c].at = "splits" /\ req'[c].node = n /\ req'[c].before = Own(n)
    BY <1>2, SendReq, ZenonT(30)
  <2> QED  BY <1>g, <2>1, ZenonT(30) DEF Searching
<1>3. ASSUME Serve(c) PROVE Searching(c)'
  <2>f. req'[c].kind = req[c].kind /\ req'[c].node = req[c].node /\ req'[c].before = req[c].before
    BY <1>3, Fixed, ZenonT(30)
  <2>1. SUFFICES ASSUME req[c].kind = "search"
                 PROVE  /\ req'[c].at = "hits" => req[c].before \subseteq req'[c].list
                        /\ req'[c].at = "ok" => req'[c].out \cap req[c].before = {}
    BY <1>r, <1>g, <1>n, <2>f, ZenonT(30) DEF Searching
  <2>2. req[c].at \in {"splits", "tombs", "fetched", "hits", "ok", "error"}
    BY <2>1, ZenonT(30) DEF HoldInv, Routed, Route
  <2>3. \A d \in req[c].before : Covers(req[c].node, d)
    BY <1>r, <1>n, <2>1, ZenonT(30) DEF Searching, OwnInv
  <2>4. CASE req[c].at = "tombs"
    <3>1. /\ req'[c].at # "ok"
          /\ req'[c].at = "hits" => cache[req[c].node].fresh /\ req'[c].list = cache[req[c].node].rows
      BY <1>3, <2>4, ListRead, ZenonT(30)
    <3> QED  BY <2>3, <3>1, ZenonT(30) DEF Covers
  <2>5. CASE req[c].at = "fetched"
    <3>1. req'[c].at = "hits" /\ req'[c].list = req[c].list
      BY <1>3, <2>5, Fixed, Onward, ZenonT(30)
    <3> QED  BY <2>3, <2>5, <3>1, ZenonT(30) DEF Covers
  <2>6. CASE req[c].at = "hits"
    <3>1. req'[c] = [req[c] EXCEPT !.out = req[c].seen \ req[c].list, !.at = "ok"]
      BY <1>3, <2>1, <2>6, Staged, ZenonT(30) DEF Stage
    <3>2. req'[c].at = "ok" /\ req'[c].out = req[c].seen \ req[c].list
      BY <1>r, <3>1, ZenonT(30) DEF ReqType
    <3> QED  BY <1>r, <2>1, <2>6, <3>2, ZenonT(30) DEF Searching
  <2> QED  BY <1>3, <2>2, <2>4, <2>5, <2>6, Onward, ZenonT(30)
<1> QED  BY <1>1, <1>2, <1>3, Moves, ZenonT(30)

\* What a node hides is inductive.
LEMMA OwnInvStep ==
    ASSUME TypeOK, ListComplete, HoldInv, QueryInv, OwnInv, [Next]_vars
    PROVE  OwnInv'
BY OwnStep, DeletingStep, SearchingStep, Zenon DEF OwnInv

\* The cluster starts with no delete answered.
LEMMA InitOwn == Init => OwnInv
<1> SUFFICES ASSUME Init PROVE OwnInv
  OBVIOUS
<1>1. \A c \in Clients : req[c].kind = "none" /\ req[c].at = "idle"
  BY ZenonT(30) DEF Init, Idle
<1>2. \A n \in Nodes : Own(n) = {}
  BY ZenonT(30) DEF Init, Own
<1> QED  BY <1>1, <1>2, ZenonT(30) DEF OwnInv, Deleting, Searching

\* A delete is visible to the next search on the node that handled it, though the
\* node caches its tombstone list, unless it was reading the rows meanwhile
\* (tombstones_for, invalidate_tombstones).
THEOREM OwnDeleteIsHidden == Spec => []OwnDeleteHidden
<1>1. Init => OwnInv
  BY InitOwn, ZenonT(30)
<1>2. TypeOK /\ ListComplete /\ HoldInv /\ QueryInv /\ OwnInv /\ [Next]_vars => OwnInv'
  BY OwnInvStep, ZenonT(30)
<1>3. OwnInv => OwnDeleteHidden
  BY ZenonT(30) DEF OwnInv, Searching, OwnDeleteHidden, At
<1> QED  BY <1>1, <1>2, <1>3, QueryInvariant, ListIsComplete, PTL DEF Spec
=============================================================================
