----------------------------- MODULE Knowledge ------------------------------
(***************************************************************************)
(* KnowledgeStore over SQLite: nodes and edges, the evolution log that is  *)
(* written after each change, snapshots made of savepoints, and the walk   *)
(* of a relationship.  A statement outside a transaction commits by        *)
(* itself; Crash is the end of the process, or closing the database.       *)
(* Foreign keys are not enforced (the pragma is never given).  A record is *)
(* one field; db.cut records the nodes whose last change has no entry.     *)
(* Bounds: MaxNodes, MaxEdges, MaxLog, MaxSnaps; Seeds are the graphs a    *)
(* fresh store may be seeded with.                                         *)
(***************************************************************************)
EXTENDS Integers, Sequences, FiniteSets, SequencesExt, FiniteSetsExt

CONSTANTS MaxNodes, MaxEdges, MaxLog, MaxSnaps, Values, Binary, Seeds

VARIABLES
  db,      \* what the connection sees
  disk,    \* what has been committed
  tx,      \* a transaction is open
  saves,   \* its savepoints, the innermost last
  pending  \* the change that is done and not yet logged, or NoEntry

kgVars == <<db, disk, tx, saves, pending>>
NoEntry == <<>>
NoRec == -1
Nodes == 1..MaxNodes

(* RecordToJson, dump, parse, JsonToRecord: binary data come back as the   *)
(* fallback 0, the rest as it was.                                         *)
Stored(v) == IF v = Binary THEN 0 ELSE v

KgInit ==
  /\ db = [nodes |-> <<>>, edges |-> <<>>, log |-> <<>>, snaps |-> <<>>,
           nextNode |-> 1, nextEdge |-> 1, nextSnap |-> 1, cut |-> {}]
  /\ disk = db /\ tx = FALSE /\ saves = <<>> /\ pending = NoEntry

\* One statement: committed at once unless a transaction is open.
Execute(d) == db' = d /\ disk' = IF tx THEN disk ELSE d
Ready == pending = NoEntry /\ Len(db.log) < MaxLog
Record(n) == IF n \in DOMAIN db.nodes THEN db.nodes[n] ELSE NoRec
Change(d, entity, id, op, before) ==
  /\ Execute(d) /\ pending' = <<entity, id, op, before>> /\ UNCHANGED <<tx, saves>>
WithNode(d, v) == [d EXCEPT !.nodes = [n \in DOMAIN @ \cup {d.nextNode} |->
                                         IF n = d.nextNode THEN Stored(v) ELSE @[n]],
                            !.nextNode = @ + 1]

InsertNode(v) == /\ Ready /\ db.nextNode <= MaxNodes
                 /\ Change(WithNode(db, v), "Node", db.nextNode, "Insert", NoRec)
(* The record before the change is read first; a node that is not there    *)
(* cannot be updated, and can be deleted.                                  *)
UpdateNode(n, v) ==
  /\ Ready /\ n \in DOMAIN db.nodes
  /\ Change([db EXCEPT !.nodes[n] = Stored(v)], "Node", n, "Update", Record(n))
DeleteNode(n) ==
  /\ Ready
  /\ Change([db EXCEPT !.nodes = [m \in DOMAIN @ \ {n} |-> @[m]]], "Node", n, "Delete", Record(n))
InsertEdge(s, t) ==
  /\ Ready /\ db.nextEdge <= MaxEdges
  /\ Change([db EXCEPT !.edges = Append(@, <<s, t>>), !.nextEdge = @ + 1],
            "Edge", db.nextEdge, "Insert", NoRec)
(* KnowledgeGraph::DeleteEdge, which the store does not offer, logs nothing.*)
DeleteEdge(i) == /\ Ready /\ i \in DOMAIN db.edges /\ Execute([db EXCEPT !.edges = RemoveAt(@, i)])
                 /\ UNCHANGED <<tx, saves, pending>>
(* InsertNodesBatch: its own transaction, which does not nest; no log.     *)
InsertNodesBatch(v) ==
  /\ Ready /\ ~tx /\ db.nextNode < MaxNodes
  /\ Execute([WithNode(WithNode(db, v), v) EXCEPT !.cut = @ \cup {db.nextNode, db.nextNode + 1}])
  /\ UNCHANGED <<tx, saves, pending>>

(* SeedKnowledgeGraph writes to the graph itself, past the log.            *)
Seed(g) ==
  /\ db.nextNode = 1 /\ db.edges = <<>> /\ db.log = <<>> /\ Ready
  /\ Execute([db EXCEPT !.nodes = [n \in 1..g.nodes |-> 1], !.nextNode = g.nodes + 1, !.edges = g.edges,
                         !.nextEdge = Len(g.edges) + 1, !.cut = 1..g.nodes])
  /\ UNCHANGED <<tx, saves, pending>>

(* Append: the version follows the last one of the entity.                 *)
Entries(log, entity, id) == {i \in DOMAIN log : log[i].entity = entity /\ log[i].id = id}
NextVersion(log, entity, id) == 1 + Max({0} \cup {log[i].version : i \in Entries(log, entity, id)})
AppendLog ==
  /\ pending # NoEntry /\ pending' = NoEntry
  /\ LET e == pending
     IN  Execute([db EXCEPT !.log = Append(@, [entity |-> e[1], id |-> e[2], op |-> e[3], before |-> e[4],
                                               version |-> NextVersion(@, e[1], e[2])]),
                            !.cut = IF e[1] = "Node" THEN @ \ {e[2]} ELSE @])
  /\ UNCHANGED <<tx, saves>>

(* Snapshots.  Create opens a transaction that nothing commits, inserts a  *)
(* row without a name, and names it after the savepoint is taken: going    *)
(* back to the savepoint takes the name away.                              *)
Named(d) == {s \in DOMAIN d.snaps : d.snaps[s]}
CreateSnapshot ==
  /\ Ready /\ db.nextSnap <= MaxSnaps /\ tx' = TRUE
  /\ IF Named(db) # DOMAIN db.snaps \* the empty name is UNIQUE
     THEN UNCHANGED <<db, saves>>
     ELSE LET row == [db EXCEPT !.snaps = [s \in DOMAIN @ \cup {db.nextSnap} |-> s \in DOMAIN @],
                                !.nextSnap = @ + 1]
          IN  /\ saves' = Append(saves, [id |-> db.nextSnap, at |-> row])
              /\ db' = [row EXCEPT !.snaps[db.nextSnap] = TRUE]
  /\ UNCHANGED <<disk, pending>>
Savepoint(s) == {i \in DOMAIN saves : saves[i].id = s}
RestoreSnapshot(s) ==
  /\ Ready /\ s \in Named(db) /\ Savepoint(s) # {}
  /\ LET i == Max(Savepoint(s))
     IN  db' = saves[i].at /\ saves' = SubSeq(saves, 1, i)
  /\ UNCHANGED <<disk, tx, pending>>
(* Delete releases the savepoint, and those inside it.                     *)
DeleteSnapshot(s) ==
  /\ Ready /\ s \in Named(db) /\ Savepoint(s) # {}
  /\ saves' = SubSeq(saves, 1, Max(Savepoint(s)) - 1)
  /\ db' = [db EXCEPT !.snaps = [r \in DOMAIN @ \ {s} |-> @[r]]]
  /\ UNCHANGED <<disk, tx, pending>>

Crash ==
  /\ LET lost == pending # NoEntry /\ ~tx
     IN  disk' = [disk EXCEPT !.cut = IF lost /\ pending[1] = "Node" THEN @ \cup {pending[2]} ELSE @]
  /\ db' = disk' /\ tx' = FALSE /\ saves' = <<>> /\ pending' = NoEntry

(* TraverseImpl: the targets of a node, then a walk from each one that has *)
(* not been visited; visited is shared by the whole walk.                  *)
Targets(edges, from) == SelectSeq(edges, LAMBDA e : e[1] = from /\ e[2] \in DOMAIN db.nodes)
Walk(edges, from, depth) ==
  LET walk[d \in Nat, n \in Nat, seen \in SUBSET Nat] ==
        IF d = 0 THEN [found |-> {}, visited |-> seen]
        ELSE FoldLeft(LAMBDA acc, e :
                        IF d = 1 \/ e[2] \in acc.visited THEN [acc EXCEPT !.found = @ \cup {e[2]}]
                        ELSE LET deeper == walk[d - 1, e[2], acc.visited]
                             IN  [found |-> acc.found \cup deeper.found \cup {e[2]}, visited |-> deeper.visited],
                      [found |-> {}, visited |-> seen \cup {n}], Targets(edges, n))
  IN  walk[depth, from, {}].found
Traverse(from, depth) == Walk(db.edges, from, depth)
Flipped == [i \in DOMAIN db.edges |-> <<db.edges[i][2], db.edges[i][1]>>]
ReverseTraverse(to, depth) == Walk(Flipped, to, depth)

KgNext ==
  \/ \E v \in Values : InsertNode(v)
  \/ \E n \in Nodes : DeleteNode(n) \/ \E v \in Values : UpdateNode(n, v)
  \/ \E s, t \in Nodes : InsertEdge(s, t)
  \/ \E i \in 1..MaxEdges : DeleteEdge(i)
  \/ \E v \in Values : InsertNodesBatch(v)
  \/ \E g \in Seeds : Seed(g)
  \/ AppendLog \/ CreateSnapshot
  \/ \E s \in 1..MaxSnaps : RestoreSnapshot(s) \/ DeleteSnapshot(s)
  \/ Crash
KgSpec == KgInit /\ [][KgNext]_kgVars

(***************************************************************************)
(* Properties                                                              *)
(***************************************************************************)
(* The evolution log (knowledge_store.cpp:118-156) explains the store: the *)
(* versions of an entity count from 1, and its last entry says whether the *)
(* node is there, through snapshots, restores and crashes; only a change   *)
(* that a crash has cut from its entry, or a batch, is not in it.          *)
Counted(log) ==
  \A i \in DOMAIN log :
    log[i].version = Cardinality({j \in Entries(log, log[i].entity, log[i].id) : j <= i})
Told(d, n) == LET es == Entries(d.log, "Node", n)
              IN  n \in DOMAIN d.nodes <=> (\E i \in es : (\A j \in es : j <= i) /\ d.log[i].op # "Delete")
Unlogged(n) == pending # NoEntry /\ pending[1] = "Node" /\ pending[2] = n
LogExplains == /\ Counted(db.log)
               /\ \A n \in Nodes \ db.cut : Unlogged(n) \/ Told(db, n)
(* Why: it holds of what is committed and of every savepoint too, and the  *)
(* change that is pending says what its entry will say.                    *)
Explained(d) == Counted(d.log) /\ \A n \in Nodes \ d.cut : Told(d, n)
KgInv == /\ LogExplains
         /\ IF tx THEN Explained(disk) ELSE disk = db /\ saves = <<>>
         /\ \A i \in DOMAIN saves : Explained(saves[i].at)
         /\ \A n \in Nodes : Unlogged(n) => (n \in DOMAIN db.nodes <=> pending[3] # "Delete")

(* A walk (knowledge_graph.cpp:320-452) ends whatever the cycles, and finds*)
(* only nodes that are there, at the end of a path of at most that length; *)
(* with a depth of 1 it finds all of them, in both directions.             *)
Within(edges, n, d) ==
  LET level[k \in 0..d] ==
        IF k = 0 THEN {n}
        ELSE {m \in DOMAIN db.nodes : \E i \in DOMAIN edges, l \in level[k - 1] : edges[i] = <<l, m>>}
  IN  UNION {level[k] : k \in 1..d}
TraverseSound ==
  \A n \in DOMAIN db.nodes, d \in 0..3 :
    /\ Traverse(n, d) \subseteq Within(db.edges, n, d) /\ ReverseTraverse(n, d) \subseteq Within(Flipped, n, d)
    /\ d = 1 => Traverse(n, d) = Within(db.edges, n, d) /\ \A m \in Traverse(n, d) : n \in ReverseTraverse(m, d)

\* Documented (knowledge_store_test.cpp:122): the walk reaches what lies within
\* max_depth.  A node first met at the end of a longer path is not walked from again.
TraverseComplete == \A n \in DOMAIN db.nodes, d \in 0..3 : Traverse(n, d) = Within(db.edges, n, d)
\* Documented (knowledge_snapshot.h, the list of snapshots): each can be restored.
\* The first restore takes its name, deleting another its savepoint.
ListedRestorable == \A s \in DOMAIN db.snaps : s \in Named(db) /\ Savepoint(s) # {}
\* Documented (knowledge_store.cpp:17-29, ON DELETE CASCADE): edges have their ends.
EdgesHaveEnds == \A i \in DOMAIN db.edges : db.edges[i][1] \in DOMAIN db.nodes
=============================================================================
