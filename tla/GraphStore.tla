------------------------------ MODULE GraphStore ------------------------------
(***************************************************************************)
(* The Neo4j store as a data type: what each statement of                  *)
(* pkg/graph/neo4j does to the graph.                                      *)
(*                                                                         *)
(* A node is a pair <<label, id>>. It is real once UpsertNode has written  *)
(* it and a placeholder when only an edge has named it. Properties, which  *)
(* UpsertNode replaces as a whole, are left out. There is at most one edge *)
(* of a type between two nodes: MERGE finds the one that is there.         *)
(***************************************************************************)

EmptyGraph == [real |-> {}, placeholder |-> {}, edges |-> {}]

\* models.GetNodeID: type/namespace/name, or type/name for what has no namespace.
GetNodeID(type, ns, name) == IF ns = "" THEN <<type, name>> ELSE <<type, ns, name>>

From(e)  == e[1]
Label(e) == e[2]
To(e)    == e[3]

UpsertNode(g, n) ==
    [real |-> g.real \union {n}, placeholder |-> g.placeholder \ {n}, edges |-> g.edges]

\* Mutant: the placeholder mark is set on match too.
UpsertEdgeMarks(g, e) ==
    [real |-> g.real, placeholder |-> g.placeholder \union {From(e), To(e)},
     edges |-> g.edges \union {e}]

\* The ends that are not there are created as placeholders.
UpsertEdge(g, e) ==
    [real |-> g.real, placeholder |-> g.placeholder \union ({From(e), To(e)} \ g.real),
     edges |-> g.edges \union {e}]

EdgesAt(g, n) == {e \in g.edges : n \in {From(e), To(e)}}

\* DETACH DELETE: the node goes with its edges, in and out.
DeleteNode(g, n) ==
    [real |-> g.real \ {n}, placeholder |-> g.placeholder \ {n},
     edges |-> g.edges \ EdgesAt(g, n)]

DeleteEdgesByNode(g, n) == [g EXCEPT !.edges = @ \ EdgesAt(g, n)]

DeleteEdgesByTypeAndNode(g, n, types) ==
    [g EXCEPT !.edges = @ \ {e \in EdgesAt(g, n) : Label(e) \in types}]

\* The placeholders without an edge.
Orphans(g) == {n \in g.placeholder : EdgesAt(g, n) = {}}

CleanupOrphanedPlaceholders(g) == [g EXCEPT !.placeholder = @ \ Orphans(g)]
=============================================================================
