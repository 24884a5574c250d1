---------------------------- MODULE Reachability ----------------------------
(***************************************************************************)
(* Reachability in a finite directed graph, as the least set of nodes that *)
(* holds a start node and is closed under the edges.  The store computes   *)
(* it with WITH RECURSIVE queries: over provenance rows to find what was   *)
(* derived from a Revision, and over derivation edges between Pages to     *)
(* keep the derivation relations acyclic.                                  *)
(***************************************************************************)

\* A set of nodes no edge leaves; an edge is a pair <<from, to>>.
Closed(S, edges) == \A e \in edges : e[1] \in S => e[2] \in S

\* What can be reached from start, which is itself one of the nodes: the
\* intersection of the closed sets that hold it.
Reach(nodes, start, edges) ==
    LET closed == {S \in SUBSET nodes : start \in S /\ Closed(S, edges)}
    IN  {n \in nodes : \A S \in closed : n \in S}

\* No node can be reached again after leaving it by an edge.
AcyclicGraph(nodes, edges) ==
    \A e \in edges : e[1] \notin Reach(nodes, e[2], edges)
=============================================================================
