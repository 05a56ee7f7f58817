---------------------------- MODULE MCDagLevels ----------------------------
(***************************************************************************)
(* With the flip: every acyclic graph the walk can produce when no         *)
(* equivalence class is wider than two tables, with edges from later to    *)
(* earlier tables.  The two columns of an edge differ, so that reversing   *)
(* it must exchange the sides.  Without the flip: every graph, since the   *)
(* level loop reads only which tables are linked.                          *)
(***************************************************************************)
EXTENDS DagLevels

GraphsWith(pairs, allowed) ==
    {[e \in Tables \X Tables |-> IF e \in E THEN pairs ELSE << >>] : E \in SUBSET allowed}

MCStartGraphs == GraphsWith(<< <<0, 1>> >>, {e \in Tables \X Tables : e[1] > e[2]})
MCOtherGraphs == GraphsWith(<< <<0, 1>> >>, {e \in Tables \X Tables : e[1] # e[2]})
=============================================================================
