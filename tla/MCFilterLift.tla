---------------------------- MODULE MCFilterLift ----------------------------
(***************************************************************************)
(* A scan of table a, the operators of the two passes on it, and up to     *)
(* MaxAbove operators of the query above: joins with b, MARK joins on a    *)
(* column of a or b, and FILTERs on columns or on a mark.  Only spines     *)
(* whose conditions find their columns are plans.                          *)
(***************************************************************************)
EXTENDS FilterLift

CONSTANT MaxAbove      \* bound: operators of the query above the scan's own

Operator(kind, uses, gives) == [kind |-> kind, uses |-> uses, gives |-> gives, pass |-> "query"]
OnScan(kind, p)             == [kind |-> kind, uses |-> {"a"}, gives |-> {}, pass |-> p]

Scan == Operator("SCAN", {}, {"a"})

\* Forward probes, the forward create, backward probes, the backward create.
StackOf(p) == {<< >>, <<OnScan("PROBE", p)>>, <<OnScan("CREATE", p)>>,
               <<OnScan("PROBE", p), OnScan("CREATE", p)>>}
Stacks == {f \o b : f \in StackOf("forward"), b \in StackOf("backward")}

Above == {Operator("MARK", {"a"}, {"m1"}), Operator("MARK", {"b"}, {"m2"}),
          Operator("JOIN", {"a"}, {"b"}),  Operator("FILTER", {"a"}, {}),
          Operator("FILTER", {"m1"}, {}),  Operator("FILTER", {"m2"}, {}),
          Operator("FILTER", {"b"}, {})}

Columns(s) == UNION {s[i].gives : i \in DOMAIN s}

\* The queries with n operators: each finds its columns below it, and adds
\* columns not there yet.
Queries ==
    LET of[n \in 0 .. MaxAbove] ==
            IF n = 0 THEN {<<Scan>>}
            ELSE of[n - 1] \cup
                 UNION {{Append(q, op) : op \in {o \in Above : /\ o.uses \subseteq Columns(q)
                                                               /\ o.gives \cap Columns(q) = {}}} :
                        q \in of[n - 1]}
    IN  of[MaxAbove]

MCSpines == {<<q[1]>> \o st \o Tail(q) : st \in Stacks, q \in Queries}
=============================================================================
